------------------------------ MODULE Keyboard ------------------------------
(***************************************************************************)
(* Keyboard input: the PS/2 driver (drivers/input/ps2.c), the reports of a *)
(* USB keyboard (usb_hid.c) and the stream that keyboard.c merges them     *)
(* into.  A typist strikes keys; the hardware turns each stroke into one   *)
(* to three bytes, or into a report of what is held down; polls may come   *)
(* at any time, also between the bytes of one stroke.                      *)
(*                                                                         *)
(* A character is its key and what the modifiers make of it; a key without *)
(* a character has none.                                                   *)
(***************************************************************************)
EXTENDS Naturals, Sequences, SequencesExt, FiniteSets

CONSTANTS
    Letters, Others,   \* keys with a character that Caps Lock changes, or does not
    Extended,          \* those of Others whose code has a prefix
    BufSize,           \* PS2_KEY_BUF_SIZE, KB_BUF_SIZE, HID_KEY_BUF_SIZE
    UsbKeys,           \* keys in a HID report
    MaxStrokes         \* bound: keys struck or released

VARIABLES
    ctl,          \* the PS/2 controller: "works", "silent", "failed" or "absent"
    enabled,      \* keyboard port on
    source,       \* "ps2", "raw", "usb" or "none"
    held, lock,   \* what the typist holds down; Caps Lock
    wire,         \* bytes or reports on their way
    ps2,          \* ps2_dev_t or the g_* modifiers: release, shift, ctrl, caps; prev_keys
    ring,         \* events in the driver's ring
    g_buf,        \* events in the ring of keyboard.c
    typed, got,   \* history: characters typed; characters keyboard_getchar returned
    strokes, dropped, rolled

vars == <<ctl, enabled, source, held, lock, wire, ps2, ring, g_buf, typed, got, strokes, dropped, rolled>>

Chars == Letters \cup Others
Keys == Chars \cup {"shift", "ctrl", "caps"}
None == <<>>

-----------------------------------------------------------------------------
(* From keys to characters. *)

\* sc2_normal and sc2_shifted with Shift, Caps Lock and Ctrl; sc1_* likewise.
Ascii(k, shift, ctrl, caps) ==
    LET shifted == shift # (caps /\ k \in Letters)
    IN  IF k \notin Chars THEN None
        ELSE IF shifted THEN <<k, "shifted">>
        ELSE IF ctrl /\ k \in Letters THEN <<k, "control">>
        ELSE <<k, "normal">>
usb_hid_keycode_to_ascii(k, shift) == Ascii(k, shift, FALSE, FALSE)

Key(k, pressed, ch) == [key |-> k, pressed |-> pressed, ascii |-> ch]

\* A ring of BufSize keeps one entry free; what does not fit is dropped.
Fits(s) == Len(s) < BufSize - 1
Push(s, e) == IF Fits(s) THEN Append(s, e) ELSE s
PushAll(s, es) == FoldLeft(Push, s, es)
Lost(s, es) == Len(s) + Len(es) > BufSize - 1

-----------------------------------------------------------------------------
(* The drivers. *)

\* ps2_process_byte: d is the decoder and the events so far.
Cleared_Not(dev) == dev
Cleared(dev) == [dev EXCEPT !.release = FALSE]
ps2_process_byte(d, b) ==
    LET dev == d.dev
        down == ~dev.release
        next == Cleared(dev)
    IN  CASE b = "E0" -> d
          [] b = "F0" -> [d EXCEPT !.dev.release = TRUE]
          [] b = "shift" -> [d EXCEPT !.dev = [next EXCEPT !.shift = down]]
          [] b = "ctrl" -> [d EXCEPT !.dev = [next EXCEPT !.ctrl = down]]
          [] b = "caps" /\ down -> [d EXCEPT !.dev = [next EXCEPT !.caps = ~@]]
          [] OTHER -> [dev |-> next,
                       evs |-> Append(d.evs, Key(b, down, Ascii(b, dev.shift, dev.ctrl, dev.caps)))]

\* ps2_poll, on the bytes that have arrived.
ps2_poll(bytes) == FoldLeft(ps2_process_byte, [dev |-> ps2, evs |-> <<>>], bytes)

\* poll_raw_port60: one byte of scancode set 1.  The loop ends at a modifier.
IsModifier(b) == b.key \in {"shift", "ctrl"} \/ (b.key = "caps" /\ b.make)
raw_byte(d, b) ==
    LET dev == d.dev
    IN  CASE b.key = "shift" -> [d EXCEPT !.dev.shift = b.make]
          [] b.key = "ctrl" -> [d EXCEPT !.dev.ctrl = b.make]
          [] b.key = "caps" /\ b.make -> [d EXCEPT !.dev.caps = ~@]
          [] OTHER -> [d EXCEPT !.evs = Append(@, Key(b.key, b.make, Ascii(b.key, dev.shift, dev.ctrl, dev.caps)))]
RawRuns(n) == \A k \in 1 .. n - 1 : ~IsModifier(wire[k])

\* hid_process_keyboard: presses in the order of the report, then releases.
hid_process_keyboard(prev, report) ==
    LET news == SelectSeq(report.keys, LAMBDA k : k # "rollover" /\ k \notin ToSet(prev))
        gone == SelectSeq(prev, LAMBDA k : k # "rollover" /\ k \notin ToSet(report.keys))
    IN  [n \in 1 .. Len(news) |-> Key(news[n], TRUE, usb_hid_keycode_to_ascii(news[n], report.shift))] \o
        [n \in 1 .. Len(gone) |-> Key(gone[n], FALSE, usb_hid_keycode_to_ascii(gone[n], report.shift))]

-----------------------------------------------------------------------------
(* keyboard.c *)

\* ps2_init disables the ports first and comes back without enabling them if the
\* controller fails a test; one that takes no commands stays as the firmware left
\* it.  Without PS/2 there is the input driver that the loader knows, if any.
Ps2_Enables == ctl \in {"works", "silent"}
keyboard_init ==
    /\ source = "none"
    /\ source' = (IF ctl = "absent" THEN "usb" ELSE IF ctl = "works" THEN "ps2" ELSE "raw")
    /\ enabled' = Ps2_Enables
    /\ ps2' = [release |-> FALSE, shift |-> FALSE, ctrl |-> FALSE, caps |-> FALSE, prev |-> <<>>]
    /\ UNCHANGED <<ctl, held, lock, wire, ring, g_buf, typed, got, strokes, dropped, rolled>>

Drained(n) == wire' = SubSeq(wire, n + 1, Len(wire))

\* poll_ps2: the driver's ring is emptied into g_buf.
poll_ps2(n) ==
    /\ source = "ps2"
    /\ LET d == ps2_poll(SubSeq(wire, 1, n))
           evs == PushAll(ring, d.evs)
       IN  /\ ps2' = d.dev
           /\ g_buf' = PushAll(g_buf, evs)
           /\ dropped' = (dropped \/ Lost(ring, d.evs) \/ Lost(g_buf, evs))
    /\ Drained(n)
    /\ UNCHANGED ring

poll_raw_port60(n) ==
    /\ source = "raw" /\ RawRuns(n)
    /\ LET d == FoldLeft(raw_byte, [dev |-> ps2, evs |-> <<>>], SubSeq(wire, 1, n))
       IN  /\ ps2' = d.dev
           /\ g_buf' = PushAll(g_buf, d.evs)
           /\ dropped' = (dropped \/ Lost(g_buf, d.evs))
    /\ Drained(n)
    /\ UNCHANGED ring

\* poll_driver_loader, one round of its loop: xhci_drv_input_poll takes in one report, if there is one, and
\* gives out one event; the loop ends when that is not a key pressed.
poll_driver_loader(n) ==
    /\ source = "usb" /\ n <= 1
    /\ LET evs == IF n = 0 THEN <<>> ELSE hid_process_keyboard(ps2.prev, wire[1])
           all == PushAll(ring, evs)
       IN  /\ ps2' = IF n = 0 THEN ps2 ELSE [ps2 EXCEPT !.prev = wire[1].keys]
           /\ ring' = IF all = <<>> THEN all ELSE Tail(all)
           /\ g_buf' = IF all # <<>> /\ Head(all).pressed THEN Push(g_buf, Head(all)) ELSE g_buf
           /\ dropped' = (dropped \/ Lost(ring, evs)
                          \/ (all # <<>> /\ Head(all).pressed /\ ~Fits(g_buf)))
    /\ Drained(n)

keyboard_poll ==
    /\ source # "none"
    /\ \E n \in 0 .. Len(wire) : poll_ps2(n) \/ poll_raw_port60(n) \/ poll_driver_loader(n)
    /\ UNCHANGED <<ctl, enabled, source, held, lock, typed, got, strokes, rolled>>

\* keyboard_getchar between two polls: one event is popped.
keyboard_getchar ==
    /\ g_buf # <<>>
    /\ g_buf' = Tail(g_buf)
    /\ got' = IF Head(g_buf).pressed /\ Head(g_buf).ascii # None THEN Append(got, Head(g_buf).ascii) ELSE got
    /\ UNCHANGED <<ctl, enabled, source, held, lock, wire, ps2, ring, typed, strokes, dropped, rolled>>

-----------------------------------------------------------------------------
(* The typist and the hardware. *)

Prefix(k) == IF k \in Extended THEN <<"E0">> ELSE <<>>
Set2(k, down) == Prefix(k) \o (IF down THEN <<k>> ELSE <<"F0", k>>)
\* In set 1 the prefix looks like the release of a key without a character.
Set1(k, down) ==
    (IF k \in Extended THEN <<[key |-> "E0", make |-> FALSE]>> ELSE <<>>) \o <<[key |-> k, make |-> down]>>
Pressed(s) == SetToSeq(s \cap Chars)
Report(s) ==
    <<[shift |-> "shift" \in s,
       keys |-> IF Cardinality(s \cap Chars) > UsbKeys THEN [n \in 1 .. UsbKeys |-> "rollover"] ELSE Pressed(s)]>>

Sends(k, down, s) ==
    CASE source = "usb" -> Report(s)
      [] ~enabled -> <<>>
      [] source = "raw" -> Set1(k, down)
      [] OTHER -> Set2(k, down)

\* What the typist means by the stroke.
Meant(k) ==
    IF source = "usb" THEN usb_hid_keycode_to_ascii(k, "shift" \in held)
    ELSE Ascii(k, "shift" \in held, "ctrl" \in held, lock)

strike(k) ==
    /\ source # "none" /\ strokes < MaxStrokes
    /\ held' = IF k \in held THEN held \ {k} ELSE held \cup {k}
    /\ lock' = IF k = "caps" /\ k \notin held THEN ~lock ELSE lock
    /\ typed' = IF k \in Chars \ held THEN Append(typed, Meant(k)) ELSE typed
    /\ wire' = wire \o Sends(k, k \notin held, held')
    /\ rolled' = (rolled \/ (source = "usb" /\ Cardinality(held' \cap Chars) > UsbKeys))
    /\ strokes' = strokes + 1
    /\ UNCHANGED <<ctl, enabled, source, ps2, ring, g_buf, got, dropped>>

-----------------------------------------------------------------------------
Init ==
    /\ ctl \in {"works", "silent", "failed", "absent"} /\ enabled = TRUE /\ source = "none"
    /\ held = {} /\ lock = FALSE /\ wire = <<>>
    /\ ps2 = [release |-> FALSE, shift |-> FALSE, ctrl |-> FALSE, caps |-> FALSE, prev |-> <<>>]
    /\ ring = <<>> /\ g_buf = <<>> /\ typed = <<>> /\ got = <<>>
    /\ strokes = 0 /\ dropped = FALSE /\ rolled = FALSE

Next == keyboard_init \/ keyboard_poll \/ keyboard_getchar \/ \E k \in Keys : strike(k)

\* The shell calls keyboard_getchar again and again.
Fairness == WF_vars(keyboard_init) /\ WF_vars(keyboard_poll /\ vars' # vars) /\ WF_vars(keyboard_getchar)
Spec == Init /\ [][Next]_vars /\ Fairness

-----------------------------------------------------------------------------
Within(s, t) ==
    \E at \in [1 .. Len(s) -> 1 .. Len(t)] :
        /\ \A n \in 1 .. Len(s) : s[n] = t[at[n]]
        /\ \A m, n \in 1 .. Len(s) : m < n => at[m] < at[n]

\* The characters that keyboard_getchar returns are characters typed, in that order
\* and as meant, through both rings and whatever moment a poll comes; and once
\* everything is read none is missing, unless a ring was full.  (When more keys are
\* down than a USB report holds, hid_process_keyboard takes all of them for
\* released, and for struck again afterwards.)
TypedIsGot ==
    ~rolled =>
        /\ Within(got, typed)
        /\ (~dropped /\ enabled /\ wire = <<>> /\ ring = <<>> /\ g_buf = <<>>) => got = typed

\* Everything typed is read in the end, unless a ring was full or the PS/2
\* controller failed its tests.
InputDrains == <>[](wire = <<>> /\ ring = <<>> /\ g_buf = <<>>)
=============================================================================
