-------------------------------- MODULE WiFi --------------------------------
(***************************************************************************)
(* A Wi-Fi station (drivers/network/wifi_framework.c, aes_ccmp.c): scan,   *)
(* authentication, association, the WPA2 four-way handshake, and encrypted *)
(* frames, against an access point that retries, restarts, and speaks over *)
(* air that loses and repeats frames.                                      *)
(*                                                                         *)
(* A nonce is a number never used before; a pairwise key is the passphrase *)
(* and the two nonces it is derived from, and a MIC is the key it was made *)
(* with.  The access point is external: it follows 802.11i.                *)
(***************************************************************************)
EXTENDS Integers, Sequences, SequencesExt, FiniteSets, Functions

CONSTANTS
    Networks,      \* the names on the air; "home" is the one asked for
    MaxScan,       \* WIFI_MAX_SCAN_RESULTS
    MaxFaults,     \* bound: frames lost or repeated, retries, restarts, missed deadlines
    MaxConnects,   \* bound: calls of wifi_connect
    MaxSend,       \* bound: frames sent in each direction
    Air            \* bound: frames in flight when one more is sent unasked

VARIABLES
    sta,           \* wifi_ctx_t
    pc, rc,        \* where wifi_connect is; its last result
    found,         \* scan_results: names
    ap,            \* the access point
    down, up,      \* frames in flight to the station and to the access point
    out, got,      \* history: data frames sent and handed over
    right, near,   \* the passphrase is right; the access point is in range
    connects, faults

vars == <<sta, pc, rc, found, ap, down, up, out, got, right, near, connects, faults>>

NoKey == <<>>

-----------------------------------------------------------------------------
(* Frames. *)

Frame(kind, n, key) == [kind |-> kind, n |-> n, key |-> key, ctr |-> 0, ok |-> TRUE, ssid |-> ""]

\* wifi_derive_ptk: both ends get the same key from the same nonces and passphrase.
wifi_derive_ptk(pmk, anonce, snonce) == <<pmk, anonce, snonce>>

wifi_build_auth == Frame("auth", 1, NoKey)
wifi_build_assoc_req == Frame("assoc", 0, NoKey)
wifi_build_deauth == Frame("deauth", 0, NoKey)

\* wf_generate_snonce draws from the timer: taken not to repeat.
wf_generate_snonce(s) == s.snonce + 1

wf_inc_pn(pn) == pn + 1
wf_cmp_pn(a, b) == a - b

\* wifi_build_eapol_msg2, wifi_build_eapol_msg4: the counter of the message answered.
eapol_msg2(s) == [Frame("m2", s.snonce, s.ptk) EXCEPT !.ctr = s.replay]
eapol_msg4(s) == [Frame("m4", 0, s.ptk) EXCEPT !.ctr = s.replay]

\* ccmp_build_aad keeps the Protected bit of the header it is given: encryption gives
\* it the header before the bit is set, decryption the header as received.
ccmp_build_aad(protected) == protected
ccmp_encrypt_frame(key, pn) == [key |-> key, pn |-> pn, aad |-> ccmp_build_aad(FALSE)]
ccmp_decrypts(f, key) == f.key = key /\ f.aad = ccmp_build_aad(TRUE)

-----------------------------------------------------------------------------
(* wifi_process_frame: the station and the frames it sends, after frame f. *)

Did(s, sent) == [sta |-> s, sent |-> sent]

\* Message 1: a new nonce of our own, and a new key.
Message1(s, f) ==
    LET t == [s EXCEPT !.anonce = f.n, !.replay = f.ctr, !.snonce = wf_generate_snonce(s), !.state = "4WAY_2",
                       !.ptk = wifi_derive_ptk(s.pmk, f.n, wf_generate_snonce(s))]
    IN  Did(t, <<eapol_msg2(t)>>)

\* Message 3: the packet numbers go on where they were.
Installed_Restarts(s) == [s EXCEPT !.ptkOn = TRUE, !.tx_pn = 0]
Installed(s) == [s EXCEPT !.ptkOn = TRUE]
MicOk_Any(s, f) == TRUE
MicOk(s, f) == f.key = s.ptk
Message3(s, f) ==
    LET t == [s EXCEPT !.replay = f.ctr]
        u == [Installed(t) EXCEPT !.state = "CONNECTED", !.gtkOn = TRUE]
    IN  IF MicOk(s, f) THEN Did(u, <<eapol_msg4(u)>>) ELSE Did(t, <<>>)

wf_process_eapol(s, f) ==
    CASE f.kind = "m1" -> Message1(s, f)
      [] f.kind = "m3" -> Message3(s, f)
      [] OTHER -> Did(s, <<>>)

process_auth(s, f) ==
    Did(IF s.state # "AUTHENTICATING" THEN s
        ELSE [s EXCEPT !.state = IF f.ok THEN "ASSOCIATING" ELSE "IDLE"], <<>>)
process_assoc(s, f) ==
    Did(IF s.state = "ASSOCIATING" /\ ~f.ok THEN [s EXCEPT !.state = "IDLE"] ELSE s, <<>>)
process_deauth(s) == Did([s EXCEPT !.state = "IDLE", !.ptkOn = FALSE, !.gtkOn = FALSE], <<>>)

wifi_process_frame(s, f) ==
    CASE f.kind = "auth" -> process_auth(s, f)
      [] f.kind = "assoc" -> process_assoc(s, f)
      [] f.kind = "deauth" -> process_deauth(s)
      [] f.kind \in {"m1", "m3", "group"} -> wf_process_eapol(s, f)
      [] OTHER -> Did(s, <<>>)

\* wf_parse_beacon: a network is recorded once, while there is room.
wf_parse_beacon(s, f) ==
    IF s.state = "SCANNING" /\ f.kind = "beacon" /\ Cardinality(found) < MaxScan
    THEN found \cup {f.ssid} ELSE found

-----------------------------------------------------------------------------
(* The station's calls. *)

Still == <<ap, right, near>>
Say(fs) == up' = up \o fs

\* wifi_connect: the network is looked up among the results, or searched for.
Authenticate(s) ==
    /\ sta' = [s EXCEPT !.state = "AUTHENTICATING"]
    /\ Say(<<wifi_build_auth>>)
    /\ pc' = "auth" /\ UNCHANGED rc
Search(s, why) == pc' = why /\ sta' = [s EXCEPT !.state = "SCANNING"] /\ found' = {} /\ UNCHANGED <<rc, up>>

wifi_scan ==
    /\ pc = "idle" /\ connects < MaxConnects
    /\ connects' = connects + 1
    /\ Search(sta, "look")
    /\ UNCHANGED <<Still, down, out, got, faults>>

wifi_connect ==
    /\ pc = "idle" /\ connects < MaxConnects
    /\ connects' = connects + 1
    /\ LET s == [sta EXCEPT !.pmk = right]
       IN  IF "home" \in found THEN Authenticate(s) /\ UNCHANGED found
           ELSE Search(s, "scan")
    /\ UNCHANGED <<Still, down, out, got, faults>>

scan_done ==
    /\ pc \in {"scan", "look"}
    /\ IF sta.state = "SCANNING" => (near => "home" \in found) THEN UNCHANGED faults ELSE faults < MaxFaults /\ faults' = faults + 1
    /\ IF pc = "scan" /\ "home" \in found THEN Authenticate(sta)
       ELSE pc' = "idle" /\ rc' = (IF pc = "scan" THEN "NO_DEVICE" ELSE "none") /\ sta' = [sta EXCEPT !.state = "IDLE"] /\ UNCHANGED up
    /\ UNCHANGED <<Still, found, down, out, got, connects>>

\* The receiving loops of wifi_scan and wifi_connect.
receive ==
    /\ down # <<>>
    /\ pc \in {"scan", "look"} \/ (pc = "auth" /\ sta.state = "AUTHENTICATING") \/ (pc = "assoc" /\ sta.state # "CONNECTED")
    /\ LET d == wifi_process_frame(sta, Head(down))
       IN  sta' = d.sta /\ Say(d.sent)
    /\ found' = wf_parse_beacon(sta, Head(down))
    /\ down' = Tail(down)
    /\ UNCHANGED <<Still, pc, rc, out, got, connects, faults>>

\* A deadline counts as a fault unless nothing is on its way.
Deadline == IF down = <<>> /\ up = <<>> THEN UNCHANGED faults ELSE faults < MaxFaults /\ faults' = faults + 1
Gives(r) == rc' = r /\ pc' = "idle" /\ UNCHANGED <<sta, up>>

auth_wait_ends ==
    /\ pc = "auth"
    /\ \/ /\ sta.state = "ASSOCIATING"
          /\ Say(<<wifi_build_assoc_req>>) /\ pc' = "assoc" /\ UNCHANGED <<sta, rc, faults>>
       \/ sta.state \notin {"ASSOCIATING", "AUTHENTICATING"} /\ Gives("TIMEOUT") /\ UNCHANGED faults
       \/ sta.state = "AUTHENTICATING" /\ Deadline /\ Gives("TIMEOUT")
    /\ UNCHANGED <<Still, found, down, out, got, connects>>

assoc_wait_ends ==
    /\ pc = "assoc"
    /\ \/ sta.state = "CONNECTED" /\ Gives("OK") /\ UNCHANGED faults
       \/ sta.state # "CONNECTED" /\ Deadline /\ Gives("TIMEOUT")
    /\ UNCHANGED <<Still, found, down, out, got, connects>>

wifi_disconnect ==
    /\ pc = "idle" /\ sta.state # "IDLE"
    /\ Say(<<wifi_build_deauth>>)
    /\ sta' = [sta EXCEPT !.state = "IDLE", !.ptkOn = FALSE, !.gtkOn = FALSE, !.ptk = NoKey, !.tx_pn = 0, !.rx_pn = 0]
    /\ UNCHANGED <<Still, pc, rc, found, down, out, got, connects, faults>>

\* A connected station has its key installed, so that every frame is encrypted.
wifi_send ==
    /\ pc = "idle" /\ sta.state = "CONNECTED" /\ sta.ptkOn /\ Len(out) < MaxSend
    /\ sta' = [sta EXCEPT !.tx_pn = wf_inc_pn(@)]
    /\ out' = Append(out, ccmp_encrypt_frame(sta.ptk, wf_inc_pn(sta.tx_pn)))
    /\ UNCHANGED <<Still, pc, rc, found, down, up, got, connects, faults>>

\* wifi_recv: a data frame is handed over if it decrypts and its number is new;
\* management and EAPOL frames go to the state machine.
Newer(s, f) == wf_cmp_pn(f.n, s.rx_pn) > 0
Accepts(s, f) == s.ptkOn /\ ccmp_decrypts([key |-> f.key, aad |-> TRUE], s.ptk) /\ Newer(s, f)
wifi_recv ==
    /\ pc = "idle" /\ down # <<>>
    /\ LET f == Head(down)
           d == wifi_process_frame(sta, f)
       IN  IF f.kind = "data"
           THEN /\ sta' = IF Accepts(sta, f) THEN [sta EXCEPT !.rx_pn = f.n] ELSE sta
                /\ got' = IF Accepts(sta, f) THEN Append(got, <<f.key, f.n>>) ELSE got
                /\ UNCHANGED up
           ELSE sta' = d.sta /\ Say(d.sent) /\ UNCHANGED got
    /\ down' = Tail(down)
    /\ UNCHANGED <<Still, pc, rc, found, out, connects, faults>>

-----------------------------------------------------------------------------
(* The access point and the air. *)

Rest == <<sta, pc, rc, found, out, got, right, near, connects>>
Tell(fs) == down' = down \o fs
Key1(a) == [Frame("m1", a.anonce, NoKey) EXCEPT !.ctr = a.ctr]
Key3(a) == [Frame("m3", 0, a.key) EXCEPT !.ctr = a.ctr]
Spent == faults < MaxFaults /\ faults' = faults + 1
Room == Len(down) < Air /\ Len(up) < Air

ap_beacon(n) ==
    /\ sta.state = "SCANNING" /\ down = <<>> /\ n \notin found
    /\ n = "home" => near
    /\ Tell(<<[Frame("beacon", 0, NoKey) EXCEPT !.ssid = n]>>)
    /\ UNCHANGED <<Rest, ap, up, faults>>

\* A message of the station answers one of the current step, and has its MIC right.
Proves(f, kind) ==
    /\ f.kind = kind /\ f.ctr \in ap.since .. ap.ctr
    /\ \/ kind = "m2" /\ ap.st = "m1" /\ f.key = <<TRUE, ap.anonce, f.n>>
       \/ kind = "m4" /\ ap.st = "m3" /\ f.key = ap.key

ap_answer ==
    /\ up # <<>> /\ up' = Tail(up)
    /\ LET f == Head(up) IN
       \/ f.kind = "auth" /\ ap' = [ap EXCEPT !.st = "auth"] /\ Tell(<<Frame("auth", 2, NoKey)>>) /\ UNCHANGED faults
       \/ f.kind \in {"auth", "assoc"} /\ Spent /\ ap' = [ap EXCEPT !.st = "idle"]
          /\ Tell(<<[Frame(f.kind, 2, NoKey) EXCEPT !.ok = FALSE]>>)
       \/ /\ f.kind = "assoc" /\ ap.st # "idle"
          /\ ap' = [ap EXCEPT !.st = "m1", !.anonce = @ + 1, !.ctr = @ + 1, !.since = ap.ctr + 1]
          /\ Tell(<<Frame("assoc", 0, NoKey), Key1(ap')>>) /\ UNCHANGED faults
       \/ /\ Proves(f, "m2")
          /\ ap' = [ap EXCEPT !.st = "m3", !.key = f.key, !.ctr = @ + 1, !.since = ap.ctr + 1, !.pn = 0]
          /\ Tell(<<Key3(ap')>>) /\ UNCHANGED faults
       \/ /\ Proves(f, "m4")
          /\ ap' = [ap EXCEPT !.st = "done"] /\ UNCHANGED <<down, faults>>
       \/ f.kind = "deauth" /\ ap' = [ap EXCEPT !.st = "idle"] /\ UNCHANGED <<down, faults>>
       \/ /\ \/ f.kind = "assoc" /\ ap.st = "idle"
             \/ f.kind \in {"m2", "m4"} /\ ~Proves(f, f.kind)
          /\ UNCHANGED <<ap, down, faults>>
    /\ UNCHANGED Rest

ap_retry ==
    /\ ap.st \in {"m1", "m3"} /\ Spent /\ Room
    /\ ap' = [ap EXCEPT !.ctr = @ + 1]
    /\ Tell(<<IF ap.st = "m1" THEN Key1(ap') ELSE Key3(ap')>>)
    /\ UNCHANGED <<Rest, up>>

ap_restart == Spent /\ Room /\ ap' = [ap EXCEPT !.st = "idle"] /\ Tell(<<Frame("deauth", 0, NoKey)>>) /\ UNCHANGED <<Rest, up>>

ap_data ==
    /\ ap.st = "done" /\ ap.pn < MaxSend /\ Room
    /\ ap' = [ap EXCEPT !.pn = @ + 1]
    /\ Tell(<<Frame("data", ap'.pn, ap.key)>>)
    /\ UNCHANGED <<Rest, up, faults>>

lose ==
    /\ Spent
    /\ \/ down # <<>> /\ down' = Tail(down) /\ UNCHANGED up
       \/ up # <<>> /\ up' = Tail(up) /\ UNCHANGED down
    /\ UNCHANGED <<Rest, ap>>

repeat ==
    /\ Spent /\ Room
    /\ \/ down # <<>> /\ Tell(<<Head(down)>>) /\ UNCHANGED up
       \/ up # <<>> /\ Say(<<Head(up)>>) /\ UNCHANGED down
    /\ UNCHANGED <<Rest, ap>>

-----------------------------------------------------------------------------
Init ==
    /\ sta = [state |-> "IDLE", pmk |-> FALSE, anonce |-> 0, snonce |-> 0, ptk |-> NoKey, replay |-> 0,
              ptkOn |-> FALSE, gtkOn |-> FALSE, tx_pn |-> 0, rx_pn |-> 0]
    /\ pc = "idle" /\ rc = "none" /\ found = {}
    /\ ap = [st |-> "idle", anonce |-> 0, key |-> NoKey, ctr |-> 0, since |-> 1, pn |-> 0]
    /\ down = <<>> /\ up = <<>> /\ out = <<>> /\ got = <<>>
    /\ right \in BOOLEAN /\ near \in BOOLEAN
    /\ connects = 0 /\ faults = 0

Station == wifi_scan \/ wifi_connect \/ scan_done \/ receive \/ auth_wait_ends \/ assoc_wait_ends \/ wifi_disconnect \/ wifi_send \/ wifi_recv
AccessPoint == (\E n \in Networks : ap_beacon(n)) \/ ap_answer \/ ap_retry \/ ap_restart \/ ap_data
Next == Station \/ AccessPoint \/ lose \/ repeat

\* The receiving loops go on until their deadline.
Fairness == WF_vars(scan_done) /\ WF_vars(receive) /\ WF_vars(auth_wait_ends) /\ WF_vars(assoc_wait_ends)
            /\ WF_vars(ap_answer) /\ WF_vars(ap_beacon("home"))
Spec == Init /\ [][Next]_vars /\ Fairness

-----------------------------------------------------------------------------
\* No packet number is used twice with one key, through repeated handshake
\* messages, restarts of the access point and new connections: CCMP is broken by
\* a single reuse.
PacketNumbersFresh == IsInjective(out)

\* A station that considers itself connected, and an access point that has finished
\* the handshake with it, have the same key, and the passphrase was the right one;
\* and what is handed over is what was sent, once.
KeysAgree ==
    /\ sta.state = "CONNECTED" => sta.ptkOn /\ right
    /\ sta.state = "CONNECTED" /\ ap.st = "done" /\ "auth" \notin {f.kind : f \in ToSet(up)} => sta.ptk = ap.key
    /\ IsInjective(got)

\* When nothing goes wrong, wifi_connect connects to a network that is in range and
\* whose passphrase is right, and to no other.
ConnectsWhenQuiet == faults = 0 /\ pc = "idle" /\ rc # "none" => (rc = "OK") = (right /\ near)

\* wifi_connect returns.
ConnectReturns == pc # "idle" ~> pc = "idle"

\* "CCMP encrypt/decrypt for 802.11 data frames" (aes_ccmp.h:8): a frame that
\* ccmp_encrypt_frame makes is one that ccmp_decrypt_frame accepts.
SentIsReadable == \A f \in ToSet(out) : ccmp_decrypts(f, f.key)
=============================================================================
