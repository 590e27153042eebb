----------------------------- MODULE MCDevices ------------------------------
(***************************************************************************)
(* The network and input devices, one of them in each behaviour: the       *)
(* Ethernet drivers E1000, RTL8169 and VirtioNet, which implement EthCard; *)
(* the USB host controller with keyboard and network adapters; the         *)
(* keyboard stream; and a Wi-Fi station.                                   *)
(***************************************************************************)
EXTENDS Naturals, Sequences

CONSTANTS Ring, Wrap, MaxSend, MaxArrive,
          NPorts, RingSize, EventRingSize, AsixWrites, Reclaims, MaxUsbFaults, MaxIO, Follow,
          Letters, Others, Extended, BufSize, UsbKeys, MaxStrokes,
          Networks, MaxScan, MaxAirFaults, MaxConnects, MaxData, Air

VARIABLES device,
          at, txd, rxd, txbuf, rxbuf, reg, tail, sent, wire, arrived, seen, got,
          dev, rings, hw, events, evt, post, slots, given, stage, i, todo,
          op, brk, buf, rc, data, done, kbd, nic, ready, io, faults, amiss,
          ctl, enabled, source, held, lock, line, ps2, ring, g_buf, typed, chars, strokes, dropped, rolled,
          sta, pc, result, found, ap, down, up, out, heard, right, near, connects, mishaps

\* What may be attached to the two USB ports.
Attached == {<<"ecm", "keyboard">>, <<"asix", "none">>, <<"mouse", "keyboard">>}

E1 == INSTANCE E1000
RT == INSTANCE RTL8169
VN == INSTANCE VirtioNet
Card == INSTANCE EthCard
U == INSTANCE XHCI WITH MaxFaults <- MaxUsbFaults
K == INSTANCE Keyboard WITH wire <- line, got <- chars
W == INSTANCE WiFi WITH MaxFaults <- MaxAirFaults, MaxSend <- MaxData, rc <- result, got <- heard, faults <- mishaps

eth == <<at, txd, rxd, txbuf, rxbuf, reg, tail, sent, wire, arrived, seen, got>>
usb == <<dev, rings, hw, events, evt, post, slots, given, stage, i, todo,
         op, brk, buf, rc, data, done, kbd, nic, ready, io, faults, amiss>>
keys == <<ctl, enabled, source, held, lock, line, ps2, ring, g_buf, typed, chars, strokes, dropped, rolled>>
wifi == <<sta, pc, result, found, ap, down, up, out, heard, right, near, connects, mishaps>>
all == <<device, eth, usb, keys, wifi>>

Ethernet == {"e1000", "rtl8169", "virtio_net"}
Is(d) ==
    /\ device = d /\ UNCHANGED device
    /\ d \notin Ethernet => UNCHANGED eth
    /\ d # "usb" => UNCHANGED usb
    /\ d # "keyboard" => UNCHANGED keys
    /\ d # "wifi" => UNCHANGED wifi

MCInit ==
    /\ device \in Ethernet \cup {"usb", "keyboard", "wifi"}
    /\ CASE device = "rtl8169" -> RT!Init [] device = "virtio_net" -> VN!Init [] OTHER -> E1!Init
    /\ U!Init /\ (device # "usb" => dev = <<"asix", "none">>)
    /\ K!Init /\ (device # "keyboard" => ctl = "absent")
    /\ W!Init /\ (device # "wifi" => right /\ near)

\* The bound on frames, strokes or calls is reached.
EthDone == device \in Ethernet /\ at = "idle" /\ sent = MaxSend
InputDone == device = "keyboard" /\ strokes = MaxStrokes
WiFiDone == device = "wifi" /\ pc = "idle" /\ connects = MaxConnects

MCNext ==
    \/ Is("e1000") /\ E1!Next
    \/ Is("rtl8169") /\ RT!Next
    \/ Is("virtio_net") /\ VN!Next
    \/ Is("usb") /\ U!Next
    \/ Is("keyboard") /\ K!Next
    \/ Is("wifi") /\ W!Next
    \/ (EthDone \/ InputDone \/ WiFiDone) /\ UNCHANGED all

\* Calls go on once they have begun, receive calls come again and again, and cards,
\* controllers and access points answer.
Working ==
    \/ Is("e1000") /\ E1!Driver
    \/ Is("rtl8169") /\ RT!Driver
    \/ Is("virtio_net") /\ VN!Driver
    \/ Is("keyboard") /\ (K!keyboard_init \/ K!keyboard_poll \/ K!keyboard_getchar)
    \/ Is("wifi") /\ (W!scan_done \/ W!auth_wait_ends \/ W!assoc_wait_ends \/ W!receive \/ W!ap_answer \/ W!ap_beacon("home"))
Receiving ==
    \/ Is("e1000") /\ E1!e1000_recv
    \/ Is("rtl8169") /\ RT!rtl8169_recv
    \/ Is("virtio_net") /\ VN!virtio_net_recv
Sending ==
    \/ Is("e1000") /\ E1!card_tx
    \/ Is("rtl8169") /\ RT!card_tx
    \/ Is("virtio_net") /\ VN!device_tx

MCSpec == MCInit /\ [][MCNext]_all /\ WF_all(Working) /\ SF_all(Receiving) /\ WF_all(Sending)

-----------------------------------------------------------------------------
\* Whatever the interleaving of driver and card, and however often the rings
\* wrap, frames cross in both directions once each, unaltered and in order:
\* no descriptor is taken over before the other side has given it back.
ImplementsCard == Card!Spec

\* HAL_OK from a call of xhci.c means that the controller has done what this very
\* call asked for, and that the data handed over is what the device sent, through
\* all wraps of the rings, as long as no earlier call was given up.
UsbCallsDone == U!UsbCallsDone

\* The characters that keyboard_getchar returns are those typed, in order and as
\* meant, through both rings and whatever moment a poll comes.
TypedIsGot == K!TypedIsGot

\* No packet number is used twice with one pairwise key, through repeated handshake
\* messages, restarts of the access point and new connections.
PacketNumbersFresh == W!PacketNumbersFresh

\* A connected station and an access point that has finished the handshake have the
\* same key, made from the right passphrase, and what wifi_recv hands over is what
\* was sent, once.
KeysAgree == W!KeysAgree

\* When nothing fails, usb_hid_init and usb_net_init find the keyboard and the
\* network adapter, whatever ports they are on, and wifi_connect connects to a
\* network that is in range and whose passphrase is right, and to no other.
QuietSucceeds == (device = "usb" => U!DevicesFound) /\ W!ConnectsWhenQuiet

\* An E1000 whose ring the driver has filled completely stands still, because TDT
\* then equals TDH, which tells the card that there is nothing to send; so does a
\* virtio device that has died.
Stalled == (device = "virtio_net" /\ ~reg.alive) \/ (device = "e1000" /\ sent - Len(wire) >= Ring)

\* Nothing waits forever.  Every frame that a send call has handed over goes out,
\* except where the card stands still, and every frame that the card has stored is
\* dealt with; everything typed is read; and wifi_connect returns.
DevicesServe ==
    LET waits ==
          \/ device \in Ethernet /\ ((sent > Len(wire) /\ ~Stalled) \/ Len(arrived) > seen)
          \/ device = "keyboard" /\ (line # <<>> \/ ring # <<>> \/ g_buf # <<>>)
          \/ device = "wifi" /\ pc # "idle"
    IN  waits ~> ~waits

\* "Poll for an interrupt transfer completion.  Returns HAL_OK if data available"
\* (drivers/input/xhci.h:355): what xhci_poll_interrupt hands over with HAL_OK is a
\* report of the device.
PollDelivers == U!PollDelivers
=============================================================================
