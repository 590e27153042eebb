------------------------------ MODULE EthCard -------------------------------
(***************************************************************************)
(* What an Ethernet driver and its card promise together: the frames that  *)
(* the send call took go out on the wire once each, unaltered and in the   *)
(* order of the calls, and the receive call hands over the frames that the *)
(* card took from the wire in the same way, leaving out those it refuses.  *)
(* Frames are known by their number.                                       *)
(***************************************************************************)
EXTENDS Naturals, Sequences

VARIABLES
    sent,       \* how many frames the send call has handed to the card
    wire,       \* the frames the card has put on the wire
    arrived,    \* for each frame the card took from the wire: can it be delivered
    seen,       \* how many of those the receive call has dealt with
    got         \* the frames it has delivered

vars == <<sent, wire, arrived, seen, got>>

Init == sent = 0 /\ wire = <<>> /\ arrived = <<>> /\ seen = 0 /\ got = <<>>

Send ==
    /\ sent' = sent + 1
    /\ UNCHANGED <<wire, arrived, seen, got>>

Transmit ==
    /\ Len(wire) < sent
    /\ wire' = Append(wire, Len(wire) + 1)
    /\ UNCHANGED <<sent, arrived, seen, got>>

Arrive ==
    /\ \E ok \in BOOLEAN : arrived' = Append(arrived, ok)
    /\ UNCHANGED <<sent, wire, seen, got>>

Receive ==
    /\ seen < Len(arrived)
    /\ seen' = seen + 1
    /\ got' = IF arrived[seen + 1] THEN Append(got, seen + 1) ELSE got
    /\ UNCHANGED <<sent, wire, arrived>>

Next == Send \/ Transmit \/ Arrive \/ Receive
Spec == Init /\ [][Next]_vars
=============================================================================
