------------------------------ MODULE RTL8169 -------------------------------
(***************************************************************************)
(* drivers/network/rtl8169.c and the card it drives.  Here each descriptor *)
(* says who owns it, and the last one of a ring says that it is the last   *)
(* (EOR): the driver must write both bits back whenever it uses it.        *)
(***************************************************************************)
EXTENDS Naturals, Sequences

CONSTANTS
    Ring,           \* RTL_NUM_TX_DESC and RTL_NUM_RX_DESC
    MaxSend,        \* frames sent, bounds the run
    MaxArrive       \* frames that come in, bounds the run

VARIABLES
    at,             \* where the driver is: "off", "idle", or inside a call
    txd, rxd,       \* opts1 of each descriptor
    txbuf, rxbuf,   \* the frame each DMA buffer holds, 0 for none
    reg,            \* the card: sending or not, and its place in each ring
    tail,           \* tx_tail and rx_tail
    sent, wire, arrived, seen, got      \* see EthCard

mem == <<txd, rxd, txbuf, rxbuf, reg, tail>>
count == <<sent, wire, arrived, seen, got>>
vars == <<at, mem, count>>

Card == INSTANCE EthCard

Slots == 0 .. Ring - 1
After(i) == (i + 1) % Ring
Last(i) == i = Ring - 1

\* The bits of opts1 that say how a frame ended up in a receive descriptor.
Kinds == {"whole", "damaged", "part", "runt"}

Init ==
    /\ at = "off"
    /\ txd = <<>> /\ rxd = <<>> /\ txbuf = <<>> /\ rxbuf = <<>> /\ reg = <<>> /\ tail = <<>>
    /\ Card!Init

rtl_setup_tx ==
    /\ txd' = [i \in Slots |-> [own |-> FALSE, eor |-> Last(i)]]
    /\ txbuf' = [i \in Slots |-> 0]

rtl_setup_rx ==
    /\ rxd' = [i \in Slots |-> [own |-> TRUE, eor |-> Last(i), kind |-> "whole"]]
    /\ rxbuf' = [i \in Slots |-> 0]

rtl8169_init ==
    /\ at = "off"
    /\ rtl_setup_tx /\ rtl_setup_rx
    /\ reg' = [active |-> FALSE, tx |-> 0, rx |-> 0]
    /\ tail' = [tx |-> 0, rx |-> 0]
    /\ at' = "idle"
    /\ UNCHANGED count

\* Where the card goes from slot i of ring d; without EOR it leaves the ring.
Follows(d, i) == IF d[i].eor THEN 0 ELSE i + 1

-----------------------------------------------------------------------------
(* rtl8169_send *)

rtl8169_send ==
    /\ at = "idle" /\ sent < MaxSend
    /\ at' = "tx_wait"
    /\ UNCHANGED <<mem, count>>

tx_timeout ==
    /\ at = "tx_wait" /\ txd[tail.tx].own
    /\ at' = "idle"
    /\ UNCHANGED <<mem, count>>

tx_fill ==
    /\ at = "tx_wait" /\ ~txd[tail.tx].own
    /\ txbuf' = [txbuf EXCEPT ![tail.tx] = sent + 1]
    /\ at' = "tx_own"
    /\ UNCHANGED <<txd, rxd, reg, rxbuf, tail, count>>

\* From here on the card may send the frame, doorbell or not.
Handed_NoEor(i) == [own |-> TRUE, eor |-> FALSE]
Handed(i) == [own |-> TRUE, eor |-> Last(i)]

tx_own ==
    /\ at = "tx_own"
    /\ txd' = [txd EXCEPT ![tail.tx] = Handed(tail.tx)]
    /\ tail' = [tail EXCEPT !.tx = After(@)]
    /\ sent' = sent + 1
    /\ at' = "tx_poll"
    /\ UNCHANGED <<rxd, txbuf, rxbuf, reg, wire, arrived, seen, got>>

\* The doorbell: TPPOLL.
tx_poll ==
    /\ at = "tx_poll"
    /\ reg' = [reg EXCEPT !.active = TRUE]
    /\ at' = "idle"
    /\ UNCHANGED <<txd, rxd, txbuf, rxbuf, tail, count>>

card_tx ==
    /\ at # "off" /\ reg.active /\ reg.tx \in Slots
    /\ txd[reg.tx].own
    /\ wire' = Append(wire, txbuf[reg.tx])
    /\ txd' = [txd EXCEPT ![reg.tx].own = FALSE]
    /\ reg' = [reg EXCEPT !.tx = Follows(txd, @)]
    /\ UNCHANGED <<at, rxd, txbuf, rxbuf, tail, sent, arrived, seen, got>>

\* The card stops at a descriptor it does not own, until the next doorbell.
card_stop ==
    /\ at # "off" /\ reg.active /\ reg.tx \in Slots
    /\ ~txd[reg.tx].own
    /\ reg' = [reg EXCEPT !.active = FALSE]
    /\ UNCHANGED <<at, txd, rxd, txbuf, rxbuf, tail, count>>

-----------------------------------------------------------------------------
(* rtl8169_recv *)

\* No error bit, first and last segment in one, and not shorter than a header.
Delivers(d) == d.kind = "whole"

rtl8169_recv ==
    /\ at = "idle" /\ ~rxd[tail.rx].own
    /\ seen' = seen + 1
    /\ got' = IF Delivers(rxd[tail.rx]) THEN Append(got, rxbuf[tail.rx]) ELSE got
    /\ at' = "rx_return"
    /\ UNCHANGED <<mem, sent, wire, arrived>>

Recycled(i) == [own |-> TRUE, eor |-> Last(i), kind |-> "whole"]

rx_return ==
    /\ at = "rx_return"
    /\ rxd' = [rxd EXCEPT ![tail.rx] = Recycled(tail.rx)]
    /\ tail' = [tail EXCEPT !.rx = After(@)]
    /\ at' = "idle"
    /\ UNCHANGED <<txd, txbuf, rxbuf, reg, count>>

card_rx ==
    /\ at # "off" /\ reg.rx \in Slots /\ Len(arrived) < MaxArrive
    /\ rxd[reg.rx].own
    /\ \E k \in Kinds :
          /\ arrived' = Append(arrived, k = "whole")
          /\ rxd' = [rxd EXCEPT ![reg.rx].own = FALSE, ![reg.rx].kind = k]
    /\ rxbuf' = [rxbuf EXCEPT ![reg.rx] = Len(arrived) + 1]
    /\ reg' = [reg EXCEPT !.rx = Follows(rxd, @)]
    /\ UNCHANGED <<at, txd, txbuf, tail, sent, wire, seen, got>>

-----------------------------------------------------------------------------
Driver == tx_timeout \/ tx_fill \/ tx_own \/ tx_poll \/ rx_return
Next ==
    \/ rtl8169_init \/ rtl8169_send \/ rtl8169_recv \/ Driver
    \/ card_tx \/ card_stop \/ card_rx

\* A call that has begun goes on, the kernel polls again and again, and the card
\* sends what it owns.
Fairness == WF_vars(Driver) /\ SF_vars(rtl8169_recv) /\ WF_vars(card_tx)
Spec == Init /\ [][Next]_vars /\ Fairness

ImplementsCard == Card!Spec
FramesGoOut == \A n \in 1 .. MaxSend : sent >= n ~> Len(wire) >= n
FramesDelivered == \A n \in 1 .. MaxArrive : Len(arrived) >= n ~> seen >= n
=============================================================================
