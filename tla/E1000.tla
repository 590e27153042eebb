------------------------------- MODULE E1000 --------------------------------
(***************************************************************************)
(* drivers/network/e1000.c and the card it drives.  The card owns the      *)
(* transmit descriptors from TDH up to TDT and the receive descriptors     *)
(* from RDH up to RDT; equal registers mean that it owns none, which is    *)
(* how setup_tx tells it that there is nothing to send.                    *)
(***************************************************************************)
EXTENDS Naturals, Sequences

CONSTANTS
    Ring,           \* E1000_NUM_TX_DESC and E1000_NUM_RX_DESC
    MaxSend,        \* frames sent, bounds the run
    MaxArrive       \* frames that come in, bounds the run

VARIABLES
    at,             \* where the driver is: "off", "idle", or inside a call
    txd, rxd,       \* the status byte of each descriptor
    txbuf, rxbuf,   \* the frame each DMA buffer holds, 0 for none
    reg,            \* the registers TDH, TDT, RDH, RDT
    tail,           \* tx_tail and rx_tail
    sent, wire, arrived, seen, got      \* see EthCard

mem == <<txd, rxd, txbuf, rxbuf, reg, tail>>
count == <<sent, wire, arrived, seen, got>>
vars == <<at, mem, count>>

Card == INSTANCE EthCard

Slots == 0 .. Ring - 1
After(i) == (i + 1) % Ring

Init ==
    /\ at = "off"
    /\ txd = <<>> /\ rxd = <<>> /\ txbuf = <<>> /\ rxbuf = <<>> /\ reg = <<>> /\ tail = <<>>
    /\ Card!Init

e1000_setup_tx ==
    /\ txd' = [i \in Slots |-> [dd |-> TRUE]]
    /\ txbuf' = [i \in Slots |-> 0]

\* The card may fill all receive descriptors but one.
e1000_setup_rx ==
    /\ rxd' = [i \in Slots |-> [dd |-> FALSE, eop |-> FALSE]]
    /\ rxbuf' = [i \in Slots |-> 0]

e1000_init ==
    /\ at = "off"
    /\ e1000_setup_tx /\ e1000_setup_rx
    /\ reg' = [TDH |-> 0, TDT |-> 0, RDH |-> 0, RDT |-> Ring - 1]
    /\ tail' = [tx |-> 0, rx |-> 0]
    /\ at' = "idle"
    /\ UNCHANGED count

-----------------------------------------------------------------------------
(* e1000_send *)

e1000_send ==
    /\ at = "idle" /\ sent < MaxSend
    /\ at' = "tx_wait"
    /\ UNCHANGED <<mem, count>>

Available_Unchecked == TRUE
Available == txd[tail.tx].dd

tx_timeout ==
    /\ at = "tx_wait" /\ ~Available
    /\ at' = "idle"
    /\ UNCHANGED <<mem, count>>

tx_fill ==
    /\ at = "tx_wait" /\ Available
    /\ txbuf' = [txbuf EXCEPT ![tail.tx] = sent + 1]
    /\ txd' = [txd EXCEPT ![tail.tx].dd = FALSE]
    /\ tail' = [tail EXCEPT !.tx = After(@)]
    /\ at' = "tx_bell"
    /\ UNCHANGED <<rxd, rxbuf, reg, count>>

tx_bell ==
    /\ at = "tx_bell"
    /\ reg' = [reg EXCEPT !.TDT = tail.tx]
    /\ sent' = sent + 1
    /\ at' = "idle"
    /\ UNCHANGED <<txd, rxd, txbuf, rxbuf, tail, wire, arrived, seen, got>>

\* The card sends the next frame and writes its descriptor back.
card_tx ==
    /\ at # "off" /\ reg.TDH # reg.TDT
    /\ wire' = Append(wire, txbuf[reg.TDH])
    /\ txd' = [txd EXCEPT ![reg.TDH].dd = TRUE]
    /\ reg' = [reg EXCEPT !.TDH = After(@)]
    /\ UNCHANGED <<at, rxd, txbuf, rxbuf, tail, sent, arrived, seen, got>>

-----------------------------------------------------------------------------
(* e1000_recv *)

\* A frame is delivered when it ends in the descriptor it begins in.
Delivers(d) == d.eop

e1000_recv ==
    /\ at = "idle" /\ rxd[tail.rx].dd
    /\ seen' = seen + 1
    /\ got' = IF Delivers(rxd[tail.rx]) THEN Append(got, rxbuf[tail.rx]) ELSE got
    /\ rxd' = [rxd EXCEPT ![tail.rx].dd = FALSE]
    /\ at' = "rx_bell"
    /\ UNCHANGED <<txd, txbuf, rxbuf, reg, tail, sent, wire, arrived>>

\* RDT becomes the slot just emptied: the card stops before it.
NewRDT == tail.rx

rx_bell ==
    /\ at = "rx_bell"
    /\ reg' = [reg EXCEPT !.RDT = NewRDT]
    /\ tail' = [tail EXCEPT !.rx = After(@)]
    /\ at' = "idle"
    /\ UNCHANGED <<txd, rxd, txbuf, rxbuf, count>>

\* A frame comes in; the card drops it when it owns no descriptor.
card_rx ==
    /\ at # "off" /\ reg.RDH # reg.RDT /\ Len(arrived) < MaxArrive
    /\ \E ok \in BOOLEAN :
          /\ arrived' = Append(arrived, ok)
          /\ rxd' = [rxd EXCEPT ![reg.RDH] = [dd |-> TRUE, eop |-> ok]]
    /\ rxbuf' = [rxbuf EXCEPT ![reg.RDH] = Len(arrived) + 1]
    /\ reg' = [reg EXCEPT !.RDH = After(@)]
    /\ UNCHANGED <<at, txd, txbuf, tail, sent, wire, seen, got>>

-----------------------------------------------------------------------------
Driver == tx_timeout \/ tx_fill \/ tx_bell \/ rx_bell
Next == e1000_init \/ e1000_send \/ e1000_recv \/ Driver \/ card_tx \/ card_rx

\* A call that has begun goes on, the kernel polls again and again, and the card
\* sends what it owns.
Fairness == WF_vars(Driver) /\ SF_vars(e1000_recv) /\ WF_vars(card_tx)
Spec == Init /\ [][Next]_vars /\ Fairness

ImplementsCard == Card!Spec

\* Every frame for which e1000_send has written the doorbell goes out.
FramesGoOut == \A n \in 1 .. MaxSend : sent >= n ~> Len(wire) >= n

FramesDelivered == \A n \in 1 .. MaxArrive : Len(arrived) >= n ~> seen >= n
=============================================================================
