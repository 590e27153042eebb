----------------------------- MODULE VirtioNet ------------------------------
(***************************************************************************)
(* drivers/network/virtio_net.c and the device behind it: two virtqueues,  *)
(* one for receiving and one for sending.  A send takes two descriptors    *)
(* from the free list (header and frame), waits for the device, and gives  *)
(* them back whatever came of it.  Ring indices wrap at Wrap.              *)
(***************************************************************************)
EXTENDS Naturals, Sequences

CONSTANTS
    Ring,           \* the queue size the device offers
    Wrap,           \* 2^16: the ring indices are 16 bits wide; a multiple of Ring, above it
    MaxSend,        \* frames sent, bounds the run
    MaxArrive       \* frames that come in, bounds the run

VARIABLES
    at,             \* where the driver is: "off", "idle", or inside a call
    txd, rxd,       \* txq and rxq: descriptors, rings and indices
    txbuf, rxbuf,   \* txbuf: the descriptors the current send holds;
                    \* rxbuf: the frame each receive buffer holds, 0 for none
    reg,            \* the device: how far it is in each available ring
    tail,           \* last_used_idx of each queue
    sent, wire, arrived, seen, got      \* see EthCard

mem == <<txd, rxd, txbuf, rxbuf, reg, tail>>
count == <<sent, wire, arrived, seen, got>>
vars == <<at, mem, count>>

Card == INSTANCE EthCard

Slots == 0 .. Ring - 1
Inc(i) == (i + 1) % Wrap

Init ==
    /\ at = "off"
    /\ txd = <<>> /\ rxd = <<>> /\ txbuf = <<>> /\ rxbuf = <<>> /\ tail = <<>>
    /\ reg = [tx |-> 0, rx |-> 0, alive |-> TRUE]
    /\ Card!Init

\* The free list of a new queue runs through all descriptors; the last one
\* points at descriptor 0 again.
vnet_setup_queue ==
    [desc |-> [i \in Slots |-> [next |-> (i + 1) % Ring, frame |-> 0]],
     free |-> 0, avail |-> [i \in Slots |-> 0], idx |-> 0,
     used |-> [i \in Slots |-> [id |-> 0, len |-> 0]], uidx |-> 0]

\* Every receive descriptor, or as many as there was memory for, is made
\* available in order.
vnet_populate_rx(n) ==
    [vnet_setup_queue EXCEPT !.avail = [i \in Slots |-> IF i < n THEN i ELSE 0],
                             !.idx = n, !.free = n % Ring]

virtio_net_init ==
    /\ at = "off"
    /\ txd' = vnet_setup_queue
    /\ \E n \in 1 .. Ring : rxd' = vnet_populate_rx(n)
    /\ txbuf' = <<>> /\ rxbuf' = [i \in Slots |-> 0]
    /\ tail' = [tx |-> 0, rx |-> 0]
    /\ at' = "idle"
    /\ UNCHANGED <<reg, count>>

\* The device stops for good.
fail ==
    /\ at # "off" /\ reg.alive
    /\ reg' = [reg EXCEPT !.alive = FALSE]
    /\ UNCHANGED <<at, txd, rxd, txbuf, rxbuf, tail, count>>

-----------------------------------------------------------------------------
(* virtio_net_send *)

\* Queue q without the descriptor at the head of its free list, and with
\* descriptor i put back there.
vnet_alloc_desc(q) == [q EXCEPT !.free = q.desc[q.free].next]
vnet_free_desc(q, i) == [q EXCEPT !.desc[i].next = q.free, !.free = i]

virtio_net_send ==
    LET one == vnet_alloc_desc(txd)
    IN  /\ at = "idle" /\ sent < MaxSend
        /\ txbuf' = <<txd.free, one.free>>
        /\ txd' = vnet_alloc_desc(one)
        /\ at' = "tx_fill"
        /\ UNCHANGED <<rxd, rxbuf, reg, tail, count>>

\* No memory for the frame: the descriptors go back in the order they came.
tx_nomem ==
    /\ at = "tx_fill"
    /\ txd' = vnet_free_desc(vnet_free_desc(txd, txbuf[1]), txbuf[2])
    /\ txbuf' = <<>>
    /\ at' = "idle"
    /\ UNCHANGED <<rxd, rxbuf, reg, tail, count>>

tx_fill ==
    /\ at = "tx_fill"
    /\ txd' = [txd EXCEPT !.desc[txbuf[1]].next = txbuf[2],
                          !.desc[txbuf[2]] = [next |-> 0, frame |-> sent + 1],
                          !.avail[txd.idx % Ring] = txbuf[1]]
    /\ at' = "tx_publish"
    /\ UNCHANGED <<rxd, txbuf, rxbuf, reg, tail, count>>

tx_publish ==
    /\ at = "tx_publish"
    /\ txd' = [txd EXCEPT !.idx = Inc(@)]
    /\ sent' = sent + 1
    /\ at' = "tx_poll"
    /\ UNCHANGED <<rxd, txbuf, rxbuf, reg, tail, wire, arrived, seen, got>>

Completed == txd.uidx # tail.tx

tx_done ==
    /\ at = "tx_poll" /\ Completed
    /\ tail' = [tail EXCEPT !.tx = Inc(@)]
    /\ txd' = vnet_free_desc(vnet_free_desc(txd, txbuf[2]), txbuf[1])
    /\ txbuf' = <<>>
    /\ at' = "idle"
    /\ UNCHANGED <<rxd, rxbuf, reg, count>>

\* The deadline passes: the descriptors and the frame are given back all the
\* same, and the call returns HAL_OK.  A device that works answers in time.
tx_timeout ==
    /\ at = "tx_poll" /\ ~Completed /\ ~reg.alive
    /\ txd' = vnet_free_desc(vnet_free_desc(txd, txbuf[2]), txbuf[1])
    /\ txbuf' = <<>>
    /\ at' = "idle"
    /\ UNCHANGED <<rxd, rxbuf, reg, tail, count>>

\* The device follows the chain, sends the frame it finds, and says so.
device_tx ==
    /\ at # "off" /\ reg.alive /\ reg.tx # txd.idx
    /\ LET hdr == txd.avail[reg.tx % Ring]
       IN  wire' = Append(wire, txd.desc[txd.desc[hdr].next].frame)
    /\ txd' = [txd EXCEPT !.uidx = Inc(@)]
    /\ reg' = [reg EXCEPT !.tx = Inc(@)]
    /\ UNCHANGED <<at, rxd, txbuf, rxbuf, tail, sent, arrived, seen, got>>

-----------------------------------------------------------------------------
(* virtio_net_recv *)

virtio_net_recv ==
    LET u == rxd.used[tail.rx % Ring]
    IN  /\ at = "idle" /\ rxd.uidx # tail.rx
        /\ tail' = [tail EXCEPT !.rx = Inc(@)]
        /\ seen' = seen + 1
        /\ got' = IF u.len = 0 THEN got ELSE Append(got, rxbuf[u.id])
        /\ rxbuf' = [rxbuf EXCEPT ![u.id] = 0]
        /\ rxd' = [rxd EXCEPT !.avail[rxd.idx % Ring] = u.id]
        /\ at' = "rx_post"
        /\ UNCHANGED <<txd, txbuf, reg, sent, wire, arrived>>

rx_post ==
    /\ at = "rx_post"
    /\ rxd' = [rxd EXCEPT !.idx = Inc(@)]
    /\ at' = "idle"
    /\ UNCHANGED <<txd, txbuf, rxbuf, reg, tail, count>>

\* A frame comes in, with or without anything behind the virtio header.
device_rx ==
    /\ at # "off" /\ reg.alive /\ reg.rx # rxd.idx /\ Len(arrived) < MaxArrive
    /\ \E len \in 0 .. 1 :
          LET id == rxd.avail[reg.rx % Ring]
          IN  /\ arrived' = Append(arrived, len > 0)
              /\ rxbuf' = [rxbuf EXCEPT ![id] = Len(arrived) + 1]
              /\ rxd' = [rxd EXCEPT !.used[rxd.uidx % Ring] = [id |-> id, len |-> len], !.uidx = Inc(@)]
    /\ reg' = [reg EXCEPT !.rx = Inc(@)]
    /\ UNCHANGED <<at, txd, txbuf, tail, sent, wire, seen, got>>

-----------------------------------------------------------------------------
Driver == tx_fill \/ tx_publish \/ tx_done \/ tx_timeout \/ rx_post
Next ==
    \/ virtio_net_init \/ fail \/ virtio_net_send \/ tx_nomem \/ virtio_net_recv \/ Driver
    \/ device_tx \/ device_rx

\* A call that has begun goes on, the kernel polls again and again, and the
\* device sends what it is given, until it fails.
Fairness == WF_vars(Driver) /\ SF_vars(virtio_net_recv) /\ WF_vars(device_tx)
Spec == Init /\ [][Next]_vars /\ Fairness

ImplementsCard == Card!Spec
FramesGoOut == \A n \in 1 .. MaxSend : sent >= n ~> Len(wire) >= n \/ ~reg.alive
FramesDelivered == \A n \in 1 .. MaxArrive : Len(arrived) >= n ~> seen >= n
=============================================================================
