----------------------------- MODULE VirtioBlk ------------------------------
(***************************************************************************)
(* The virtio block driver, drivers/storage/virtio_blk.c, with the device  *)
(* it drives.  vblk_do_io builds a chain of three descriptors (header,     *)
(* data, status byte), puts it on the available ring and polls the used    *)
(* ring until a deadline.  The device works on its own: it may fetch a     *)
(* chain before the driver gives up on it and complete it afterwards.      *)
(*                                                                         *)
(* The header and the status byte of a request live in pages taken from    *)
(* the DMA region for that request (module DMA).  A page is modelled by    *)
(* its first byte, which is the low byte of the request type in a header   *)
(* and the status in a status page, and by the sector number.  The data    *)
(* buffer of a request is named by the request's number.                   *)
(***************************************************************************)
EXTENDS DMA, FiniteSets, Sequences, SequencesExt

CONSTANTS
    QSize,          \* descriptors of the queue
    Wrap,           \* ring indices count modulo Wrap (2^16 in the code)
    Sectors,        \* sectors of the disk
    MaxRequests,    \* bound: calls of vblk_do_io
    MaxTimeouts,    \* bound: deadlines that pass before the device answers
    MaxFaults       \* bound: requests the device fails

ASSUME VirtioAssumption ==
    /\ QSize \in Nat \ {0} /\ Wrap \in Nat \ {0} /\ Wrap % QSize = 0
    /\ MaxRequests \in Nat /\ MaxTimeouts \in Nat /\ MaxFaults \in Nat

Descs == 0 .. QSize - 1
T_IN == 0
T_OUT == 1
S_OK == 0
S_IOERR == 1
Sentinel == 255

VARIABLES
    desc,           \* vq->desc: addr, flags and next of each descriptor
    free_head, last_used_idx,
    readonly,       \* VIRTIO_BLK_F_RO, read at start
    avail,          \* the available ring and its index
    mem,            \* first byte and sector of each DMA page
    call,           \* the call of vblk_do_io in progress, or the last one
    timeouts,       \* deadlines that have passed
    fetched,        \* the device: chains read from the available ring
    inflight,       \* the device: the chain it is working on
    used_idx,       \* the device: vq->used->idx
    broken,         \* the device: stopped on a malformed chain
    faults,
    done            \* history: requests whose data the device has transferred

drvVars == <<desc, free_head, last_used_idx, readonly, avail, call, timeouts>>
devVars == <<fetched, inflight, used_idx, broken, faults, done>>
vars == <<dmaVars, drvVars, mem, devVars>>

HeaderBytes == 16
StatusBytes == 1

-----------------------------------------------------------------------------
(* The free list. *)

\* vblk_alloc_desc three times: the indices taken, and the list head after.
Nxt(d) == desc[d].next
Chain3 == <<free_head, Nxt(free_head), Nxt(Nxt(free_head))>>
AfterChain3 == Nxt(Nxt(Nxt(free_head)))

\* vblk_free_desc_chain: follow the F_NEXT flags from the head, pushing each
\* descriptor on the free list.
Pushed(st, d) ==
    [desc |-> [st.desc EXCEPT ![d].next = st.head, ![d].more = TRUE],
     head |-> d]
ChainFrom_HeadOnly(head) == <<head>>
ChainFrom(head) ==
    IF ~desc[head].more THEN <<head>>
    ELSE IF ~desc[Nxt(head)].more THEN <<head, Nxt(head)>>
    ELSE <<head, Nxt(head), Nxt(Nxt(head))>>
FreeChain(head) ==
    FoldLeft(Pushed, [desc |-> desc, head |-> free_head], ChainFrom(head))

-----------------------------------------------------------------------------
(* vblk_do_io. *)

Idle == [pc |-> "idle", id |-> 0, write |-> FALSE, sector |-> CHOOSE s \in Sectors : TRUE,
         d |-> <<0, 0, 0>>, hdr |-> 0, status |-> 0, rc |-> "OK"]
Returned(c, rc) == [c EXCEPT !.pc = "idle", !.rc = rc]

\* The descriptors and the two pages: taken, or the early returns.  An early
\* return gives back the header page but not the descriptors.  (HAL_BUSY needs
\* a free_head beyond the queue, which vblk_setup_vq never puts in the list.)
Started(write, sector) ==
    [Idle EXCEPT !.id = call.id + 1, !.write = write, !.sector = sector, !.d = Chain3,
                 !.hdr = dma_next, !.status = dma_next + 1, !.pc = "submit"]

do_io_readonly(sector) ==
    /\ call.pc = "idle" /\ call.id < MaxRequests /\ readonly
    /\ call' = Returned([Idle EXCEPT !.id = call.id + 1, !.write = TRUE, !.sector = sector], "NOT_SUPPORTED")
    /\ UNCHANGED <<desc, free_head, last_used_idx, readonly, avail, timeouts, mem, dmaVars, devVars>>

do_io_start(write, sector) ==
    /\ call.pc = "idle" /\ call.id < MaxRequests /\ ~(write /\ readonly)
    /\ free_head' = AfterChain3
    /\ IF dma_next + PagesFor(HeaderBytes) + PagesFor(StatusBytes) <= RegionPages
       THEN /\ call' = Started(write, sector)
            /\ dma_next' = dma_next + 2
            /\ live' = live \cup {[addr |-> dma_next, size |-> 1], [addr |-> dma_next + 1, size |-> 1]}
       ELSE /\ call' = Returned(Started(write, sector), "NO_MEMORY")
            /\ dma_next' = IF Fits(HeaderBytes) /\ ~Reclaims THEN dma_next + 1 ELSE dma_next
            /\ UNCHANGED live
    /\ UNCHANGED <<desc, last_used_idx, readonly, avail, timeouts, mem, devVars>>

\* Header, sentinel, the three descriptors, the available ring, the doorbell.
Filled(c) ==
    [desc EXCEPT ![c.d[1]] = [addr |-> c.hdr, more |-> TRUE, devWrites |-> FALSE, next |-> c.d[2]],
                 ![c.d[2]] = [addr |-> c.id, more |-> TRUE, devWrites |-> ~c.write, next |-> c.d[3]],
                 ![c.d[3]] = [addr |-> c.status, more |-> FALSE, devWrites |-> TRUE, next |-> 0]]

AvailSlot(i) == i % QSize

StatusPreset_Zero == S_OK
StatusPreset == Sentinel

do_io_submit ==
    /\ call.pc = "submit"
    /\ mem' = [mem EXCEPT ![call.hdr] = [byte |-> IF call.write THEN T_OUT ELSE T_IN, sector |-> call.sector],
                          ![call.status].byte = StatusPreset]
    /\ desc' = Filled(call)
    /\ avail' = [ring |-> [avail.ring EXCEPT ![AvailSlot(avail.idx)] = call.d[1]],
                 idx |-> (avail.idx + 1) % Wrap]
    /\ call' = [call EXCEPT !.pc = "poll"]
    /\ UNCHANGED <<free_head, last_used_idx, readonly, timeouts, dmaVars, devVars>>

\* The polling loop leaves on a used entry, or when the deadline has passed.
NewUsed_Greater == used_idx > last_used_idx
NewUsed == used_idx # last_used_idx

LastUsedAfter == (last_used_idx + 1) % Wrap

do_io_poll ==
    /\ call.pc = "poll" /\ NewUsed
    /\ last_used_idx' = LastUsedAfter
    /\ call' = [call EXCEPT !.pc = "check"]
    /\ UNCHANGED <<desc, free_head, readonly, avail, timeouts, mem, dmaVars, devVars>>

\* Another turn of the loop.
do_io_wait == call.pc = "poll" /\ ~NewUsed /\ UNCHANGED vars

do_io_deadline ==
    /\ call.pc = "poll" /\ ~NewUsed /\ (timeouts < MaxTimeouts \/ broken)
    /\ timeouts' = IF broken THEN timeouts ELSE timeouts + 1
    /\ call' = [call EXCEPT !.pc = "check"]
    /\ UNCHANGED <<desc, free_head, last_used_idx, readonly, avail, mem, dmaVars, devVars>>

\* The timeout test, the status byte, and the release of what the call holds:
\* the header page first, then the status page.
TimedOut == used_idx = (last_used_idx - 1) % Wrap
Outcome == CASE TimedOut -> "TIMEOUT"
             [] ~TimedOut /\ mem[call.status].byte = S_OK -> "OK"
             [] OTHER -> "ERROR"

do_io_finish ==
    /\ call.pc = "check"
    /\ call' = Returned(call, Outcome)
    /\ desc' = FreeChain(call.d[1]).desc
    /\ free_head' = FreeChain(call.d[1]).head
    /\ live' = live \ {[addr |-> call.hdr, size |-> 1], [addr |-> call.status, size |-> 1]}
    /\ dma_next' = AfterFree([addr |-> call.status, size |-> 1],
                             AfterFree([addr |-> call.hdr, size |-> 1], dma_next))
    /\ UNCHANGED <<last_used_idx, readonly, avail, timeouts, mem, devVars>>

-----------------------------------------------------------------------------
(* The device. *)

\* A chain the device accepts: header, data, and a last byte it may write.
WellFormed(h) ==
    /\ desc[h].more /\ ~desc[h].devWrites
    /\ desc[Nxt(h)].more
    /\ ~desc[Nxt(Nxt(h))].more /\ desc[Nxt(Nxt(h))].devWrites

NextChain == avail.ring[fetched % QSize]
Nothing == [busy |-> FALSE, type |-> T_IN, sector |-> Idle.sector, buf |-> 0, bufWritable |-> FALSE, status |-> 0]

DeviceFetch ==
    /\ ~broken /\ ~inflight.busy /\ fetched # avail.idx
    /\ fetched' = (fetched + 1) % Wrap
    /\ IF WellFormed(NextChain)
       THEN /\ inflight' = [busy |-> TRUE,
                            type |-> mem[desc[NextChain].addr].byte,
                            sector |-> mem[desc[NextChain].addr].sector,
                            buf |-> desc[Nxt(NextChain)].addr,
                            bufWritable |-> desc[Nxt(NextChain)].devWrites,
                            status |-> desc[Nxt(Nxt(NextChain))].addr]
            /\ UNCHANGED broken
       ELSE broken' = TRUE /\ UNCHANGED inflight
    /\ UNCHANGED <<used_idx, faults, done, mem, drvVars, dmaVars>>

\* A read fills a writable buffer, a write takes from a readable one; a request
\* whose buffer goes the other way transfers nothing.
Transferred ==
    IF (inflight.type = T_IN) <=> inflight.bufWritable THEN {inflight.buf} ELSE {}

DeviceComplete ==
    /\ inflight.busy
    /\ inflight' = Nothing
    /\ used_idx' = (used_idx + 1) % Wrap
    /\ \/ /\ mem' = [mem EXCEPT ![inflight.status].byte = S_OK]
          /\ done' = done \cup Transferred
          /\ UNCHANGED faults
       \/ /\ faults < MaxFaults /\ faults' = faults + 1
          /\ mem' = [mem EXCEPT ![inflight.status].byte = S_IOERR]
          /\ UNCHANGED done
    /\ UNCHANGED <<fetched, broken, drvVars, dmaVars>>

-----------------------------------------------------------------------------
\* vblk_setup_vq.
Init ==
    /\ DMAInit
    /\ desc = [d \in Descs |-> [addr |-> 0, more |-> d # QSize - 1, devWrites |-> FALSE,
                                next |-> (d + 1) % QSize]]
    /\ free_head = 0 /\ last_used_idx = 0 /\ readonly \in BOOLEAN
    /\ avail = [ring |-> [d \in Descs |-> 0], idx |-> 0]
    /\ mem = [p \in 0 .. RegionPages - 1 |-> [byte |-> 0, sector |-> Idle.sector]]
    /\ call = Idle /\ timeouts = 0
    /\ fetched = 0 /\ inflight = Nothing /\ used_idx = 0 /\ broken = FALSE
    /\ faults = 0 /\ done = {}

Finished == call.pc = "idle" /\ call.id = MaxRequests /\ UNCHANGED vars

DriverStep == do_io_submit \/ do_io_poll \/ do_io_deadline \/ do_io_finish
DeviceStep == DeviceFetch \/ DeviceComplete
Next ==
    \/ \E w \in BOOLEAN, s \in Sectors : do_io_start(w, s)
    \/ \E s \in Sectors : do_io_readonly(s)
    \/ DriverStep \/ do_io_wait
    \/ DeviceStep
    \/ Finished

\* The CPU runs on, and the device answers what it is given.
Spec == Init /\ [][Next]_vars /\ WF_vars(DriverStep) /\ WF_vars(DeviceStep)

-----------------------------------------------------------------------------
\* A call that returns HAL_OK has had its own data moved by the device, also
\* when earlier calls were given up and completed late.
OkMeansDone ==
    call.pc = "idle" /\ call.id > 0 /\ call.rc = "OK" => call.id \in done

\* Until a deadline has passed, the three descriptors of a call in progress are
\* different, none of them can be handed out again, and the device only ever works
\* on the buffer of that call: the buffer of a call that has returned is the
\* caller's again.
Free3 == {free_head, Nxt(free_head), Nxt(Nxt(free_head))}
DescriptorsExclusive ==
    timeouts = 0 =>
        /\ call.pc \in {"poll", "check"} => Cardinality(ToSet(call.d)) = 3 /\ ToSet(call.d) \cap Free3 = {}
        /\ inflight.busy => call.pc \in {"poll", "check"} /\ inflight.buf = call.id

\* vblk_do_io returns, whatever the device does.
CallReturns == call.pc # "idle" ~> call.pc = "idle"
=============================================================================
