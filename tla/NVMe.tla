-------------------------------- MODULE NVMe --------------------------------
(***************************************************************************)
(* The NVMe driver, drivers/storage/nvme.c, and the controller it drives.  *)
(* A read or a write is cut into commands of at most two pages; a command  *)
(* goes into the submission ring, and the driver polls the completion ring *)
(* for an entry with the expected phase bit and the command's identifier   *)
(* until a deadline.  The controller works at its own pace and in any      *)
(* order, also on commands the driver has given up.                        *)
(*                                                                         *)
(* Addresses count blocks; a page holds PageLen of them, and no buffer     *)
(* lies at address 0.                                                      *)
(***************************************************************************)
EXTENDS Integers, Sequences, FiniteSets, FiniteSetsExt

CONSTANTS
    Requests, MaxCalls,
    Depth,          \* entries of each ring of the I/O queue pair
    CidWrap,        \* command identifiers count modulo CidWrap (2^16)
    PageLen,        \* blocks in a page
    Limits          \* max_transfer / ns1_block_size, as controllers report it

VARIABLES asked, result, moved, drv, dev

vars == <<asked, result, moved, drv, dev>>
history == <<asked, result, moved>>

Slots == 0 .. Depth - 1
Disk == INSTANCE BlockDisk

-----------------------------------------------------------------------------
(* Start-up.  A step of nvme_init that fails ends it. *)

NoCmd == [call |-> 0, write |-> FALSE, lba |-> 0, n |-> 0, prp1 |-> 0, prp2 |-> 0, cid |-> 0]

nvme_alloc_queue(d) == [d EXCEPT !.sq_tail = 0, !.cq_head = 0, !.cq_phase = 1, !.cid_counter = 0]

StartStep(here, d, v) ==
    /\ drv.at = here
    /\ \/ drv' = d /\ dev' = v
       \/ drv' = [drv EXCEPT !.at = "down"] /\ UNCHANGED dev
    /\ UNCHANGED history

\* nvme_disable_controller and nvme_enable_controller wait for CSTS.RDY.
nvme_disable_controller ==
    StartStep("disable", [drv EXCEPT !.at = "enable"], [dev EXCEPT !.ready = FALSE])
nvme_enable_controller ==
    StartStep("enable", [drv EXCEPT !.at = "identify_ctrl"], [dev EXCEPT !.ready = TRUE])

nvme_identify_controller ==
    \E m \in Limits :
        StartStep("identify_ctrl", [drv EXCEPT !.at = "identify_ns", !.max_blocks = Max({m, 1})], dev)
nvme_identify_namespace ==
    StartStep("identify_ns", [nvme_alloc_queue(drv) EXCEPT !.at = "create_cq"], dev)

nvme_create_io_cq ==
    StartStep("create_cq", [drv EXCEPT !.at = "create_sq"], [dev EXCEPT !.has_cq = TRUE])
\* The controller refuses a submission queue whose completion queue is not there.
nvme_create_io_sq ==
    StartStep("create_sq", [drv EXCEPT !.at = IF dev.has_cq THEN "idle" ELSE "down"],
              [dev EXCEPT !.has_sq = dev.has_cq])

-----------------------------------------------------------------------------
(* nvme_read and nvme_write. *)

Now == asked[Len(asked)]
Returned(rc) == result' = [result EXCEPT ![Len(result)] = rc]

\* The early returns, or the first turn of the loop.
Enter(r) ==
    /\ drv.at \in {"idle", "down"} /\ Len(asked) < MaxCalls
    /\ asked' = Append(asked, r)
    /\ result' = Append(result, CASE drv.at = "down" -> "ERROR"
                                  [] drv.at = "idle" /\ r.n = 0 -> "OK"
                                  [] OTHER -> "pending")
    /\ drv' = IF drv.at = "idle" /\ r.n > 0 THEN [drv EXCEPT !.at = "chunk", !.off = 0] ELSE drv
    /\ UNCHANGED <<moved, dev>>
nvme_read == \E r \in Requests : ~r.write /\ Enter(r)
nvme_write == \E r \in Requests : r.write /\ Enter(r)

\* The length of the next command, and its second page pointer.
Chunk == LET most == Min({Now.n - drv.off, drv.max_blocks})
         IN IF most <= 2 * PageLen THEN most ELSE 2 * PageLen
PageOf(a) == a - (a % PageLen)
Prp2(prp1, n) == IF n > PageLen THEN PageOf(prp1) + PageLen ELSE 0

Command ==
    LET prp1 == Now.buf + drv.off IN
        [call |-> Len(asked), write |-> Now.write, lba |-> Now.lba + drv.off, n |-> Chunk,
         prp1 |-> prp1, prp2 |-> Prp2(prp1, Chunk), cid |-> drv.cid_counter]

nvme_submit_cmd ==
    /\ drv.at = "chunk"
    /\ drv' = [drv EXCEPT !.at = "poll", !.cid = drv.cid_counter, !.chunk = Chunk,
                          !.cid_counter = (drv.cid_counter + 1) % CidWrap,
                          !.sq_tail = (drv.sq_tail + 1) % Depth]
    /\ dev' = [dev EXCEPT !.sq[drv.sq_tail] = Command, !.tail = (drv.sq_tail + 1) % Depth]
    /\ UNCHANGED history

\* nvme_poll_completion: an entry is new when its phase bit is the expected one.
Cqe == dev.cq[drv.cq_head]
IsMine_Any == TRUE
IsMine == Cqe.cid = drv.cid
NextHead == (drv.cq_head + 1) % Depth
Taken == [drv EXCEPT !.cq_head = NextHead,
                     !.cq_phase = IF NextHead = 0 THEN 1 - drv.cq_phase ELSE drv.cq_phase]
nvme_poll_completion ==
    /\ drv.at = "poll" /\ Cqe.phase = drv.cq_phase
    /\ dev' = [dev EXCEPT !.head = NextHead]
    /\ CASE ~IsMine -> drv' = Taken /\ UNCHANGED result
         [] IsMine /\ ~Cqe.ok -> drv' = [Taken EXCEPT !.at = "idle"] /\ Returned("ERROR")
         [] IsMine /\ Cqe.ok /\ drv.off + drv.chunk < Now.n ->
                drv' = [Taken EXCEPT !.at = "chunk", !.off = drv.off + drv.chunk] /\ UNCHANGED result
         [] OTHER -> drv' = [Taken EXCEPT !.at = "idle"] /\ Returned("OK")
    /\ UNCHANGED <<asked, moved>>

\* The deadline passes, whether or not the controller is still at work.
poll_timeout ==
    /\ drv.at = "poll"
    /\ drv' = [drv EXCEPT !.at = "idle"] /\ Returned("TIMEOUT")
    /\ UNCHANGED <<asked, moved, dev>>

nvme_shutdown ==
    /\ drv.at = "idle"
    /\ drv' = [drv EXCEPT !.at = "down"] /\ UNCHANGED <<history, dev>>

-----------------------------------------------------------------------------
(* The controller. *)

controller_fetch ==
    /\ dev.has_sq /\ dev.sqhead # dev.tail
    /\ dev' = [dev EXCEPT !.busy = @ \cup {dev.sq[dev.sqhead]}, !.sqhead = (@ + 1) % Depth]
    /\ UNCHANGED <<history, drv>>

\* Where block k of a command lies: in the page of PRP1, or in that of PRP2.
Elsewhere == -1
Addr(c, k) ==
    LET o == (c.prp1 % PageLen) + k IN
        CASE o < PageLen -> c.prp1 + k
          [] o >= PageLen /\ o < 2 * PageLen /\ c.prp2 # 0 -> c.prp2 + o - PageLen
          [] OTHER -> Elsewhere
Moves(c) == {[call |-> c.call, write |-> c.write, lba |-> c.lba + k, buf |-> Addr(c, k)] : k \in 0 .. c.n - 1}

controller_post(c, ok) ==
    /\ (dev.cqtail + 1) % Depth # dev.head
    /\ moved' = IF ok THEN moved \cup Moves(c) ELSE moved
    /\ dev' = [dev EXCEPT !.busy = @ \ {c},
                          !.cq[dev.cqtail] = [cid |-> c.cid, ok |-> ok, phase |-> dev.phase],
                          !.cqtail = (dev.cqtail + 1) % Depth,
                          !.phase = IF dev.cqtail = Depth - 1 THEN 1 - @ ELSE @]
    /\ UNCHANGED <<asked, result, drv>>

-----------------------------------------------------------------------------
Init ==
    /\ Disk!Init
    /\ drv = [at |-> "disable", max_blocks |-> 0, off |-> 0, chunk |-> 0, cid |-> 0,
              sq_tail |-> 0, cq_head |-> 0, cq_phase |-> 0, cid_counter |-> 0]
    /\ dev = [ready |-> TRUE, has_cq |-> FALSE, has_sq |-> FALSE,
              sq |-> [s \in Slots |-> NoCmd], tail |-> 0, sqhead |-> 0, busy |-> {},
              cq |-> [s \in Slots |-> [cid |-> 0, ok |-> TRUE, phase |-> 0]],
              cqtail |-> 0, head |-> 0, phase |-> 1]

nvme_init ==
    \/ nvme_disable_controller \/ nvme_enable_controller
    \/ nvme_identify_controller \/ nvme_identify_namespace
    \/ nvme_create_io_cq \/ nvme_create_io_sq

Working == nvme_submit_cmd \/ nvme_poll_completion \/ poll_timeout
Controller == controller_fetch \/ \E c \in dev.busy, ok \in BOOLEAN : controller_post(c, ok)
Next == nvme_init \/ nvme_read \/ nvme_write \/ Working \/ nvme_shutdown \/ Controller

\* The CPU runs on; the controller owes nothing.
Fairness == WF_vars(Working)
Spec == Init /\ [][Next]_vars /\ Fairness

-----------------------------------------------------------------------------
\* HAL_OK means that every block of the call has moved to or from its own place
\* in the caller's buffer, whatever commands were given up before.
ImplementsDisk == Disk!Spec

\* A call returns.
CallReturns == drv.at \in {"chunk", "poll"} ~> drv.at = "idle"
=============================================================================
