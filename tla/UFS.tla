-------------------------------- MODULE UFS ---------------------------------
(***************************************************************************)
(* The UFS driver, drivers/storage/ufs.c, and the host controller.  Every  *)
(* command uses slot 0 of the transfer request list: the driver rebuilds   *)
(* its descriptor, rings the slot's doorbell bit and polls until the       *)
(* controller clears it, then reads the status the controller left in the  *)
(* descriptor and in the response.  ufs_drv_read and ufs_drv_write carry   *)
(* the data through the driver's own bounce buffer.                        *)
(*                                                                         *)
(* The bounce buffer is a function from places to what lies there: a       *)
(* sector of the disk or a place of a caller's buffer.  It holds fewer     *)
(* blocks than one READ(10) or one region table can carry, so the loops    *)
(* inside ufs_read and ufs_write turn once for each filling.               *)
(***************************************************************************)
EXTENDS Naturals, Sequences, FiniteSetsExt

CONSTANTS
    Requests, MaxCalls,
    BufBlocks,      \* UFS_MAX_DATA_BUF / block_size
    MaxLate         \* bound: commands the driver gives up that are executed later

VARIABLES asked, result, moved, drv, dev

vars == <<asked, result, moved, drv, dev>>
history == <<asked, result, moved>>

Disk == INSTANCE BlockDisk

-----------------------------------------------------------------------------
(* Start-up: the steps of ufs_init in their order. *)

StartStep(here, next) ==
    /\ drv.at = here
    /\ \/ drv' = [drv EXCEPT !.at = next]
       \/ drv' = [drv EXCEPT !.at = "down"]
    /\ UNCHANGED <<history, dev>>

\* ufs_hce_disable first, whose failure is ignored.
ufs_hce_enable == StartStep("enable", "utrl")
ufs_setup_transfer_list == StartStep("utrl", "utmrl")
ufs_setup_tm_list == StartStep("utmrl", "link")
\* DME_LINK_STARTUP, then the device-present bit, looked at once more at the end.
ufs_link_startup == StartStep("link", "nop")
ufs_send_nop_out == StartStep("nop", "fdevice")
\* fDeviceInit; a device that keeps the flag up is used all the same.
ufs_device_init == StartStep("fdevice", "desc")
ufs_read_device_desc == StartStep("desc", "ready")
\* Test Unit Ready is tried twice.
ufs_test_unit_ready ==
    /\ drv.at \in {"ready", "retry"}
    /\ \/ drv' = [drv EXCEPT !.at = "capacity"]
       \/ drv' = [drv EXCEPT !.at = IF drv.at = "ready" THEN "retry" ELSE "down"]
    /\ UNCHANGED <<history, dev>>
ufs_read_capacity == StartStep("capacity", "power")
\* Best effort: whatever comes of it, the controller is in use afterwards.
ufs_configure_power_mode ==
    /\ drv.at = "power" /\ drv' = [drv EXCEPT !.at = "idle"] /\ UNCHANGED <<history, dev>>

-----------------------------------------------------------------------------
(* ufs_drv_read and ufs_drv_write. *)

Now == asked[Len(asked)]
Returned(rc) == result' = [result EXCEPT ![Len(result)] = rc]
Idle == [drv EXCEPT !.at = "idle"]

Enter(r) ==
    /\ drv.at \in {"idle", "down"} /\ Len(asked) < MaxCalls
    /\ asked' = Append(asked, r)
    /\ result' = Append(result, CASE r.n = 0 -> "OK"
                                  [] r.n > 0 /\ drv.at = "down" -> "ERROR"
                                  [] OTHER -> "pending")
    /\ drv' = IF drv.at = "idle" /\ r.n > 0 THEN [drv EXCEPT !.at = "chunk", !.off = 0] ELSE drv
    /\ UNCHANGED <<moved, dev>>
ufs_drv_read == \E r \in Requests : ~r.write /\ Enter(r)
ufs_drv_write == \E r \in Requests : r.write /\ Enter(r)

Chunk == Min({Now.n - drv.off, BufBlocks})
Places == 0 .. BufBlocks - 1
Nothing == [of |-> "none", at |-> 0]

\* For a write the caller's data goes into the bounce buffer first.
Filled == [k \in Places |-> IF k < Chunk THEN [of |-> "caller", at |-> Now.buf + drv.off + k] ELSE dev.bounce[k]]

\* ufs_read and ufs_write: the command block.
Cdb == [call |-> Len(asked), write |-> Now.write, lba |-> Now.lba + drv.off, n |-> Chunk]

\* ufs_scsi_cmd up to the doorbell: the descriptor is cleared, its status preset.
Ocs == "invalid"
ufs_scsi_cmd ==
    /\ drv.at = "chunk"
    /\ drv' = [drv EXCEPT !.at = "poll"]
    /\ dev' = [dev EXCEPT !.utrd = Cdb, !.ocs = Ocs, !.doorbell = TRUE,
                          !.bounce = IF Now.write THEN Filled ELSE @]
    /\ UNCHANGED history

\* The bounce buffer's contents reach the caller.
Copied ==
    {[call |-> Len(asked), write |-> FALSE, lba |-> dev.bounce[k].at, buf |-> Now.buf + drv.off + k] :
        k \in {j \in 0 .. Chunk - 1 : dev.bounce[j].of = "disk"}}

Succeeded == ~dev.doorbell /\ dev.ocs = "success"

\* The polling loop leaves when the doorbell bit is clear.
poll_done ==
    /\ drv.at = "poll" /\ ~dev.doorbell
    /\ moved' = IF Succeeded /\ ~Now.write THEN moved \cup Copied ELSE moved
    /\ CASE ~Succeeded -> drv' = Idle /\ Returned("ERROR")
         [] Succeeded /\ drv.off + Chunk < Now.n ->
                drv' = [drv EXCEPT !.at = "chunk", !.off = drv.off + Chunk] /\ UNCHANGED result
         [] OTHER -> drv' = Idle /\ Returned("OK")
    /\ UNCHANGED <<asked, dev>>

\* A fatal error of the controller shows while the bit is set.
poll_fatal ==
    /\ drv.at = "poll" /\ dev.doorbell /\ dev.fatal
    /\ drv' = Idle /\ Returned("ERROR")
    /\ dev' = [dev EXCEPT !.fatal = FALSE]
    /\ UNCHANGED <<asked, moved>>

\* The deadline passes: the controller is dead, or late.
poll_timeout ==
    /\ drv.at = "poll" /\ dev.doorbell /\ (dev.dead \/ drv.late < MaxLate)
    /\ drv' = [drv EXCEPT !.at = "idle", !.late = IF dev.dead THEN @ ELSE @ + 1]
    /\ Returned("TIMEOUT")
    /\ UNCHANGED <<asked, moved, dev>>

\* ufs_shutdown: SYNCHRONIZE CACHE, then the controller is stopped.
ufs_shutdown ==
    /\ drv.at = "idle" /\ drv' = [drv EXCEPT !.at = "down"]
    /\ dev' = [dev EXCEPT !.dead = TRUE] /\ UNCHANGED history

-----------------------------------------------------------------------------
(* The controller: takes the descriptor, executes it, leaves the status. *)

NoCmd == [call |-> 0, write |-> FALSE, lba |-> 0, n |-> 0]

controller_take ==
    /\ ~dev.dead /\ dev.doorbell /\ dev.busy = NoCmd
    /\ dev' = [dev EXCEPT !.busy = dev.utrd] /\ UNCHANGED <<history, drv>>

Written(c) ==
    {[call |-> c.call, write |-> TRUE, lba |-> c.lba + k, buf |-> dev.bounce[k].at] :
        k \in {j \in 0 .. c.n - 1 : dev.bounce[j].of = "caller"}}
Read(c) == [k \in Places |-> IF k < c.n THEN [of |-> "disk", at |-> c.lba + k] ELSE dev.bounce[k]]

controller_done ==
    /\ ~dev.dead /\ dev.busy # NoCmd
    /\ moved' = IF dev.busy.write THEN moved \cup Written(dev.busy) ELSE moved
    /\ dev' = [dev EXCEPT !.busy = NoCmd, !.doorbell = FALSE, !.ocs = "success",
                          !.bounce = IF dev.busy.write THEN @ ELSE Read(dev.busy)]
    /\ UNCHANGED <<asked, result, drv>>

controller_fails ==
    /\ ~dev.dead /\ dev.busy # NoCmd
    /\ \/ dev' = [dev EXCEPT !.busy = NoCmd, !.doorbell = FALSE]      \* status left as preset
       \/ dev' = [dev EXCEPT !.fatal = TRUE, !.dead = TRUE]
       \/ dev' = [dev EXCEPT !.dead = TRUE]
    /\ UNCHANGED <<history, drv>>

-----------------------------------------------------------------------------
Init ==
    /\ Disk!Init
    /\ drv = [at |-> "enable", off |-> 0, late |-> 0]
    /\ dev = [utrd |-> NoCmd, ocs |-> "none", doorbell |-> FALSE, busy |-> NoCmd,
              bounce |-> [k \in Places |-> Nothing], fatal |-> FALSE, dead |-> FALSE]

ufs_init ==
    \/ ufs_hce_enable \/ ufs_setup_transfer_list \/ ufs_setup_tm_list \/ ufs_link_startup
    \/ ufs_send_nop_out \/ ufs_device_init \/ ufs_read_device_desc \/ ufs_test_unit_ready
    \/ ufs_read_capacity \/ ufs_configure_power_mode

Working == ufs_scsi_cmd \/ poll_done \/ poll_fatal \/ poll_timeout
Controller == controller_take \/ controller_done \/ controller_fails
Next == ufs_init \/ ufs_drv_read \/ ufs_drv_write \/ Working \/ ufs_shutdown \/ Controller

\* The CPU runs on, and the controller, while it lives, gets on with its work.
Fairness == WF_vars(Working) /\ WF_vars(Controller)
Spec == Init /\ [][Next]_vars /\ Fairness

-----------------------------------------------------------------------------
\* A successful call has moved every block between its place on the disk and its
\* place in the caller's buffer, by way of the bounce buffer.
ImplementsDisk == Disk!Spec

\* A call returns.
CallReturns == drv.at \in {"chunk", "poll"} ~> drv.at = "idle"
=============================================================================
