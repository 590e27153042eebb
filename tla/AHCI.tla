-------------------------------- MODULE AHCI --------------------------------
(***************************************************************************)
(* The SATA driver, drivers/storage/ahci.c, and the host bus adapter.  A   *)
(* transfer is cut into commands; each takes a slot that is free in PxCI,  *)
(* describes its buffer by a table of regions, sets the slot's bit in PxCI *)
(* and polls until the adapter clears it, a task file error shows, or a    *)
(* deadline passes.  A slot that was given up keeps its bit, and the       *)
(* adapter may still execute it.                                           *)
(***************************************************************************)
EXTENDS Naturals, Sequences, SequencesExt, FiniteSetsExt

CONSTANTS
    Requests, MaxCalls,
    Ports,          \* ports of the adapter, 0 .. n - 1
    CmdSlots,       \* hba->cmd_slots
    CountWrap,      \* sectors of the largest command: its count is sent as 0 (65536)
    RegionMax,      \* AHCI_PRDT_MAX_BYTES, in sectors
    RegionsMax      \* AHCI_MAX_PRDT_PER_CMD

VARIABLES asked, result, moved, drv, dev

vars == <<asked, result, moved, drv, dev>>
history == <<asked, result, moved>>

Disk == INSTANCE BlockDisk

-----------------------------------------------------------------------------
(* Start-up. *)

\* ahci_port_init: present with a SATA or an ATAPI signature.  Memory for a
\* port's tables may run out, which leaves the port absent.
ahci_port_init(p) ==
    IF dev.kind[p] \in {"sata", "atapi"} THEN {dev.kind[p], "none"} ELSE {"none"}

\* ahci_identify changes the reported size only; a port whose IDENTIFY fails
\* stays present.  ahci_find_disk takes the first present port without ATAPI.
ahci_find_disk(ports) == {p \in Ports : ports[p] = "sata"}

\* ahci_init and ahci_drv_init.
ahci_init ==
    /\ drv.at = "init"
    /\ \/ drv' = [drv EXCEPT !.at = "down"]                     \* reset timed out
       \/ \E ports \in [Ports -> {"sata", "atapi", "none"}] :
            /\ \A p \in Ports : ports[p] \in ahci_port_init(p)
            /\ drv' = IF ahci_find_disk(ports) = {} THEN [drv EXCEPT !.at = "down"]
                      ELSE [drv EXCEPT !.at = "idle", !.port = Min(ahci_find_disk(ports))]
    /\ UNCHANGED <<history, dev>>

-----------------------------------------------------------------------------
(* ahci_ata_dma. *)

Now == asked[Len(asked)]
Returned(rc) == result' = [result EXCEPT ![Len(result)] = rc]

\* ahci_read and ahci_write through ahci_drv_read and ahci_drv_write.
Enter(r) ==
    /\ drv.at \in {"idle", "down"} /\ Len(asked) < MaxCalls
    /\ asked' = Append(asked, r)
    /\ result' = Append(result, CASE drv.at = "down" -> "ERROR"
                                  [] drv.at = "idle" /\ r.n = 0 -> "OK"
                                  [] OTHER -> "pending")
    /\ drv' = IF drv.at = "idle" /\ r.n > 0 THEN [drv EXCEPT !.at = "chunk", !.off = 0] ELSE drv
    /\ UNCHANGED <<moved, dev>>
ahci_read == \E r \in Requests : ~r.write /\ Enter(r)
ahci_write == \E r \in Requests : r.write /\ Enter(r)

\* The sectors of the next command: what the count field and the table hold.
Chunk == Min({Now.n - drv.off, CountWrap, RegionMax * RegionsMax})

\* The regions of the buffer, each but the last of the largest size.
Regions(buf, n) ==
    LET full == n \div RegionMax
        rest == n % RegionMax
    IN  [i \in 1 .. full + (IF rest > 0 THEN 1 ELSE 0) |->
            [base |-> buf + (i - 1) * RegionMax, len |-> IF i <= full THEN RegionMax ELSE rest]]

\* ahci_find_free_slot.
FreeSlots == {s \in 0 .. CmdSlots - 1 : s \notin dev.ci}

Fis == [call |-> Len(asked), write |-> Now.write, lba |-> Now.lba + drv.off, count |-> Chunk % CountWrap,
        prdt |-> Regions(Now.buf + drv.off, Chunk)]

ahci_ata_dma ==
    /\ drv.at = "chunk"
    /\ IF FreeSlots = {}
       THEN drv' = [drv EXCEPT !.at = "idle"] /\ Returned("BUSY") /\ UNCHANGED dev
       ELSE /\ drv' = [drv EXCEPT !.at = "wait", !.slot = Min(FreeSlots), !.chunk = Chunk]
            /\ dev' = [dev EXCEPT !.table[Min(FreeSlots)] = Fis, !.ci = @ \cup {Min(FreeSlots)}]
            /\ UNCHANGED result
    /\ UNCHANGED <<asked, moved>>

ahci_wait_slot ==
    /\ drv.at = "wait"
    /\ CASE drv.slot \notin dev.ci /\ ~dev.err /\ drv.off + drv.chunk < Now.n ->
                drv' = [drv EXCEPT !.at = "chunk", !.off = drv.off + drv.chunk] /\ UNCHANGED result
         [] drv.slot \notin dev.ci /\ ~dev.err /\ drv.off + drv.chunk >= Now.n ->
                drv' = [drv EXCEPT !.at = "idle"] /\ Returned("OK")
         [] drv.slot \notin dev.ci /\ dev.err -> drv' = [drv EXCEPT !.at = "idle"] /\ Returned("ERROR")
         [] drv.slot \in dev.ci /\ dev.tfes -> drv' = [drv EXCEPT !.at = "idle"] /\ Returned("ERROR")
         [] OTHER -> UNCHANGED <<drv, result>>
    /\ UNCHANGED <<asked, moved, dev>>

wait_timeout ==
    /\ drv.at = "wait"
    /\ drv' = [drv EXCEPT !.at = "idle"] /\ Returned("TIMEOUT")
    /\ UNCHANGED <<asked, moved, dev>>

-----------------------------------------------------------------------------
(* The adapter: executes the slots set in PxCI, one after the other in any   *)
(* order, and stops at the first error.  Only a disk moves sectors.          *)

Spread(prdt) == FoldLeft(LAMBDA s, r : s \o [k \in 1 .. r.len |-> r.base + k - 1], <<>>, prdt)
SectorsOf(fis) == IF fis.count = 0 THEN CountWrap ELSE fis.count
Moves(fis) ==
    {[call |-> fis.call, write |-> fis.write, lba |-> fis.lba + k - 1, buf |-> Spread(fis.prdt)[k]] :
        k \in 1 .. Min({SectorsOf(fis), Len(Spread(fis.prdt))})}

adapter_done(s) ==
    /\ ~dev.halted /\ dev.kind[drv.port] = "sata"
    /\ moved' = moved \cup Moves(dev.table[s])
    /\ dev' = [dev EXCEPT !.ci = @ \ {s}, !.err = FALSE]
    /\ UNCHANGED <<asked, result, drv>>

adapter_error(s, cleared) ==
    /\ ~dev.halted
    /\ dev' = [dev EXCEPT !.halted = TRUE, !.err = TRUE, !.tfes = TRUE,
                          !.ci = IF cleared THEN @ \ {s} ELSE @]
    /\ UNCHANGED <<history, drv>>

-----------------------------------------------------------------------------
NoFis == [call |-> 0, write |-> FALSE, lba |-> 0, count |-> 0, prdt |-> <<>>]
Init ==
    /\ Disk!Init
    /\ drv = [at |-> "init", port |-> 0, off |-> 0, chunk |-> 0, slot |-> 0]
    /\ \E kind \in [Ports -> {"sata", "atapi", "other"}] :
        dev = [kind |-> kind, table |-> [s \in 0 .. CmdSlots - 1 |-> NoFis], ci |-> {},
               err |-> FALSE, tfes |-> FALSE, halted |-> FALSE]

Working == ahci_ata_dma \/ ahci_wait_slot \/ wait_timeout
Adapter == \E s \in dev.ci : adapter_done(s) \/ \E cleared \in BOOLEAN : adapter_error(s, cleared)
Next == ahci_init \/ ahci_read \/ ahci_write \/ Working \/ Adapter

Fairness == WF_vars(ahci_ata_dma) /\ WF_vars(wait_timeout)
Spec == Init /\ [][Next]_vars /\ Fairness

-----------------------------------------------------------------------------
\* HAL_OK means that every sector of the call has moved to or from its own place
\* in the caller's buffer, whatever commands were given up or failed before.
ImplementsDisk == Disk!Spec

\* A call returns.
CallReturns == drv.at \in {"chunk", "wait"} ~> drv.at = "idle"
=============================================================================
