----------------------------- MODULE MCStorage ------------------------------
(***************************************************************************)
(* The storage drivers, one of them in each behaviour: the virtio block    *)
(* driver with its queue, and NVMe, AHCI, UFS and EMMC, which implement    *)
(* BlockDisk.                                                              *)
(***************************************************************************)
EXTENDS VirtioBlk

CONSTANTS MaxCalls, Depth, CidWrap, PageLen, Limits, Ports, CmdSlots, CountWrap, RegionMax, RegionsMax,
          BufBlocks, MaxLate, BlockSize

\* A read of several commands or fillings, a write of two pages, and nothing.
\* Buffers start on a page.
Requests == {[write |-> FALSE, lba |-> 1, n |-> 5, buf |-> 2],
             [write |-> TRUE, lba |-> 3, n |-> 3, buf |-> 4],
             [write |-> FALSE, lba |-> 0, n |-> 0, buf |-> 2]}

VARIABLES driver, asked, result, moved, drv, dev

NV == INSTANCE NVMe
AH == INSTANCE AHCI
UF == INSTANCE UFS
EM == INSTANCE EMMC
Disk == INSTANCE BlockDisk

disk == <<asked, result, moved, drv, dev>>
all == <<vars, driver, disk>>

Is(d) == driver = d /\ UNCHANGED driver /\ IF d = "virtio" THEN UNCHANGED disk ELSE UNCHANGED vars

\* The virtio variables of a behaviour with another driver.
VirtioOff == Init /\ ~readonly

MCInit ==
    \/ driver = "virtio" /\ Init /\ Disk!Init /\ drv = <<>> /\ dev = <<>>
    \/ driver = "nvme" /\ VirtioOff /\ NV!Init
    \/ driver = "ahci" /\ VirtioOff /\ AH!Init
    \/ driver = "ufs" /\ VirtioOff /\ UF!Init
    \/ driver = "emmc" /\ VirtioOff /\ EM!Init

\* The bound on calls is reached.
AllCalled == driver # "virtio" /\ Len(asked) = MaxCalls /\ \A i \in DOMAIN result : result[i] # "pending"

MCNext ==
    \/ Is("virtio") /\ Next
    \/ Is("nvme") /\ NV!Next
    \/ Is("ahci") /\ AH!Next
    \/ Is("ufs") /\ UF!Next
    \/ Is("emmc") /\ EM!Next
    \/ AllCalled /\ UNCHANGED all

MCSpec ==
    /\ MCInit /\ [][MCNext]_all
    /\ WF_all(Is("virtio") /\ DriverStep) /\ WF_all(Is("virtio") /\ DeviceStep)
    /\ WF_all(Is("nvme") /\ NV!Working)
    /\ WF_all(Is("ahci") /\ AH!ahci_ata_dma) /\ WF_all(Is("ahci") /\ AH!wait_timeout)
    /\ WF_all(Is("ufs") /\ UF!Working) /\ WF_all(Is("ufs") /\ UF!Controller)
    /\ WF_all(Is("emmc") /\ EM!Working)

\* HAL_OK from nvme_read, ahci_read, ufs_drv_read, emmc_read and their writes
\* means that every sector has moved between its place on the disk and its place
\* in the caller's buffer, and no sector ever moves to a wrong place, whatever
\* earlier calls failed or were given up; the UFS controller finishes what it
\* does before the driver gives up, or dies.
ImplementsDisk == Disk!Spec

\* When an SD card is in use, host and card run the bus at the same speed and
\* width, whatever the card offered, refused or failed to answer.
ModesAgree == driver = "emmc" => EM!ModesAgree

\* vblk_do_io and every read and write of the other drivers returns.
CallsReturn ==
    /\ driver = "virtio" /\ call.pc # "idle" ~> call.pc = "idle"
    /\ driver # "virtio" /\ "pending" \in {result[i] : i \in DOMAIN result}
       ~> "pending" \notin {result[i] : i \in DOMAIN result}
=============================================================================
