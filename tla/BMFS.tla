-------------------------------- MODULE BMFS --------------------------------
(***************************************************************************)
(* The in-kernel BMFS file system (kernel/fs.c): the cached directory      *)
(* g_dir, the copy of it on disk, the descriptor table g_fds and the       *)
(* extents in which file data lives.                                       *)
(*                                                                         *)
(* Every public call is one action.  A call that the code refuses with -1  *)
(* before it changes anything is a stuttering step.  A directory flush     *)
(* (dir_write) ends in one of three ways:                                  *)
(*   "ok"     the driver wrote every sector;                               *)
(*   "error"  the driver reported an error after writing some of them;     *)
(*   "crash"  the machine stopped after writing some of them.              *)
(* File bytes are abstracted to the blocks a call writes and the file its  *)
(* descriptor was opened on.  The fields of a free entry (END or DELETED)  *)
(* and of a closed descriptor are never read, and are kept zeroed.         *)
(***************************************************************************)
EXTENDS BMFSDir

CONSTANTS
    SlotsPerSector, \* FS_SECTOR_SIZE / BMFS_ENTRY_SIZE
    BlockSize,      \* BMFS_BLOCK_SIZE, in the unit of offsets and sizes
    Reserves,       \* reserved_blocks arguments passed to fs_create
    WriteRanges     \* <<offset, size>> arguments passed to fs_write

ASSUME VolumeAssumption ==
    /\ SlotsPerSector \in Nat \ {0}
    /\ BlockSize \in Nat \ {0}
    /\ Reserves \subseteq Nat
    /\ WriteRanges \subseteq Nat \X (Nat \ {0})

VARIABLES
    dir,        \* g_dir: the cached directory
    disk,       \* the directory sectors on the device
    fds,        \* g_fds
    mounted,    \* g_initialized
    written,    \* the data blocks the last call wrote, and for which file
    promised,   \* history: files whose fs_create returned 0, not deleted since
    torn        \* history: a flush was cut short while disk and dir differed

vars == <<dir, disk, fds, mounted, written, promised, torn>>

Sectors == 0 .. (MaxFiles - 1) \div SlotsPerSector

Closed == [in_use |-> FALSE, dir_index |-> 0, name |-> END, start |-> 0, reserved |-> 0, size |-> 0]
Descriptor == [in_use : BOOLEAN, dir_index : Slots, name : FileNames \cup {END},
               start : Nat, reserved : Nat, size : Nat]

NoData == [name |-> END, blocks |-> {}]

Flushes == {"ok", "error", "crash"}

-----------------------------------------------------------------------------
(* Flushing the directory, and losing memory. *)

\* What the device holds when only the sectors in S of directory d arrived.
Merge(d, S) == [i \in Slots |-> IF i \div SlotsPerSector \in S THEN d[i] ELSE disk[i]]

dir_write(d, how) ==
    \/ /\ how = "ok"
       /\ disk' = d
       /\ UNCHANGED torn
    \/ /\ how \in {"error", "crash"}
       /\ \E S \in SUBSET Sectors :
            /\ disk' = Merge(d, S)
            /\ torn' = (torn \/ (disk # dir /\ S \notin {{}, Sectors}))

\* Memory after a call that leaves directory d and descriptors f, or after the
\* restart that follows a crash.
Settle(d, f, how) ==
    IF how = "crash"
    THEN /\ dir' = [i \in Slots |-> Zeroed]
         /\ fds' = [i \in Slots |-> Closed]
         /\ mounted' = FALSE
    ELSE /\ dir' = d
         /\ fds' = f
         /\ mounted' = mounted

-----------------------------------------------------------------------------
(* The public calls. *)

Init ==
    /\ dir = [i \in Slots |-> Zeroed]
    /\ disk = [i \in Slots |-> Zeroed]      \* a freshly formatted volume
    /\ fds = [i \in Slots |-> Closed]
    /\ mounted = FALSE
    /\ written = NoData
    /\ promised = {}
    /\ torn = FALSE

\* fs_init reads the directory.  It fails when there is no driver, no buffer,
\* no tag, or the read fails; g_dir is then not read until a later mount.
fs_init ==
    /\ fds' = [i \in Slots |-> Closed]
    /\ \/ mounted' = TRUE /\ dir' = disk
       \/ mounted' = FALSE /\ dir' = [i \in Slots |-> Zeroed]
    /\ written' = NoData
    /\ UNCHANGED <<disk, promised, torn>>

AlreadyOpen(i) == \E g \in Slots : fds[g].in_use /\ fds[g].dir_index = i

\* A second open of the same entry gets the existing descriptor: no change.
fs_open(name) ==
    /\ mounted
    /\ \E i \in dir_find(dir, name), f \in Slots :
         /\ \A j \in dir_find(dir, name) : i <= j
         /\ ~AlreadyOpen(i)
         /\ ~fds[f].in_use
         /\ \A g \in 0 .. f - 1 : fds[g].in_use
         /\ fds' = [fds EXCEPT ![f] = [in_use |-> TRUE, dir_index |-> i, name |-> dir[i].name,
                                       start |-> dir[i].start, reserved |-> dir[i].reserved,
                                       size |-> dir[i].size]]
    /\ written' = NoData
    /\ UNCHANGED <<dir, disk, mounted, promised, torn>>

fs_close(f) ==
    /\ fds[f].in_use
    /\ fds' = [fds EXCEPT ![f] = Closed]
    /\ written' = NoData
    /\ UNCHANGED <<dir, disk, mounted, promised, torn>>

\* The blocks a write of size units at offset touches.
Touched_OnePast(f, offset, size) ==
    fds[f].start + offset \div BlockSize .. fds[f].start + (offset + size) \div BlockSize
Touched(f, offset, size) ==
    fds[f].start + offset \div BlockSize .. fds[f].start + (offset + size - 1) \div BlockSize

Writes(f, blocks) == written' = [name |-> fds[f].name, blocks |-> blocks]

CanWrite(f, offset, size) ==
    /\ mounted
    /\ fds[f].in_use
    /\ offset + size <= fds[f].reserved * BlockSize

\* The write succeeds; past the end of the file it also grows the file and
\* flushes the directory, and a failed flush is only a warning.
fs_write(f, offset, size, how) ==
    /\ CanWrite(f, offset, size)
    /\ Writes(f, Touched(f, offset, size))
    /\ IF offset + size > fds[f].size
       THEN LET d == [dir EXCEPT ![fds[f].dir_index].size = offset + size]
            IN  /\ dir_write(d, how)
                /\ Settle(d, [fds EXCEPT ![f].size = offset + size], how)
       ELSE how = "ok" /\ UNCHANGED <<dir, disk, fds, mounted, torn>>
    /\ UNCHANGED promised

\* fs_write_bytes stops after some leading blocks: the call returns -1, or the
\* machine stops.
fs_write_cut_short(f, offset, size, how) ==
    /\ how \in {"error", "crash"}
    /\ CanWrite(f, offset, size)
    /\ \E n \in 0 .. size : Writes(f, IF n = 0 THEN {} ELSE Touched(f, offset, n))
    /\ Settle(dir, fds, how)
    /\ UNCHANGED <<disk, promised, torn>>

fs_create(name, needed, how) ==
    /\ mounted
    /\ ~Exists(dir, name)
    /\ \E s \in dir_find_free(dir) :
         LET count == IF needed = 0 THEN 1 ELSE needed
             entry == [name |-> name, start |-> find_free_blocks(dir, count),
                       reserved |-> count, size |-> 0]
             d == WithEntry(dir, s, entry)
         IN  /\ dir_write(d, how)
             /\ Settle(d, fds, how)
    /\ promised' = IF how = "ok" THEN promised \cup {name} ELSE promised
    /\ written' = NoData

\* The descriptors after fs_delete closed those on entry i.
ClosedOn_Forgotten(i) == fds
ClosedOn(i) == [f \in Slots |-> IF fds[f].in_use /\ fds[f].dir_index = i THEN Closed ELSE fds[f]]

fs_delete(name, how) ==
    /\ mounted
    /\ \E i \in dir_find(dir, name) :
         LET d == [dir EXCEPT ![i] = Deleted]
         IN  /\ \A j \in dir_find(dir, name) : i <= j
             /\ dir_write(d, how)
             /\ Settle(d, ClosedOn(i), how)
    /\ promised' = promised \ {name}
    /\ written' = NoData

fs_sync(how) ==
    /\ mounted
    /\ dir_write(dir, how)
    /\ Settle(dir, fds, how)
    /\ written' = NoData
    /\ UNCHANGED promised

\* Power loss between two calls.
Crash ==
    /\ Settle(dir, fds, "crash")
    /\ written' = NoData
    /\ UNCHANGED <<disk, promised, torn>>

Next ==
    \/ fs_init
    \/ \E n \in FileNames : fs_open(n)
    \/ \E f \in Slots : fs_close(f)
    \/ \E f \in Slots, r \in WriteRanges, h \in Flushes : fs_write(f, r[1], r[2], h)
    \/ \E f \in Slots, r \in WriteRanges, h \in Flushes : fs_write_cut_short(f, r[1], r[2], h)
    \/ \E n \in FileNames, k \in Reserves, h \in Flushes : fs_create(n, k, h)
    \/ \E n \in FileNames, h \in Flushes : fs_delete(n, h)
    \/ \E h \in Flushes : fs_sync(h)
    \/ Crash

Spec == Init /\ [][Next]_vars

-----------------------------------------------------------------------------
(* Properties. *)

TypeOK ==
    /\ dir \in [Slots -> Entry]
    /\ disk \in [Slots -> Entry]
    /\ fds \in [Slots -> Descriptor]
    /\ mounted \in BOOLEAN
    /\ written.name \in FileNames \cup {END}
    /\ written.blocks \subseteq Nat
    /\ promised \subseteq FileNames
    /\ torn \in BOOLEAN

\* Two visible files never share a block, and none lies in block 0, which holds
\* the directory.
Disjoint(d) ==
    \A i \in Visible(d) :
        /\ d[i].start >= 1
        /\ \A j \in Visible(d) \ {i} : \/ d[i].start + d[i].reserved <= d[j].start
                                       \/ d[j].start + d[j].reserved <= d[i].start

\* find_free_blocks hands out only unused extents: at every moment, in memory
\* and on disk, whatever flush fails or is cut short, the extents of the
\* visible files are disjoint (unless a flush was torn while the disk was
\* already behind).
ExtentsDisjoint == ~torn => Disjoint(disk) /\ Disjoint(dir)

\* fs_create refuses a name that exists, so a name denotes one visible file.
NamesUnique ==
    ~torn => \A d \in {dir, disk} : \A i, j \in Visible(d) : d[i].name = d[j].name => i = j

\* An open descriptor caches name, extent and size of a live entry, and no two
\* descriptors share an entry: fs_open fills the cache, fs_write updates both
\* copies of the size, fs_delete closes, fs_create never reuses an open entry.
DescriptorsCoherent ==
    ~torn => \A f \in Slots : fds[f].in_use =>
        LET i == fds[f].dir_index
        IN  /\ i \in Visible(dir)
            /\ fds[f].name = dir[i].name
            /\ fds[f].start = dir[i].start
            /\ fds[f].reserved = dir[i].reserved
            /\ fds[f].size = dir[i].size
            /\ \A g \in Slots \ {f} : fds[g].in_use => fds[g].dir_index # i

\* A file whose fs_create returned 0 and that nobody deleted is in the
\* directory of the device and, while mounted, in the cached one.
FilesSurvive ==
    ~torn => \A n \in promised : Exists(disk, n) /\ (mounted => Exists(dir, n))

\* A file never claims more bytes than its reserved blocks hold.
SizeWithinReserve ==
    ~torn => \A d \in {dir, disk} : \A i \in Visible(d) : d[i].size <= d[i].reserved * BlockSize

\* An fs_write changes no block that belongs to a file other than the one its
\* descriptor was opened on.
WritesStayInFile ==
    [][~torn => \A b \in written'.blocks : \A i \in Visible(dir) :
                   b \in BlocksOf(dir[i]) => dir[i].name = written'.name]_vars

\* fs_open never runs out of descriptors: a visible file that is not open finds
\* a free one.
DescriptorAvailable ==
    ~torn => \A i \in Visible(dir) :
        \/ \E f \in Slots : fds[f].in_use /\ fds[f].dir_index = i
        \/ \E f \in Slots : ~fds[f].in_use

\* The file system implements the abstract store: the files of a directory are
\* its visible entries, and every call, failed flush and crash changes them, in
\* memory and on the device, as one atomic update of one file would.
Store == INSTANCE FileStore WITH
    files <- {dir[i] : i \in Visible(dir)},
    durable <- {disk[i] : i \in Visible(disk)},
    up <- mounted
ImplementsStore == Store!Spec
=============================================================================
