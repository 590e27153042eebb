------------------------------ MODULE BMFSDir -------------------------------
(***************************************************************************)
(* The BMFS directory as data (kernel/fs.c): slots, the END and DELETED    *)
(* sentinels, the scans over it and first-fit block allocation.            *)
(* Block numbers are mathematical integers: callers in the kernel reserve  *)
(* one or two blocks, so the uint64_t sums of the code cannot wrap.        *)
(***************************************************************************)
EXTENDS Integers, FiniteSets

CONSTANTS
    FileNames,      \* valid file names (1..31 characters, no sentinel byte)
    MaxFiles,       \* BMFS_MAX_FILES: directory slots, and descriptors
    END,            \* BMFS_ENTRY_END in filename[0]
    DELETED         \* BMFS_ENTRY_DELETED in filename[0]

ASSUME DirAssumption ==
    /\ IsFiniteSet(FileNames)
    /\ MaxFiles \in Nat \ {0}
    /\ END \notin FileNames
    /\ DELETED \notin FileNames
    /\ END # DELETED

Slots == 0 .. MaxFiles - 1

Entry == [name : FileNames \cup {END, DELETED}, start : Nat, reserved : Nat, size : Nat]
Zeroed == [name |-> END, start |-> 0, reserved |-> 0, size |-> 0]
Deleted == [Zeroed EXCEPT !.name = DELETED]

\* The entries the scans reach: they stop at the first END and skip DELETED.
Visible(d) == {i \in Slots : /\ d[i].name \in FileNames
                             /\ \A j \in 0 .. i - 1 : d[j].name # END}

dir_find(d, name) == {i \in Visible(d) : d[i].name = name}

Exists(d, name) == dir_find(d, name) # {}

\* dir_find_free: the first slot that is DELETED or END.
FreeSlots(d) == {i \in Slots : d[i].name \in {END, DELETED}}
dir_find_free(d) == {i \in FreeSlots(d) : \A j \in FreeSlots(d) : i <= j}

BlocksOf(e) == e.start .. e.start + e.reserved - 1

\* find_free_blocks, first fit: every visible extent ends at or before c, or
\* starts at or after c + needed.  The sorted scan only ever tries block 1 and
\* the ends of extents, and returns the first of them that fits.
Fits_OffByOne(d, c, needed) == \A i \in Visible(d) : \/ d[i].start + 1 >= c + needed
                                                     \/ d[i].start + d[i].reserved <= c
Fits(d, c, needed) == \A i \in Visible(d) : \/ d[i].start >= c + needed
                                            \/ d[i].start + d[i].reserved <= c
Candidates(d) == {1} \cup {d[i].start + d[i].reserved : i \in Visible(d)}
find_free_blocks(d, needed) ==
    CHOOSE c \in {x \in Candidates(d) : x >= 1} :
        /\ Fits(d, c, needed)
        /\ \A b \in Candidates(d) : b >= 1 /\ Fits(d, b, needed) => c <= b

\* The directory fs_create builds: the new entry in its slot and, when no END
\* follows the slot, an END in the slot after it.
HasEndAfter(d, s) == \E i \in s + 1 .. MaxFiles - 1 : d[i].name = END
WithEntry_AlwaysEnds(d, s, e) ==
    [i \in Slots |-> IF i = s THEN e ELSE IF i = s + 1 THEN Zeroed ELSE d[i]]
WithEntry(d, s, e) ==
    [i \in Slots |-> IF i = s THEN e
                     ELSE IF i = s + 1 /\ ~HasEndAfter(d, s) THEN Zeroed
                     ELSE d[i]]
=============================================================================
