----------------------------- MODULE BMFSProofs -----------------------------
(***************************************************************************)
(* Proofs about the BMFS file system: type correctness for every volume,   *)
(* and the directory and descriptor invariants for clients that use fewer  *)
(* distinct names than the directory has slots.                            *)
(***************************************************************************)
EXTENDS BMFS, FiniteSetTheorems, WellFoundedInduction, TLAPS

-----------------------------------------------------------------------------
(* First-fit allocation. *)

\* Some block number lies past the end of every entry's extent.
Bounded(d) == \E B \in Nat : \A i \in Slots : d[i].start + d[i].reserved <= B

\* A set of naturals that is not empty has a least element.
LEMMA LeastNatural ==
    ASSUME NEW T, T \subseteq Nat, T # {}
    PROVE  \E x \in T : \A y \in T : x <= y
<1>1. \E x \in T : \A y \in T : ~(<<y, x>> \in OpToRel(<, Nat))
  BY NatLessThanWellFounded, WFMin, Zenon
<1>2. PICK x \in T : \A y \in T : ~(<<y, x>> \in OpToRel(<, Nat))
  BY <1>1
<1>3. \A y \in T : ~(y < x)
  BY <1>2 DEF OpToRel
<1> QED
  BY <1>3

\* find_free_blocks returns a block number past the directory from which the
\* requested run of blocks overlaps no visible file: fs_create never hands out
\* blocks that are in use.
LEMMA AllocationFits ==
    ASSUME NEW d \in [Slots -> Entry], Bounded(d), NEW needed \in Nat
    PROVE  /\ find_free_blocks(d, needed) \in Nat
           /\ find_free_blocks(d, needed) >= 1
           /\ Fits(d, find_free_blocks(d, needed), needed)
<1> DEFINE T == {c \in Nat : c >= 1 /\ Fits(d, c, needed)}
           U == {c \in Candidates(d) : c >= 1 /\ Fits(d, c, needed)}
<1>1. \A i \in Visible(d) : i \in Slots /\ d[i].start \in Nat /\ d[i].reserved \in Nat
  BY DEF Visible, Entry
<1>2. PICK B \in Nat : \A i \in Slots : d[i].start + d[i].reserved <= B
  BY DEF Bounded
<1>3. B + 1 \in T
  BY <1>1, <1>2 DEF Fits
<1>4. PICK c \in T : \A y \in T : c <= y
  <2>1. T \subseteq Nat /\ T # {}
    BY <1>3
  <2> QED BY <2>1, LeastNatural
<1>5. c \in Candidates(d)
  <2>1. CASE c = 1
    BY <2>1 DEF Candidates
  <2>2. CASE c # 1
    <3>1. c - 1 \in Nat /\ c - 1 >= 1
      BY <2>2, <1>4
    <3>2. ~Fits(d, c - 1, needed)
      BY <3>1, <1>4
    <3>3. PICK i \in Visible(d) : /\ ~(d[i].start >= (c - 1) + needed)
                                  /\ ~(d[i].start + d[i].reserved <= c - 1)
      BY <3>2 DEF Fits
    <3>4. d[i].start >= c + needed \/ d[i].start + d[i].reserved <= c
      BY <1>4 DEF Fits
    <3>5. d[i].start + d[i].reserved = c
      BY <3>3, <3>4, <1>1, <1>4
    <3> QED BY <3>5 DEF Candidates
  <2> QED BY <2>1, <2>2
<1>6. /\ c \in {x \in Candidates(d) : x >= 1}
      /\ Fits(d, c, needed)
      /\ \A b \in Candidates(d) : b >= 1 /\ Fits(d, b, needed) => c <= b
  <2>1. Candidates(d) \subseteq Nat
    BY <1>1 DEF Candidates
  <2> QED BY <2>1, <1>4, <1>5
<1>7. /\ find_free_blocks(d, needed) \in {x \in Candidates(d) : x >= 1}
      /\ Fits(d, find_free_blocks(d, needed), needed)
  BY <1>6 DEF find_free_blocks
<1>8. Candidates(d) \subseteq Nat
  BY <1>1 DEF Candidates
<1> QED BY <1>7, <1>8

-----------------------------------------------------------------------------
(* Type correctness. *)

\* TypeOK is inductive only together with the bound that makes allocation
\* well defined.
TypeInv == TypeOK /\ Bounded(dir) /\ Bounded(disk)

LEMMA MergeTyped ==
    ASSUME NEW d \in [Slots -> Entry], Bounded(d), TypeInv, NEW S
    PROVE  Merge(d, S) \in [Slots -> Entry] /\ Bounded(Merge(d, S))
<1>1. Merge(d, S) \in [Slots -> Entry]
  BY DEF Merge, TypeInv, TypeOK
<1>2. Bounded(Merge(d, S))
  <2>1. PICK B \in Nat : \A i \in Slots : d[i].start + d[i].reserved <= B
    BY DEF Bounded
  <2>2. PICK C \in Nat : \A i \in Slots : disk[i].start + disk[i].reserved <= C
    BY DEF TypeInv, Bounded
  <2>3. \A i \in Slots : Merge(d, S)[i].start + Merge(d, S)[i].reserved <= B + C
    BY <2>1, <2>2 DEF Merge, TypeInv, TypeOK, Entry
  <2>4. B + C \in Nat
    OBVIOUS
  <2> QED BY <2>3, <2>4 DEF Bounded
<1> QED BY <1>1, <1>2

\* Replacing one entry of a typed and bounded directory.
LEMMA UpdateTyped ==
    ASSUME NEW d \in [Slots -> Entry], Bounded(d), NEW s \in Slots, NEW e \in Entry
    PROVE  /\ [d EXCEPT ![s] = e] \in [Slots -> Entry]
           /\ Bounded([d EXCEPT ![s] = e])
<1>1. PICK B \in Nat : \A i \in Slots : d[i].start + d[i].reserved <= B
  BY DEF Bounded
<1>2. B + e.start + e.reserved \in Nat
  BY DEF Entry
<1>3. \A i \in Slots : LET f == [d EXCEPT ![s] = e]
                       IN  f[i].start + f[i].reserved <= B + e.start + e.reserved
  BY <1>1 DEF Entry
<1> QED BY <1>2, <1>3 DEF Bounded

LEMMA ZeroedTyped ==
    /\ Zeroed \in Entry
    /\ Deleted \in Entry
    /\ Closed \in Descriptor
    /\ [i \in Slots |-> Zeroed] \in [Slots -> Entry]
    /\ [i \in Slots |-> Closed] \in [Slots -> Descriptor]
    /\ Bounded([i \in Slots |-> Zeroed])
<1>1. 0 \in Slots
  BY DirAssumption DEF Slots
<1>2. Zeroed \in Entry /\ Deleted \in Entry
  BY DEF Zeroed, Deleted, Entry
<1>3. Closed \in Descriptor
  BY <1>1 DEF Closed, Descriptor
<1>4. \A i \in Slots : [j \in Slots |-> Zeroed][i].start + [j \in Slots |-> Zeroed][i].reserved <= 0
  BY DEF Zeroed
<1>5. Bounded([i \in Slots |-> Zeroed])
  BY <1>4 DEF Bounded
<1> QED BY <1>2, <1>3, <1>5

\* Flushing directory d and settling on it keeps the types.
LEMMA FlushTyped ==
    ASSUME TypeInv, NEW how \in Flushes, NEW d \in [Slots -> Entry], Bounded(d),
           NEW f \in [Slots -> Descriptor], dir_write(d, how), Settle(d, f, how)
    PROVE  /\ dir' \in [Slots -> Entry] /\ Bounded(dir)'
           /\ disk' \in [Slots -> Entry] /\ Bounded(disk)'
           /\ fds' \in [Slots -> Descriptor]
           /\ mounted' \in BOOLEAN
           /\ torn' \in BOOLEAN
<1>1. disk' \in [Slots -> Entry] /\ Bounded(disk) '
  <2>1. CASE disk' = d
    BY <2>1 DEF Bounded
  <2>2. CASE \E S \in SUBSET Sectors : disk' = Merge(d, S)
    <3>1. PICK S \in SUBSET Sectors : disk' = Merge(d, S)
      BY <2>2
    <3>2. Merge(d, S) \in [Slots -> Entry] /\ Bounded(Merge(d, S))
      BY MergeTyped
    <3> QED BY <3>1, <3>2 DEF Bounded
  <2> QED BY <2>1, <2>2 DEF dir_write
<1>2. dir' \in [Slots -> Entry] /\ Bounded(dir)' /\ fds' \in [Slots -> Descriptor] /\ mounted' \in BOOLEAN
  <2>1. CASE how = "crash"
    BY <2>1, ZeroedTyped DEF Settle, Bounded
  <2>2. CASE how # "crash"
    BY <2>2 DEF Settle, Bounded, TypeInv, TypeOK
  <2> QED BY <2>1, <2>2
<1>3. torn' \in BOOLEAN
  BY DEF dir_write, TypeInv, TypeOK
<1> QED BY <1>1, <1>2, <1>3

LEMMA WithEntryTyped ==
    ASSUME NEW d \in [Slots -> Entry], Bounded(d), NEW s \in Slots, NEW e \in Entry
    PROVE  WithEntry(d, s, e) \in [Slots -> Entry] /\ Bounded(WithEntry(d, s, e))
<1>1. WithEntry(d, s, e) \in [Slots -> Entry]
  BY ZeroedTyped DEF WithEntry
<1>2. PICK B \in Nat : \A i \in Slots : d[i].start + d[i].reserved <= B
  BY DEF Bounded
<1>3. B + e.start + e.reserved \in Nat
  BY DEF Entry
<1>4. \A i \in Slots : WithEntry(d, s, e)[i].start + WithEntry(d, s, e)[i].reserved
                         <= B + e.start + e.reserved
  BY <1>2 DEF WithEntry, Zeroed, Entry
<1> QED BY <1>1, <1>3, <1>4 DEF Bounded

\* The entry fs_create builds from a visible slot is well typed.
LEMMA NewEntryTyped ==
    ASSUME TypeInv, NEW name \in FileNames, NEW needed \in Nat
    PROVE  LET count == IF needed = 0 THEN 1 ELSE needed
           IN  /\ count \in Nat /\ count >= 1
               /\ [name |-> name, start |-> find_free_blocks(dir, count),
                   reserved |-> count, size |-> 0] \in Entry
<1> DEFINE count == IF needed = 0 THEN 1 ELSE needed
<1>1. count \in Nat /\ count >= 1
  OBVIOUS
<1>2. find_free_blocks(dir, count) \in Nat
  BY <1>1, AllocationFits DEF TypeInv, TypeOK
<1> QED BY <1>1, <1>2 DEF Entry

LEMMA TouchedNat ==
    ASSUME NEW start \in Nat, NEW offset \in Nat, NEW size \in Nat \ {0}
    PROVE  start + offset \div BlockSize .. start + (offset + size - 1) \div BlockSize \subseteq Nat
<1>1. offset \div BlockSize \in Nat
  BY VolumeAssumption
<1> QED BY <1>1

LEMMA TypeInvInit == Init => TypeInv
<1> SUFFICES ASSUME Init PROVE TypeInv
  OBVIOUS
<1>1. dir \in [Slots -> Entry] /\ disk \in [Slots -> Entry] /\ fds \in [Slots -> Descriptor]
  BY ZeroedTyped DEF Init
<1>2. Bounded(dir) /\ Bounded(disk)
  BY ZeroedTyped DEF Init
<1>3. mounted \in BOOLEAN /\ promised \subseteq FileNames /\ torn \in BOOLEAN
  BY DEF Init
<1>4. written.name \in FileNames \cup {END} /\ written.blocks \subseteq Nat
  BY DEF Init, NoData
<1> QED BY <1>1, <1>2, <1>3, <1>4 DEF TypeInv, TypeOK

LEMMA TypeInvNext == TypeInv /\ [Next]_vars => TypeInv'
<1> SUFFICES ASSUME TypeInv, [Next]_vars PROVE TypeInv'
  OBVIOUS
<1> USE DEF TypeInv
<1>1. NoData.name \in FileNames \cup {END} /\ NoData.blocks \subseteq Nat
  BY DEF NoData
<1>2. CASE fs_init
  BY <1>1, <1>2, ZeroedTyped DEF fs_init, TypeOK, Bounded
<1>3. ASSUME NEW n \in FileNames, fs_open(n) PROVE TypeInv'
  <2>1. PICK i \in dir_find(dir, n), f \in Slots :
          fds' = [fds EXCEPT ![f] = [in_use |-> TRUE, dir_index |-> i, name |-> dir[i].name,
                                     start |-> dir[i].start, reserved |-> dir[i].reserved,
                                     size |-> dir[i].size]]
    BY <1>3 DEF fs_open
  <2>2. i \in Slots /\ dir[i].name \in FileNames /\ dir[i] \in Entry
    BY DEF dir_find, Visible, TypeOK
  <2>3. fds' \in [Slots -> Descriptor]
    BY <2>1, <2>2 DEF Descriptor, TypeOK, Entry
  <2> QED BY <1>1, <1>3, <2>3 DEF fs_open, TypeOK, Bounded
<1>4. ASSUME NEW f \in Slots, fs_close(f) PROVE TypeInv'
  <2>1. fds' \in [Slots -> Descriptor]
    BY <1>4, ZeroedTyped DEF fs_close, TypeOK
  <2> QED BY <1>1, <1>4, <2>1 DEF fs_close, TypeOK, Bounded
<1>5. ASSUME NEW f \in Slots, NEW r \in WriteRanges, NEW h \in Flushes, fs_write(f, r[1], r[2], h)
      PROVE  TypeInv'
  <2>1. r[1] \in Nat /\ r[2] \in Nat \ {0} /\ r[1] + r[2] \in Nat
    BY VolumeAssumption
  <2>2. fds[f].start \in Nat /\ fds[f].name \in FileNames \cup {END} /\ fds[f].dir_index \in Slots
    BY DEF TypeOK, Descriptor
  <2>3. written'.name \in FileNames \cup {END} /\ written'.blocks \subseteq Nat
    BY <1>5, <2>1, <2>2, TouchedNat DEF fs_write, Writes, Touched
  <2>4. CASE r[1] + r[2] > fds[f].size
    <3> DEFINE i == fds[f].dir_index
               e == [dir[i] EXCEPT !.size = r[1] + r[2]]
               d == [dir EXCEPT ![i].size = r[1] + r[2]]
               g == [fds EXCEPT ![f].size = r[1] + r[2]]
    <3>1. dir_write(d, h) /\ Settle(d, g, h)
      BY <1>5, <2>4 DEF fs_write
    <3>2. e \in Entry /\ d = [dir EXCEPT ![i] = e]
      BY <2>1, <2>2 DEF TypeOK, Entry
    <3>3. d \in [Slots -> Entry] /\ Bounded(d)
      BY <2>2, <3>2, UpdateTyped DEF TypeOK
    <3>4. g \in [Slots -> Descriptor]
      BY <2>1 DEF TypeOK, Descriptor
    <3>5. promised' = promised
      BY <1>5 DEF fs_write
    <3> HIDE DEF d, g
    <3> QED BY <2>3, <3>1, <3>3, <3>4, <3>5, FlushTyped DEF TypeOK
  <2>5. CASE ~(r[1] + r[2] > fds[f].size)
    BY <1>5, <2>3, <2>5 DEF fs_write, TypeOK, Bounded
  <2> QED BY <2>4, <2>5
<1>6. ASSUME NEW f \in Slots, NEW r \in WriteRanges, NEW h \in Flushes,
             fs_write_cut_short(f, r[1], r[2], h)
      PROVE  TypeInv'
  <2>1. PICK n \in 0 .. r[2] : Writes(f, IF n = 0 THEN {} ELSE Touched(f, r[1], n))
    BY <1>6 DEF fs_write_cut_short
  <2>2. r[1] \in Nat /\ r[2] \in Nat
    BY VolumeAssumption
  <2>3. fds[f].start \in Nat /\ fds[f].name \in FileNames \cup {END}
    BY DEF TypeOK, Descriptor
  <2>4. written'.name \in FileNames \cup {END} /\ written'.blocks \subseteq Nat
    <3>1. CASE n = 0
      BY <2>1, <2>3, <3>1 DEF Writes
    <3>2. CASE n # 0
      <4>1. n \in Nat \ {0}
        BY <2>2, <3>2
      <4>2. Touched(f, r[1], n) \subseteq Nat
        BY <2>2, <2>3, <4>1, TouchedNat DEF Touched
      <4> QED BY <2>1, <2>3, <3>2, <4>2 DEF Writes
    <3> QED BY <3>1, <3>2
  <2>5. disk' = disk /\ promised' = promised /\ torn' = torn /\ Settle(dir, fds, h)
    BY <1>6 DEF fs_write_cut_short
  <2>6. /\ dir' \in [Slots -> Entry] /\ Bounded(dir)'
        /\ fds' \in [Slots -> Descriptor] /\ mounted' \in BOOLEAN
    BY <2>5, ZeroedTyped DEF Settle, TypeOK, Bounded
  <2> QED BY <2>4, <2>5, <2>6 DEF TypeOK, Bounded
<1>7. ASSUME NEW n \in FileNames, NEW k \in Reserves, NEW h \in Flushes, fs_create(n, k, h)
      PROVE  TypeInv'
  <2> DEFINE count == IF k = 0 THEN 1 ELSE k
             e == [name |-> n, start |-> find_free_blocks(dir, count), reserved |-> count, size |-> 0]
  <2>1. PICK s \in dir_find_free(dir) : /\ dir_write(WithEntry(dir, s, e), h)
                                        /\ Settle(WithEntry(dir, s, e), fds, h)
    BY <1>7 DEF fs_create
  <2>2. s \in Slots
    BY DEF dir_find_free, FreeSlots
  <2>3. e \in Entry
    BY NewEntryTyped, VolumeAssumption
  <2>4. WithEntry(dir, s, e) \in [Slots -> Entry] /\ Bounded(WithEntry(dir, s, e))
    BY <2>2, <2>3, WithEntryTyped DEF TypeOK
  <2>5. fds \in [Slots -> Descriptor] /\ promised' \subseteq FileNames /\ written' = NoData
    BY <1>7 DEF TypeOK, fs_create
  <2> HIDE DEF e
  <2> QED BY <1>1, <2>1, <2>4, <2>5, FlushTyped DEF TypeOK
<1>8. ASSUME NEW n \in FileNames, NEW h \in Flushes, fs_delete(n, h) PROVE TypeInv'
  <2> DEFINE d(i) == [dir EXCEPT ![i] = Deleted]
  <2>1. PICK i \in dir_find(dir, n) : dir_write(d(i), h) /\ Settle(d(i), ClosedOn(i), h)
    BY <1>8 DEF fs_delete
  <2>2. i \in Slots
    BY DEF dir_find, Visible
  <2>3. d(i) \in [Slots -> Entry] /\ Bounded(d(i))
    BY <2>2, ZeroedTyped, UpdateTyped DEF TypeOK
  <2>4. ClosedOn(i) \in [Slots -> Descriptor]
    BY ZeroedTyped DEF TypeOK, ClosedOn
  <2>5. promised' \subseteq FileNames /\ written' = NoData
    BY <1>8 DEF TypeOK, fs_delete
  <2> HIDE DEF d
  <2> QED BY <1>1, <2>1, <2>3, <2>4, <2>5, FlushTyped DEF TypeOK
<1>9. ASSUME NEW h \in Flushes, fs_sync(h) PROVE TypeInv'
  BY <1>1, <1>9, FlushTyped DEF fs_sync, TypeOK
<1>10. CASE Crash
  BY <1>1, <1>10, ZeroedTyped DEF Crash, Settle, TypeOK, Bounded
<1>11. CASE UNCHANGED vars
  BY <1>11 DEF vars, TypeOK, Bounded
<1> QED
  BY <1>2, <1>3, <1>4, <1>5, <1>6, <1>7, <1>8, <1>9, <1>10, <1>11 DEF Next

\* Every variable keeps its type in every reachable state of kernel/fs.c, on
\* every volume and under every failure of a flush.
THEOREM TypeCorrect == Spec => []TypeOK
<1>1. TypeInv => TypeOK
  BY DEF TypeInv
<1> QED BY <1>1, TypeInvInit, TypeInvNext, PTL DEF Spec

-----------------------------------------------------------------------------
(* The directory invariant.                                                *)
(*                                                                         *)
(* Disjoint extents and unique names are preserved only because the        *)
(* directory keeps its shape: live and deleted entries first, then END in  *)
(* every slot to the last.  fs_create keeps the shape as long as the new   *)
(* entry does not take the last slot, which the pigeonhole principle gives *)
(* when there are fewer names than slots.                                  *)

\* Clients use fewer distinct names than the directory has slots.
NamesFit == Cardinality(FileNames) < MaxFiles

Live(d) == {i \in Slots : d[i].name \in FileNames}

Shape(d) ==
    /\ d[MaxFiles - 1].name = END
    /\ \A i, j \in Slots : i < j /\ d[i].name = END => d[j].name = END

Unique(d) == \A i, j \in Live(d) : d[i].name = d[j].name => i = j

Apart(d) ==
    \A i \in Live(d) :
        /\ d[i].start >= 1
        /\ \A j \in Live(d) \ {i} : \/ d[i].start + d[i].reserved <= d[j].start
                                    \/ d[j].start + d[j].reserved <= d[i].start

Sized(d) == \A i \in Live(d) : d[i].size <= d[i].reserved * BlockSize

Good(d) == Shape(d) /\ Unique(d) /\ Apart(d) /\ Sized(d)

\* An open descriptor of g describes a live entry of d, and no other does.
Coherent(d, g) ==
    \A f \in Slots : g[f].in_use =>
        /\ g[f].dir_index \in Live(d)
        /\ g[f].name = d[g[f].dir_index].name
        /\ g[f].start = d[g[f].dir_index].start
        /\ g[f].reserved = d[g[f].dir_index].reserved
        /\ g[f].size = d[g[f].dir_index].size
        /\ \A h \in Slots \ {f} : g[h].in_use => g[h].dir_index # g[f].dir_index

Holds(d, n) == \E i \in Live(d) : d[i].name = n

SafeInv ==
    ~torn => /\ Good(dir)
             /\ Good(disk)
             /\ Coherent(dir, fds)
             /\ \A n \in promised : Holds(disk, n) /\ (mounted => Holds(dir, n))

\* Within the shape no live entry is hidden behind an END.
LEMMA VisibleIsLive ==
    ASSUME NEW d, Shape(d)
    PROVE  Visible(d) = Live(d)
BY DirAssumption DEF Visible, Live, Shape, Slots

LEMMA ZeroedGood == Good([i \in Slots |-> Zeroed])
BY DirAssumption DEF Good, Shape, Unique, Apart, Sized, Live, Zeroed, Slots

LEMMA DivMonotone ==
    ASSUME NEW a \in Nat, NEW b \in Nat, a <= b, NEW k \in Nat \ {0}
    PROVE  a \div k \in Nat /\ a \div k <= b \div k
OBVIOUS

\* A flush of a directory that differs from the cached one in at most one
\* entry is atomic, unless it is torn while the device is behind: entries do
\* not straddle sectors.
LEMMA FlushAtomic ==
    ASSUME TypeInv, NEW how \in Flushes, NEW d \in [Slots -> Entry], NEW s \in Slots,
           \A i \in Slots \ {s} : d[i] = dir[i],
           dir_write(d, how), ~torn'
    PROVE  ~torn /\ disk' \in {disk, d} /\ (how = "ok" => disk' = d)
<1>1. CASE how = "ok"
  BY <1>1 DEF dir_write, TypeInv, TypeOK
<1>2. CASE how # "ok"
  <2>1. PICK S \in SUBSET Sectors : /\ disk' = Merge(d, S)
                                    /\ torn' = (torn \/ (disk # dir /\ S \notin {{}, Sectors}))
    BY <1>2 DEF dir_write
  <2>2. ~torn /\ (disk = dir \/ S = {} \/ S = Sectors)
    BY <2>1 DEF TypeInv, TypeOK
  <2>3. CASE S = {}
    BY <2>1, <2>2, <2>3, <1>2 DEF Merge, TypeInv, TypeOK
  <2>4. CASE S = Sectors
    <3>1. \A i \in Slots : i \div SlotsPerSector \in Sectors
      BY DivMonotone, DirAssumption, VolumeAssumption DEF Sectors, Slots
    <3> QED BY <2>1, <2>2, <2>4, <3>1, <1>2 DEF Merge
  <2>5. CASE disk = dir
    <3>1. CASE s \div SlotsPerSector \in S
      <4>1. Merge(d, S) = d
        BY <2>5, <3>1 DEF Merge, TypeInv, TypeOK
      <4> QED BY <2>1, <2>2, <4>1, <1>2
    <3>2. CASE s \div SlotsPerSector \notin S
      <4>1. Merge(d, S) = disk
        BY <2>5, <3>2 DEF Merge, TypeInv, TypeOK
      <4> QED BY <2>1, <2>2, <4>1, <1>2
    <3> QED BY <3>1, <3>2
  <2> QED BY <2>2, <2>3, <2>4, <2>5
<1> QED BY <1>1, <1>2

\* fs_create of a new name never takes the last slot.
LEMMA SlotBeforeLast ==
    ASSUME NamesFit, TypeInv, Good(dir), NEW n \in FileNames, ~Exists(dir, n),
           NEW s \in dir_find_free(dir)
    PROVE  s \in Slots /\ s < MaxFiles - 1
<1>1. s \in Slots /\ \A j \in FreeSlots(dir) : s <= j
  BY DEF dir_find_free, FreeSlots
<1> SUFFICES ASSUME s = MaxFiles - 1 PROVE FALSE
  BY <1>1, DirAssumption DEF Slots
<1> DEFINE f == [i \in Slots |-> IF i = s THEN n ELSE dir[i].name]
<1>2. \A i \in Slots : i # s => i \in Live(dir)
  <2> SUFFICES ASSUME NEW i \in Slots, i # s PROVE i \in Live(dir)
    OBVIOUS
  <2>1. i < s
    BY DirAssumption DEF Slots
  <2>2. i \notin FreeSlots(dir)
    BY <1>1, <2>1 DEF Slots
  <2> QED BY <2>2 DEF FreeSlots, Live, TypeInv, TypeOK, Entry
<1>3. f \in [Slots -> FileNames]
  BY <1>2 DEF Live
<1>4. IsFiniteSet(Slots) /\ Cardinality(Slots) = MaxFiles
  BY FS_Interval, DirAssumption DEF Slots
<1>5. IsFiniteSet(FileNames) /\ Cardinality(FileNames) < Cardinality(Slots)
  BY <1>4, DirAssumption DEF NamesFit
<1>6. PICK x \in Slots, y \in Slots : x # y /\ f[x] = f[y]
  <2> HIDE DEF f
  <2> QED BY <1>3, <1>4, <1>5, FS_PigeonHole
<1>7. \A i \in Live(dir) : dir[i].name # n
  BY VisibleIsLive DEF Good, Exists, dir_find
<1>8. CASE x = s
  BY <1>2, <1>6, <1>7, <1>8
<1>9. CASE y = s
  BY <1>2, <1>6, <1>7, <1>9
<1>10. CASE x # s /\ y # s
  BY <1>2, <1>6, <1>10 DEF Good, Unique
<1> QED BY <1>8, <1>9, <1>10

\* The directory fs_create builds is good: only the free slot changes, and the
\* new extent is one that find_free_blocks found unused.
LEMMA CreateGood ==
    ASSUME NamesFit, TypeInv, Good(dir), NEW n \in FileNames, ~Exists(dir, n),
           NEW s \in dir_find_free(dir), NEW count \in Nat, count >= 1,
           NEW e \in Entry,
           e = [name |-> n, start |-> find_free_blocks(dir, count), reserved |-> count, size |-> 0]
    PROVE  /\ WithEntry(dir, s, e) = [dir EXCEPT ![s] = e]
           /\ s \in Slots
           /\ dir[s].name \notin FileNames
           /\ Good(WithEntry(dir, s, e))
<1>1. s \in Slots /\ s < MaxFiles - 1
  BY SlotBeforeLast
<1>2. /\ dir[s].name \in {END, DELETED}
      /\ \A j \in Slots : j < s => dir[j].name \notin {END, DELETED}
  BY <1>1 DEF dir_find_free, FreeSlots, Slots
<1>3. HasEndAfter(dir, s)
  <2>1. MaxFiles - 1 \in s + 1 .. MaxFiles - 1
    BY <1>1, DirAssumption DEF Slots
  <2> QED BY <2>1 DEF HasEndAfter, Good, Shape
<1> DEFINE d == [dir EXCEPT ![s] = e]
<1>4. WithEntry(dir, s, e) = d
  BY <1>1, <1>3 DEF WithEntry, TypeInv, TypeOK
<1>5. dir[s].name \notin FileNames
  BY <1>2, DirAssumption
<1>6. d \in [Slots -> Entry] /\ d[s] = e /\ \A i \in Slots \ {s} : d[i] = dir[i]
  BY <1>1 DEF TypeInv, TypeOK
<1>7. Live(d) = Live(dir) \cup {s} /\ s \notin Live(dir)
  BY <1>1, <1>5, <1>6 DEF Live
<1> HIDE DEF d
<1>8. Shape(d)
  <2>1. MaxFiles - 1 \in Slots /\ MaxFiles - 1 # s
    BY <1>1, DirAssumption DEF Slots
  <2>2. d[MaxFiles - 1].name = END
    BY <1>6, <2>1 DEF Good, Shape
  <2>3. ASSUME NEW i \in Slots, NEW j \in Slots, i < j, d[i].name = END
        PROVE  d[j].name = END
    <3>1. i # s
      BY <1>6, <2>3, DirAssumption
    <3>2. dir[i].name = END
      BY <1>6, <2>3, <3>1
    <3>3. j # s
      BY <1>2, <2>3, <3>2
    <3> QED BY <1>6, <2>3, <3>2, <3>3 DEF Good, Shape
  <2> QED BY <2>2, <2>3 DEF Shape
<1>9. Unique(d)
  <2>1. \A i \in Live(dir) : dir[i].name # n
    BY VisibleIsLive DEF Good, Exists, dir_find
  <2>2. e.name = n
    OBVIOUS
  <2>3. \A i \in Live(dir) : i \in Slots \ {s}
    BY <1>7 DEF Live
  <2> QED BY <1>6, <1>7, <2>1, <2>2, <2>3 DEF Unique, Good
<1>10. Apart(d)
  <2>1. e.start \in Nat /\ e.start >= 1 /\ Fits(dir, e.start, count) /\ e.reserved = count
    BY AllocationFits DEF TypeInv, TypeOK
  <2>2. \A i \in Live(dir) : \/ dir[i].start >= e.start + e.reserved
                             \/ dir[i].start + dir[i].reserved <= e.start
    BY <2>1, VisibleIsLive DEF Fits, Good
  <2>3. \A i \in Live(dir) : i \in Slots \ {s} /\ d[i] = dir[i] /\ dir[i] \in Entry
    BY <1>6, <1>7 DEF Live, TypeInv, TypeOK
  <2> QED BY <1>6, <1>7, <2>1, <2>2, <2>3 DEF Apart, Good, Entry
<1>11. Sized(d)
  <2>1. \A i \in Live(dir) : i \in Slots \ {s} /\ d[i] = dir[i]
    BY <1>6, <1>7 DEF Live
  <2>2. e.size <= e.reserved * BlockSize
    BY VolumeAssumption
  <2> QED BY <1>6, <1>7, <2>1, <2>2 DEF Sized, Good
<1> QED BY <1>1, <1>4, <1>5, <1>8, <1>9, <1>10, <1>11 DEF Good, d

\* fs_delete leaves a good directory: the entry becomes a DELETED one.
LEMMA DeleteGood ==
    ASSUME TypeInv, Good(dir), NEW s \in Live(dir)
    PROVE  Good([dir EXCEPT ![s] = Deleted]) /\ Live([dir EXCEPT ![s] = Deleted]) = Live(dir) \ {s}
<1> DEFINE d == [dir EXCEPT ![s] = Deleted]
<1>1. s \in Slots /\ dir[s].name \in FileNames
  BY DEF Live
<1>2. d[s] = Deleted /\ \A i \in Slots \ {s} : d[i] = dir[i]
  BY <1>1 DEF TypeInv, TypeOK
<1>3. Deleted.name = DELETED
  BY Zenon DEF Deleted, Zeroed
<1>4. Live(d) = Live(dir) \ {s}
  BY <1>1, <1>2, <1>3, DirAssumption DEF Live
<1>5. s # MaxFiles - 1
  BY <1>1, DirAssumption DEF Good, Shape
<1> HIDE DEF d
<1>6. Shape(d)
  <2>1. MaxFiles - 1 \in Slots
    BY DirAssumption DEF Slots
  <2>2. d[MaxFiles - 1].name = END
    BY <1>2, <1>5, <2>1 DEF Good, Shape
  <2>3. ASSUME NEW i \in Slots, NEW j \in Slots, i < j, d[i].name = END
        PROVE  d[j].name = END
    <3>1. i # s /\ dir[i].name = END
      BY <1>2, <1>3, <2>3, DirAssumption
    <3>2. j # s
      BY <1>1, <2>3, <3>1, DirAssumption DEF Good, Shape
    <3> QED BY <1>2, <2>3, <3>1, <3>2 DEF Good, Shape
  <2> QED BY <2>2, <2>3 DEF Shape
<1>7. \A i \in Live(d) : i \in Live(dir) /\ d[i] = dir[i]
  BY <1>2, <1>4 DEF Live
<1>8. Unique(d) /\ Apart(d) /\ Sized(d)
  BY <1>4, <1>7 DEF Unique, Apart, Sized, Good
<1> QED BY <1>4, <1>6, <1>8 DEF Good, d

\* Growing a live file within its reserve leaves a good directory.
LEMMA GrowGood ==
    ASSUME TypeInv, Good(dir), NEW s \in Live(dir), NEW z \in Nat, z <= dir[s].reserved * BlockSize
    PROVE  LET d == [dir EXCEPT ![s].size = z]
           IN  /\ Good(d)
               /\ Live(d) = Live(dir)
               /\ \A i \in Slots : /\ d[i].name = dir[i].name
                                   /\ d[i].start = dir[i].start
                                   /\ d[i].reserved = dir[i].reserved
                                   /\ i # s => d[i] = dir[i]
               /\ d[s].size = z
<1> DEFINE d == [dir EXCEPT ![s].size = z]
<1>1. s \in Slots
  BY DEF Live
<1>2. \A i \in Slots : /\ d[i].name = dir[i].name
                       /\ d[i].start = dir[i].start
                       /\ d[i].reserved = dir[i].reserved
                       /\ i # s => d[i] = dir[i]
  BY <1>1 DEF TypeInv, TypeOK, Entry
<1>3. d[s].size = z
  BY <1>1 DEF TypeInv, TypeOK, Entry
<1> HIDE DEF d
<1>4. Live(d) = Live(dir)
  BY <1>2 DEF Live
<1>5. Shape(d)
  <2>1. MaxFiles - 1 \in Slots
    BY DirAssumption DEF Slots
  <2> QED BY <1>2, <2>1 DEF Shape, Good
<1>6. Unique(d)
  BY <1>2, <1>4 DEF Unique, Good, Live
<1>7. Apart(d)
  BY <1>2, <1>4 DEF Apart, Good, Live
<1>8. Sized(d)
  BY <1>2, <1>3, <1>4 DEF Sized, Good, Live
<1> QED BY <1>2, <1>3, <1>4, <1>5, <1>6, <1>7, <1>8 DEF Good, d

\* The part of every modifying call that all of them share: flush directory d,
\* which differs from dir in slot s at most, and keep d and descriptors g.
LEMMA FlushSafe ==
    ASSUME TypeInv, SafeInv, NEW how \in Flushes, NEW d \in [Slots -> Entry], NEW g, NEW s \in Slots,
           \A i \in Slots \ {s} : d[i] = dir[i],
           dir_write(d, how), Settle(d, g, how),
           ~torn => Good(d) /\ Coherent(d, g),
           ~torn => \A n \in promised' : Holds(d, n) /\ (how # "ok" => Holds(disk, n))
    PROVE  SafeInv'
<1> SUFFICES ASSUME ~torn'
             PROVE  /\ Good(dir')
                    /\ Good(disk')
                    /\ Coherent(dir', fds')
                    /\ \A n \in promised' : Holds(disk', n) /\ (mounted' => Holds(dir', n))
  BY DEF SafeInv
<1>1. ~torn /\ disk' \in {disk, d} /\ (how = "ok" => disk' = d)
  BY FlushAtomic
<1>2. Good(d) /\ Coherent(d, g) /\ Good(disk)
  BY <1>1 DEF SafeInv
<1>3. Good(disk') /\ \A n \in promised' : Holds(disk', n)
  BY <1>1, <1>2
<1>4. CASE how = "crash"
  <2>1. dir' = [i \in Slots |-> Zeroed] /\ fds' = [i \in Slots |-> Closed] /\ mounted' = FALSE
    BY <1>4 DEF Settle
  <2>2. Good(dir')
    BY <2>1, ZeroedGood
  <2>3. Coherent(dir', fds')
    BY <2>1 DEF Coherent, Closed
  <2> QED BY <1>3, <2>1, <2>2, <2>3
<1>5. CASE how # "crash"
  <2>1. dir' = d /\ fds' = g
    BY <1>5 DEF Settle
  <2> QED BY <1>1, <1>2, <1>3, <2>1
<1> QED BY <1>4, <1>5

LEMMA SafeInvInit == Init => SafeInv
<1> SUFFICES ASSUME Init PROVE SafeInv
  OBVIOUS
<1>1. Good(dir) /\ Good(disk)
  BY ZeroedGood DEF Init
<1>2. Coherent(dir, fds)
  BY DEF Init, Coherent, Closed
<1> QED BY <1>1, <1>2 DEF Init, SafeInv

\* Every step keeps the invariant: one step of the proof per call.
LEMMA SafeInvNext ==
    ASSUME NamesFit
    PROVE  TypeInv /\ SafeInv /\ [Next]_vars => SafeInv'
<1> SUFFICES ASSUME TypeInv, SafeInv, [Next]_vars PROVE SafeInv'
  OBVIOUS
<1>1. CASE UNCHANGED vars
  BY <1>1 DEF vars, SafeInv
<1>2. CASE fs_init
  <2>1. disk' = disk /\ promised' = promised /\ torn' = torn /\ fds' = [i \in Slots |-> Closed]
    BY <1>2 DEF fs_init
  <2>2. Coherent(dir', fds')
    BY <2>1 DEF Coherent, Closed
  <2>3. torn \/ Good(dir')
    BY <1>2, ZeroedGood DEF fs_init, SafeInv
  <2>4. ~torn /\ mounted' => \A n \in promised : Holds(dir', n)
    BY <1>2 DEF fs_init, SafeInv
  <2> QED BY <2>1, <2>2, <2>3, <2>4 DEF SafeInv
<1>3. ASSUME NEW n \in FileNames, fs_open(n)
      PROVE  SafeInv'
  <2>1. PICK i \in dir_find(dir, n), f \in Slots :
           /\ ~AlreadyOpen(i)
           /\ fds' = [fds EXCEPT ![f] = [in_use |-> TRUE, dir_index |-> i, name |-> dir[i].name,
                                         start |-> dir[i].start, reserved |-> dir[i].reserved,
                                         size |-> dir[i].size]]
    BY <1>3 DEF fs_open
  <2>2. UNCHANGED <<dir, disk, mounted, promised, torn>>
    BY <1>3 DEF fs_open
  <2>3. i \in Live(dir)
    BY DEF dir_find, Visible, Live
  <2>4. ASSUME ~torn PROVE Coherent(dir, fds')
    <3>1. Coherent(dir, fds)
      BY <2>4 DEF SafeInv
    <3>2. fds'[f] = [in_use |-> TRUE, dir_index |-> i, name |-> dir[i].name,
                     start |-> dir[i].start, reserved |-> dir[i].reserved,
                     size |-> dir[i].size]
      BY <2>1 DEF TypeInv, TypeOK
    <3>3. \A h \in Slots \ {f} : fds'[h] = fds[h]
      BY <2>1 DEF TypeInv, TypeOK
    <3> QED BY <2>1, <2>3, <3>1, <3>2, <3>3 DEF Coherent, AlreadyOpen
  <2> QED BY <2>2, <2>4 DEF SafeInv
<1>4. ASSUME NEW f \in Slots, fs_close(f)
      PROVE  SafeInv'
  <2>1. UNCHANGED <<dir, disk, mounted, promised, torn>> /\ fds' = [fds EXCEPT ![f] = Closed]
    BY <1>4 DEF fs_close
  <2>2. ~fds'[f].in_use /\ \A h \in Slots \ {f} : fds'[h] = fds[h]
    BY <2>1 DEF TypeInv, TypeOK, Closed
  <2>3. ASSUME ~torn PROVE Coherent(dir, fds')
    BY <2>2, <2>3 DEF SafeInv, Coherent
  <2> QED BY <2>1, <2>3 DEF SafeInv
<1>5. ASSUME NEW f \in Slots, NEW r \in WriteRanges, NEW h \in Flushes, fs_write(f, r[1], r[2], h)
      PROVE  SafeInv'
  <2> DEFINE z == r[1] + r[2]
             i == fds[f].dir_index
             d == [dir EXCEPT ![i].size = z]
             g == [fds EXCEPT ![f].size = z]
  <2>1. z \in Nat /\ i \in Slots
    BY VolumeAssumption DEF TypeInv, TypeOK, Descriptor
  <2>2. fds[f].in_use /\ z <= fds[f].reserved * BlockSize /\ promised' = promised /\ mounted
    BY <1>5 DEF fs_write, CanWrite
  <2>3. CASE ~(z > fds[f].size)
    <3>1. UNCHANGED <<dir, disk, fds, mounted, torn, promised>>
      BY <1>5, <2>3 DEF fs_write
    <3> QED BY <3>1 DEF SafeInv
  <2>4. CASE z > fds[f].size
    <3>1. dir_write(d, h) /\ Settle(d, g, h)
      BY <1>5, <2>4 DEF fs_write
    <3>2. d \in [Slots -> Entry]
      BY <2>1 DEF TypeInv, TypeOK, Entry
    <3>3. \A j \in Slots \ {i} : d[j] = dir[j]
      BY DEF TypeInv, TypeOK
    <3>4. ASSUME ~torn
          PROVE  Good(d) /\ Coherent(d, g) /\ \A n \in promised : Holds(d, n) /\ Holds(disk, n)
      <4>1. Good(dir) /\ Coherent(dir, fds)
        BY <3>4 DEF SafeInv
      <4>2. i \in Live(dir) /\ z <= dir[i].reserved * BlockSize
        BY <2>2, <4>1 DEF Coherent
      <4>3. /\ Good(d)
            /\ Live(d) = Live(dir)
            /\ \A j \in Slots : /\ d[j].name = dir[j].name
                                /\ d[j].start = dir[j].start
                                /\ d[j].reserved = dir[j].reserved
                                /\ j # i => d[j] = dir[j]
            /\ d[i].size = z
        BY <2>1, <4>1, <4>2, GrowGood
      <4>4. /\ g[f].size = z
            /\ \A k \in Slots \ {f} : g[k] = fds[k]
            /\ \A k \in Slots : /\ g[k].in_use = fds[k].in_use
                                /\ g[k].dir_index = fds[k].dir_index
                                /\ g[k].name = fds[k].name
                                /\ g[k].start = fds[k].start
                                /\ g[k].reserved = fds[k].reserved
        BY DEF TypeInv, TypeOK, Descriptor
      <4>5. \A k \in Slots : fds[k].dir_index \in Slots
        BY DEF TypeInv, TypeOK, Descriptor
      <4> HIDE DEF d, g
      <4>6. Coherent(d, g)
        BY <2>2, <4>1, <4>3, <4>4, <4>5 DEF Coherent
      <4>7. \A n \in promised : Holds(d, n) /\ Holds(disk, n)
        BY <2>2, <3>4, <4>3 DEF SafeInv, Holds, Live
      <4> QED BY <4>3, <4>6, <4>7
    <3> HIDE DEF d, g, i
    <3> QED BY <2>1, <2>2, <3>1, <3>2, <3>3, <3>4, FlushSafe
  <2> QED BY <2>3, <2>4
<1>6. ASSUME NEW f \in Slots, NEW r \in WriteRanges, NEW h \in Flushes,
             fs_write_cut_short(f, r[1], r[2], h)
      PROVE  SafeInv'
  <2>1. UNCHANGED <<disk, promised, torn>> /\ Settle(dir, fds, h)
    BY <1>6 DEF fs_write_cut_short
  <2>2. CASE h = "crash"
    <3>1. dir' = [i \in Slots |-> Zeroed] /\ fds' = [i \in Slots |-> Closed] /\ mounted' = FALSE
      BY <2>1, <2>2 DEF Settle
    <3>2. Good(dir') /\ Coherent(dir', fds')
      BY <3>1, ZeroedGood DEF Coherent, Closed
    <3> QED BY <2>1, <3>1, <3>2 DEF SafeInv
  <2>3. CASE h # "crash"
    BY <2>1, <2>3 DEF Settle, SafeInv
  <2> QED BY <2>2, <2>3
<1>7. ASSUME NEW n \in FileNames, NEW k \in Reserves, NEW h \in Flushes, fs_create(n, k, h)
      PROVE  SafeInv'
  <2> DEFINE count == IF k = 0 THEN 1 ELSE k
             e == [name |-> n, start |-> find_free_blocks(dir, count), reserved |-> count, size |-> 0]
  <2>1. mounted /\ ~Exists(dir, n) /\ promised' = IF h = "ok" THEN promised \cup {n} ELSE promised
    BY <1>7 DEF fs_create
  <2>2. PICK s \in dir_find_free(dir) : dir_write(WithEntry(dir, s, e), h)
                                        /\ Settle(WithEntry(dir, s, e), fds, h)
    BY <1>7 DEF fs_create
  <2>3. count \in Nat /\ count >= 1
    BY VolumeAssumption
  <2>4. e \in Entry
    <3>1. find_free_blocks(dir, count) \in Nat
      BY <2>3, AllocationFits DEF TypeInv, TypeOK
    <3> QED BY <2>3, <3>1 DEF Entry
  <2>5. e.name = n /\ s \in Slots
    BY DEF dir_find_free, FreeSlots
  <2> DEFINE d == WithEntry(dir, s, e)
  <2>6. d \in [Slots -> Entry]
    BY <2>4, <2>5, WithEntryTyped DEF TypeInv, TypeOK
  <2>7. CASE torn
    BY <2>2, <2>7 DEF dir_write, SafeInv, TypeInv, TypeOK
  <2>8. CASE ~torn
    <3>1. Good(dir) /\ Good(disk) /\ Coherent(dir, fds)
      BY <2>8 DEF SafeInv
    <3>2. /\ d = [dir EXCEPT ![s] = e]
          /\ dir[s].name \notin FileNames
          /\ Good(d)
      <4> HIDE DEF count
      <4> QED BY <2>1, <2>3, <2>4, <3>1, CreateGood
    <3>3. d[s] = e /\ \A i \in Slots \ {s} : d[i] = dir[i]
      BY <2>5, <3>2 DEF TypeInv, TypeOK
    <3> HIDE DEF d, e
    <3>4. Live(d) = Live(dir) \cup {s} /\ s \notin Live(dir)
      BY <2>5, <3>2, <3>3 DEF Live
    <3>5. Coherent(d, fds)
      <4>1. \A i \in Live(dir) : d[i] = dir[i]
        BY <3>3, <3>4 DEF Live
      <4> QED BY <3>1, <3>4, <4>1 DEF Coherent
    <3>6. \A m \in promised' : Holds(d, m) /\ (h # "ok" => Holds(disk, m))
      <4>1. Holds(d, n)
        BY <2>5, <3>3, <3>4 DEF Holds
      <4>2. \A m \in promised : Holds(d, m) /\ Holds(disk, m)
        <5>1. \A i \in Live(dir) : i \in Live(d) /\ d[i] = dir[i]
          BY <3>3, <3>4 DEF Live
        <5> QED BY <2>1, <2>8, <5>1 DEF Holds, SafeInv
      <4> QED BY <2>1, <4>1, <4>2
    <3>7. dir_write(d, h) /\ Settle(d, fds, h)
      BY <2>2 DEF d
    <3> QED BY <2>5, <2>6, <3>2, <3>3, <3>5, <3>6, <3>7, FlushSafe
  <2> QED BY <2>7, <2>8
<1>8. ASSUME NEW n \in FileNames, NEW h \in Flushes, fs_delete(n, h)
      PROVE  SafeInv'
  <2>1. PICK s \in dir_find(dir, n) :
          LET d == [dir EXCEPT ![s] = Deleted]
          IN  dir_write(d, h) /\ Settle(d, ClosedOn(s), h)
    BY <1>8 DEF fs_delete
  <2>2. mounted /\ promised' = promised \ {n}
    BY <1>8 DEF fs_delete
  <2> DEFINE d == [dir EXCEPT ![s] = Deleted]
             closed == ClosedOn(s)
  <2>3. dir_write(d, h) /\ Settle(d, closed, h)
    BY <2>1
  <2>4. s \in Live(dir) /\ s \in Slots /\ dir[s].name = n
    BY DEF dir_find, Visible, Live
  <2>5. d \in [Slots -> Entry] /\ \A i \in Slots \ {s} : d[i] = dir[i]
    BY DEF TypeInv, TypeOK, Entry, Deleted, Zeroed
  <2>6. ASSUME ~torn
        PROVE  Good(d) /\ Coherent(d, closed) /\ \A m \in promised' : Holds(d, m) /\ Holds(disk, m)
    <3>1. Good(dir) /\ Coherent(dir, fds)
      BY <2>6 DEF SafeInv
    <3>2. Good(d) /\ Live(d) = Live(dir) \ {s}
      BY <2>4, <3>1, DeleteGood
    <3>3. \A f \in Slots : closed[f].in_use => closed[f] = fds[f] /\ fds[f].in_use /\ fds[f].dir_index # s
      BY DEF ClosedOn, Closed
    <3> HIDE DEF d, closed
    <3>4. \A i \in Live(d) : d[i] = dir[i]
      BY <2>5, <3>2 DEF Live
    <3>5. Coherent(d, closed)
      BY <3>1, <3>2, <3>3, <3>4 DEF Coherent
    <3>6. \A m \in promised' : Holds(d, m) /\ Holds(disk, m)
      BY <2>2, <2>4, <2>6, <3>2, <3>4 DEF Holds, SafeInv
    <3> QED BY <3>2, <3>5, <3>6
  <2> HIDE DEF d, closed
  <2> QED BY <2>3, <2>4, <2>5, <2>6, FlushSafe
<1>9. ASSUME NEW h \in Flushes, fs_sync(h)
      PROVE  SafeInv'
  <2>1. dir_write(dir, h) /\ Settle(dir, fds, h) /\ mounted /\ promised' = promised
    BY <1>9 DEF fs_sync
  <2>2. dir \in [Slots -> Entry] /\ 0 \in Slots
    BY DirAssumption DEF TypeInv, TypeOK, Slots
  <2>3. ~torn => Good(dir) /\ Coherent(dir, fds) /\ \A m \in promised' : Holds(dir, m) /\ Holds(disk, m)
    BY <2>1 DEF SafeInv
  <2> QED BY <2>1, <2>2, <2>3, FlushSafe
<1>10. CASE Crash
  <2>1. /\ UNCHANGED <<disk, promised, torn>>
        /\ dir' = [i \in Slots |-> Zeroed] /\ fds' = [i \in Slots |-> Closed] /\ mounted' = FALSE
    BY <1>10 DEF Crash, Settle
  <2>2. Good(dir') /\ Coherent(dir', fds')
    BY <2>1, ZeroedGood DEF Coherent, Closed
  <2> QED BY <2>1, <2>2 DEF SafeInv
<1> QED BY <1>1, <1>2, <1>3, <1>4, <1>5, <1>6, <1>7, <1>8, <1>9, <1>10 DEF Next

\* The inductive invariant holds throughout.
THEOREM SafeInvariant == NamesFit => (Spec => [](TypeInv /\ SafeInv))
<1> SUFFICES ASSUME NamesFit PROVE Spec => [](TypeInv /\ SafeInv)
  OBVIOUS
<1>1. Init => TypeInv /\ SafeInv
  BY TypeInvInit, SafeInvInit
<1>2. TypeInv /\ SafeInv /\ [Next]_vars => (TypeInv /\ SafeInv)'
  BY TypeInvNext, SafeInvNext
<1> QED BY <1>1, <1>2, PTL DEF Spec

LEMMA SafeInvImplies ==
    ASSUME TypeInv, SafeInv
    PROVE  ExtentsDisjoint /\ NamesUnique /\ DescriptorsCoherent /\ FilesSurvive /\ SizeWithinReserve
<1>1. CASE torn
  BY <1>1 DEF ExtentsDisjoint, NamesUnique, DescriptorsCoherent, FilesSurvive, SizeWithinReserve
<1>2. CASE ~torn
  <2>1. Good(dir) /\ Good(disk) /\ Coherent(dir, fds)
    BY <1>2 DEF SafeInv
  <2>2. Visible(dir) = Live(dir) /\ Visible(disk) = Live(disk)
    BY <2>1, VisibleIsLive DEF Good
  <2>3. ExtentsDisjoint
    BY <2>1, <2>2 DEF ExtentsDisjoint, Disjoint, Good, Apart
  <2>4. NamesUnique
    BY <2>1, <2>2 DEF NamesUnique, Good, Unique
  <2>5. DescriptorsCoherent
    BY <2>1, <2>2 DEF DescriptorsCoherent, Coherent
  <2>6. FilesSurvive
    BY <1>2, <2>2 DEF FilesSurvive, SafeInv, Holds, Exists, dir_find
  <2>7. SizeWithinReserve
    BY <2>1, <2>2 DEF SizeWithinReserve, Good, Sized
  <2> QED BY <2>3, <2>4, <2>5, <2>6, <2>7
<1> QED BY <1>1, <1>2

\* First-fit allocation never hands out a block twice, through failed flushes
\* and crashes.
THEOREM ExtentsStayDisjoint == NamesFit => (Spec => []ExtentsDisjoint)
BY SafeInvariant, SafeInvImplies, PTL

\* fs_create keeps names unique, in memory and on disk.
THEOREM NamesStayUnique == NamesFit => (Spec => []NamesUnique)
BY SafeInvariant, SafeInvImplies, PTL

\* What fs_open caches in a descriptor never goes stale.
THEOREM DescriptorsStayCoherent == NamesFit => (Spec => []DescriptorsCoherent)
BY SafeInvariant, SafeInvImplies, PTL

\* A created file stays until it is deleted, across crashes and remounts.
THEOREM CreatedFilesSurvive == NamesFit => (Spec => []FilesSurvive)
BY SafeInvariant, SafeInvImplies, PTL

\* The size of a file never exceeds its reserve.
THEOREM SizesStayWithinReserve == NamesFit => (Spec => []SizeWithinReserve)
BY SafeInvariant, SafeInvImplies, PTL

LEMMA DivBelow ==
    ASSUME NEW x \in Nat, NEW r \in Nat, NEW b \in Nat \ {0}, x < r * b
    PROVE  x \div b \in Nat /\ x \div b < r
<1>1. x \div b \in Nat /\ b * (x \div b) <= x
  OBVIOUS
<1> DEFINE q == x \div b
<1>2. q \in Nat /\ b * q <= x
  BY <1>1
<1> HIDE DEF q
<1>3. ASSUME q >= r PROVE FALSE
  <2>1. b * q >= b * r
    BY <1>2, <1>3
  <2> QED BY <1>2, <2>1
<1> QED BY <1>2, <1>3 DEF q

\* The blocks of a permitted write lie in the extent its descriptor caches.
LEMMA TouchedInExtent ==
    ASSUME TypeInv, NEW f \in Slots, NEW o \in Nat, NEW z \in Nat \ {0},
           o + z <= fds[f].reserved * BlockSize
    PROVE  Touched(f, o, z) \subseteq BlocksOf(fds[f])
<1>1. fds[f].start \in Nat /\ fds[f].reserved \in Nat
  BY DEF TypeInv, TypeOK, Descriptor
<1>2. o + z - 1 \in Nat /\ o + z - 1 < fds[f].reserved * BlockSize
  BY <1>1, VolumeAssumption
<1>3. (o + z - 1) \div BlockSize \in Nat /\ (o + z - 1) \div BlockSize < fds[f].reserved
  BY <1>1, <1>2, DivBelow, VolumeAssumption
<1>4. o \div BlockSize \in Nat
  BY VolumeAssumption
<1> QED BY <1>1, <1>3, <1>4 DEF Touched, BlocksOf

LEMMA WriteConfined ==
    ASSUME TypeInv, SafeInv, ~torn, NEW f \in Slots, NEW o \in Nat, NEW z \in Nat \ {0},
           CanWrite(f, o, z), NEW b \in Touched(f, o, z), NEW i \in Visible(dir),
           b \in BlocksOf(dir[i])
    PROVE  dir[i].name = fds[f].name
<1>1. Good(dir) /\ Coherent(dir, fds)
  BY DEF SafeInv
<1> DEFINE k == fds[f].dir_index
<1>2. fds[f].in_use /\ b \in BlocksOf(fds[f])
  BY TouchedInExtent DEF CanWrite
<1>3. k \in Live(dir) /\ fds[f].name = dir[k].name /\ b \in BlocksOf(dir[k])
  BY <1>1, <1>2 DEF Coherent, BlocksOf
<1>4. i \in Live(dir)
  BY DEF Visible, Live
<1>5. dir[i] \in Entry /\ dir[k] \in Entry
  BY <1>3, <1>4 DEF TypeInv, TypeOK, Live
<1> HIDE DEF k
<1>6. i = k
  BY <1>1, <1>3, <1>4, <1>5 DEF Good, Apart, BlocksOf, Entry
<1> QED BY <1>3, <1>6

\* An fs_write stays within the file of its descriptor.
THEOREM WritesConfined == NamesFit => (Spec => WritesStayInFile)
<1> SUFFICES ASSUME NamesFit PROVE Spec => WritesStayInFile
  OBVIOUS
<1> DEFINE Act == ~torn => \A b \in written'.blocks : \A i \in Visible(dir) :
                              b \in BlocksOf(dir[i]) => dir[i].name = written'.name
<1>1. TypeInv /\ SafeInv /\ [Next]_vars => [Act]_vars
  <2> SUFFICES ASSUME TypeInv, SafeInv, Next, ~torn,
                      NEW b \in written'.blocks, NEW i \in Visible(dir), b \in BlocksOf(dir[i])
               PROVE  dir[i].name = written'.name
    OBVIOUS
  <2>1. written' # NoData
    BY DEF NoData
  <2>2. ASSUME NEW f \in Slots, NEW r \in WriteRanges, NEW h \in Flushes,
               fs_write(f, r[1], r[2], h)
        PROVE  dir[i].name = written'.name
    <3>1. CanWrite(f, r[1], r[2]) /\ written' = [name |-> fds[f].name, blocks |-> Touched(f, r[1], r[2])]
      BY <2>2 DEF fs_write, Writes
    <3>2. r[1] \in Nat /\ r[2] \in Nat \ {0}
      BY VolumeAssumption
    <3>3. b \in Touched(f, r[1], r[2])
      BY <3>1
    <3> QED BY <3>1, <3>2, <3>3, WriteConfined
  <2>3. ASSUME NEW f \in Slots, NEW r \in WriteRanges, NEW h \in Flushes,
               fs_write_cut_short(f, r[1], r[2], h)
        PROVE  dir[i].name = written'.name
    <3>1. CanWrite(f, r[1], r[2])
      BY <2>3 DEF fs_write_cut_short
    <3>2. PICK n \in 0 .. r[2] : written' = [name |-> fds[f].name,
                                             blocks |-> IF n = 0 THEN {} ELSE Touched(f, r[1], n)]
      BY <2>3 DEF fs_write_cut_short, Writes
    <3>3. r[1] \in Nat /\ r[2] \in Nat \ {0} /\ n \in Nat \ {0}
      BY <3>2, VolumeAssumption
    <3>4. b \in Touched(f, r[1], n)
      BY <3>2, <3>3
    <3>5. CanWrite(f, r[1], n)
      BY <3>1, <3>3, VolumeAssumption DEF CanWrite, TypeInv, TypeOK, Descriptor
    <3> QED BY <3>2, <3>3, <3>4, <3>5, WriteConfined
  <2> QED BY <2>1, <2>2, <2>3 DEF Next, fs_init, fs_open, fs_close, fs_create, fs_delete, fs_sync, Crash
<1> QED BY <1>1, SafeInvariant, PTL DEF Spec, WritesStayInFile

\* fs_open always finds a free descriptor for a file that is not open: open
\* descriptors point to distinct entries, and there is one per entry.
THEOREM DescriptorsSuffice == NamesFit => (Spec => []DescriptorAvailable)
<1> SUFFICES ASSUME NamesFit PROVE Spec => []DescriptorAvailable
  OBVIOUS
<1>1. TypeInv /\ SafeInv => DescriptorAvailable
  <2> SUFFICES ASSUME TypeInv, SafeInv, ~torn, NEW i \in Visible(dir),
                      \A f \in Slots : fds[f].in_use /\ fds[f].dir_index # i
               PROVE  FALSE
    BY DEF DescriptorAvailable
  <2>1. i \in Slots
    BY DEF Visible
  <2>2. IsFiniteSet(Slots) /\ Cardinality(Slots) = MaxFiles
    BY FS_Interval, DirAssumption DEF Slots
  <2>3. IsFiniteSet(Slots \ {i}) /\ Cardinality(Slots \ {i}) = MaxFiles - 1
    BY <2>1, <2>2, FS_RemoveElement
  <2> DEFINE where == [f \in Slots |-> fds[f].dir_index]
  <2>4. where \in [Slots -> Slots \ {i}]
    BY DEF TypeInv, TypeOK, Descriptor
  <2>5. Cardinality(Slots \ {i}) < Cardinality(Slots)
    BY <2>2, <2>3, DirAssumption
  <2>6. PICK f, g \in Slots : f # g /\ where[f] = where[g]
    <3> HIDE DEF where
    <3> QED BY <2>2, <2>3, <2>4, <2>5, FS_PigeonHole
  <2> QED BY <2>6 DEF SafeInv, Coherent
<1> QED BY <1>1, SafeInvariant, PTL
=============================================================================
