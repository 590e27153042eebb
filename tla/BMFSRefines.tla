----------------------------- MODULE BMFSRefines -----------------------------
(***************************************************************************)
(* Proof that the file system (BMFS) implements the abstract store         *)
(* (FileStore), from the inductive invariant of BMFSProofs.                *)
(***************************************************************************)
EXTENDS BMFSProofs

Files(d) == {d[i] : i \in Visible(d)}

LEMMA FilesOfZeroed == Files([i \in Slots |-> Zeroed]) = {}
BY DirAssumption DEF Files, Visible, Zeroed, Slots

\* A flush that is not torn is an abstract commit.
LEMMA FlushCommits ==
    ASSUME TypeInv, TypeInv', NEW how \in Flushes, NEW d \in [Slots -> Entry], NEW g, NEW s \in Slots,
           \A i \in Slots \ {s} : d[i] = dir[i],
           dir_write(d, how), Settle(d, g, how), ~torn'
    PROVE  /\ Files(disk') \in {Files(disk), Files(d)}
           /\ \/ Files(dir') = Files(d) /\ mounted' = mounted
              \/ Files(dir') = {} /\ mounted' = FALSE
           /\ ~torn /\ torn' = torn
<1>1. ~torn /\ disk' \in {disk, d}
  BY FlushAtomic
<1>2. torn' = torn
  BY <1>1 DEF TypeInv, TypeOK
<1>3. \/ Files(dir') = Files(d) /\ mounted' = mounted
      \/ Files(dir') = {} /\ mounted' = FALSE
  BY FilesOfZeroed DEF Settle
<1>4. Files(disk') \in {Files(disk), Files(d)}
  BY <1>1
<1> QED BY <1>1, <1>2, <1>3, <1>4

LEMMA RefinesInit == Init => Store!Init
BY FilesOfZeroed DEF Init, Store!Init, Files

LEMMA RefinesNext ==
    ASSUME NamesFit, TypeInv, TypeInv', SafeInv, [Next]_vars, ~torn'
    PROVE  Store!Next \/ UNCHANGED Store!vars
<1>1. CASE UNCHANGED vars
  BY <1>1 DEF vars, Store!vars
<1>2. CASE fs_init
  BY <1>2, FilesOfZeroed DEF fs_init, Store!Next, Store!Mount, Files
<1>3. ASSUME NEW n \in FileNames, fs_open(n)
      PROVE  UNCHANGED Store!vars
  BY <1>3 DEF fs_open, Store!vars
<1>4. ASSUME NEW f \in Slots, fs_close(f)
      PROVE  UNCHANGED Store!vars
  BY <1>4 DEF fs_close, Store!vars
<1>5. ASSUME NEW f \in Slots, NEW r \in WriteRanges, NEW h \in Flushes, fs_write(f, r[1], r[2], h)
      PROVE  Store!Next \/ UNCHANGED Store!vars
  <2> DEFINE z == r[1] + r[2]
             i == fds[f].dir_index
             d == [dir EXCEPT ![i].size = z]
             g == [fds EXCEPT ![f].size = z]
  <2>1. z \in Nat /\ i \in Slots
    BY VolumeAssumption DEF TypeInv, TypeOK, Descriptor
  <2>2. fds[f].in_use /\ z <= fds[f].reserved * BlockSize /\ mounted
    BY <1>5 DEF fs_write, CanWrite
  <2>3. CASE ~(z > fds[f].size)
    BY <1>5, <2>3 DEF fs_write, Store!vars
  <2>4. CASE z > fds[f].size
    <3>1. dir_write(d, h) /\ Settle(d, g, h)
      BY <1>5, <2>4 DEF fs_write
    <3>2. d \in [Slots -> Entry] /\ \A j \in Slots \ {i} : d[j] = dir[j]
      BY <2>1 DEF TypeInv, TypeOK, Entry
    <3>3. /\ Files(disk') \in {Files(disk), Files(d)}
          /\ \/ Files(dir') = Files(d) /\ mounted' = mounted
             \/ Files(dir') = {} /\ mounted' = FALSE
          /\ torn' = torn /\ ~torn
      <4> HIDE DEF d, g, i
      <4> QED BY <2>1, <3>1, <3>2, FlushCommits
    <3>4. Good(dir) /\ Coherent(dir, fds)
      BY <3>3 DEF SafeInv
    <3>5. i \in Live(dir) /\ fds[f].reserved = dir[i].reserved /\ fds[f].size = dir[i].size
      BY <2>2, <3>4 DEF Coherent
    <3>6. Good(d) /\ Live(d) = Live(dir)
      BY <2>1, <2>2, <3>4, <3>5, GrowGood
    <3>7. Visible(dir) = Live(dir) /\ Visible(d) = Live(dir)
      BY <3>4, <3>6, VisibleIsLive DEF Good
    <3>8. dir[i] \in Entry /\ d[i] = [dir[i] EXCEPT !.size = z] /\ d[i].size = z
      BY <2>1 DEF TypeInv, TypeOK, Entry
    <3>9. \A j \in Live(dir) \ {i} : dir[j] # dir[i]
      BY <3>4, <3>5 DEF Good, Unique
    <3> HIDE DEF d, z, i
    <3>10. Files(d) = (Files(dir) \ {dir[i]}) \cup {d[i]}
      <4>1. Files(d) = {d[j] : j \in Live(dir)} /\ Files(dir) = {dir[j] : j \in Live(dir)}
        BY <3>7 DEF Files
      <4>2. \A j \in Live(dir) \ {i} : d[j] = dir[j]
        BY <3>2 DEF Live
      <4> QED BY <3>5, <3>9, <4>1, <4>2
    <3>11. dir[i] \in Files(dir) /\ d[i] \in Files(d)
      BY <3>5, <3>7 DEF Files
    <3>12. Store!Grow(dir[i], d[i])
      BY <2>2, <2>4, <3>3, <3>5, <3>8, <3>10 DEF Store!Grow, Store!Commit, Files
    <3>13. Store!Sync \/ d[i] \in Files(dir') \cup Files(disk')
      BY <3>3, <3>11 DEF Store!Sync, Store!Commit, Files
    <3> QED BY <3>11, <3>12, <3>13 DEF Store!Next, Store!Grow, Store!Commit, Files
  <2> QED BY <2>3, <2>4
<1>6. ASSUME NEW f \in Slots, NEW r \in WriteRanges, NEW h \in Flushes,
             fs_write_cut_short(f, r[1], r[2], h)
      PROVE  Store!Next \/ UNCHANGED Store!vars
  <2>1. Settle(dir, fds, h) /\ disk' = disk /\ torn' = torn
    BY <1>6 DEF fs_write_cut_short
  <2>2. \/ Files(dir') = Files(dir) /\ mounted' = mounted
        \/ Files(dir') = {} /\ mounted' = FALSE
    BY <2>1, FilesOfZeroed DEF Settle
  <2> QED BY <2>1, <2>2 DEF Store!Next, Store!Sync, Store!Commit, Files
<1>7. ASSUME NEW n \in FileNames, NEW k \in Reserves, NEW h \in Flushes, fs_create(n, k, h)
      PROVE  Store!Next
  <2> DEFINE count == IF k = 0 THEN 1 ELSE k
             e == [name |-> n, start |-> find_free_blocks(dir, count), reserved |-> count, size |-> 0]
  <2>1. mounted /\ ~Exists(dir, n)
    BY <1>7 DEF fs_create
  <2>2. PICK s \in dir_find_free(dir) : dir_write(WithEntry(dir, s, e), h)
                                        /\ Settle(WithEntry(dir, s, e), fds, h)
    BY <1>7 DEF fs_create
  <2>3. count \in Nat /\ count >= 1
    BY VolumeAssumption
  <2>4. /\ e \in Entry
        /\ e.start \in Nat /\ e.start >= 1 /\ Fits(dir, e.start, count)
        /\ e.reserved = count /\ e.size = 0 /\ e.name = n
    <3>1. find_free_blocks(dir, count) \in Nat /\ find_free_blocks(dir, count) >= 1
          /\ Fits(dir, find_free_blocks(dir, count), count)
      BY <2>3, AllocationFits DEF TypeInv, TypeOK
    <3> QED BY <2>3, <3>1 DEF Entry
  <2> DEFINE d == WithEntry(dir, s, e)
  <2>5. s \in Slots /\ d \in [Slots -> Entry]
    BY <2>4, WithEntryTyped DEF TypeInv, TypeOK, dir_find_free, FreeSlots
  <2>6. ~torn
    BY <2>2 DEF dir_write, TypeInv, TypeOK
  <2>7. Good(dir)
    BY <2>6 DEF SafeInv
  <2>8. d = [dir EXCEPT ![s] = e] /\ dir[s].name \notin FileNames /\ Good(d)
    <3> HIDE DEF count
    <3> QED BY <2>1, <2>3, <2>4, <2>7, CreateGood
  <2>9. d[s] = e /\ \A i \in Slots \ {s} : d[i] = dir[i]
    BY <2>5, <2>8 DEF TypeInv, TypeOK
  <2>10. dir_write(d, h) /\ Settle(d, fds, h)
    BY <2>2
  <2> HIDE DEF d, e, count
  <2>11. /\ Files(disk') \in {Files(disk), Files(d)}
         /\ \/ Files(dir') = Files(d) /\ mounted' = mounted
            \/ Files(dir') = {} /\ mounted' = FALSE
         /\ torn' = torn
    BY <2>5, <2>9, <2>10, FlushCommits
  <2>12. Visible(d) = Live(dir) \cup {s} /\ Visible(dir) = Live(dir) /\ s \notin Live(dir)
    <3>1. Visible(d) = Live(d) /\ Visible(dir) = Live(dir)
      BY <2>7, <2>8, VisibleIsLive DEF Good
    <3> QED BY <3>1, <2>4, <2>5, <2>8, <2>9 DEF Live
  <2>13. Files(d) = Files(dir) \cup {e}
    <3>1. \A i \in Live(dir) : d[i] = dir[i]
      BY <2>9, <2>12 DEF Live
    <3> QED BY <2>9, <2>12, <3>1 DEF Files
  <2>14. \A i \in Visible(dir) : dir[i].name # e.name /\ Store!Apart(e, dir[i])
    <3>1. \A i \in Visible(dir) : dir[i].name # n
      BY <2>1 DEF Exists, dir_find
    <3>2. \A i \in Visible(dir) : dir[i].start + dir[i].reserved <= e.start
                                  \/ e.start + e.reserved <= dir[i].start
      <4>1. \A i \in Visible(dir) : dir[i] \in Entry
        BY DEF Visible, TypeInv, TypeOK
      <4> QED BY <2>3, <2>4, <4>1 DEF Fits, Entry
    <3> QED BY <2>4, <3>1, <3>2 DEF Store!Apart
  <2>15. Store!Create(e)
    BY <2>1, <2>3, <2>4, <2>11, <2>13, <2>14 DEF Store!Create, Store!Commit, Files
  <2>16. Store!Sync \/ e \in Files(dir') \cup Files(disk')
    BY <2>11, <2>13 DEF Store!Sync, Store!Commit, Files
  <2> QED BY <2>15, <2>16 DEF Store!Next, Store!Create, Store!Commit, Files
<1>8. ASSUME NEW n \in FileNames, NEW h \in Flushes, fs_delete(n, h)
      PROVE  Store!Next
  <2>1. PICK s \in dir_find(dir, n) :
          LET d == [dir EXCEPT ![s] = Deleted]
          IN  dir_write(d, h) /\ Settle(d, ClosedOn(s), h)
    BY <1>8 DEF fs_delete
  <2> DEFINE d == [dir EXCEPT ![s] = Deleted]
  <2>2. mounted /\ dir_write(d, h) /\ Settle(d, ClosedOn(s), h)
    BY <1>8, <2>1 DEF fs_delete
  <2>3. s \in Live(dir) /\ s \in Slots
    BY DEF dir_find, Visible, Live
  <2>4. d \in [Slots -> Entry] /\ \A i \in Slots \ {s} : d[i] = dir[i]
    BY DEF TypeInv, TypeOK, Entry, Deleted, Zeroed
  <2>5. ~torn
    BY <2>2 DEF dir_write, TypeInv, TypeOK
  <2>6. Good(dir)
    BY <2>5 DEF SafeInv
  <2>7. Good(d) /\ Live(d) = Live(dir) \ {s}
    BY <2>3, <2>6, DeleteGood
  <2> HIDE DEF d
  <2>8. Visible(d) = Live(dir) \ {s} /\ Visible(dir) = Live(dir)
    BY <2>6, <2>7, VisibleIsLive DEF Good
  <2>9. /\ Files(disk') \in {Files(disk), Files(d)}
        /\ \/ Files(dir') = Files(d) /\ mounted' = mounted
           \/ Files(dir') = {} /\ mounted' = FALSE
        /\ torn' = torn
    BY <2>2, <2>3, <2>4, FlushCommits
  <2>10. Files(d) = Files(dir) \ {dir[s]} /\ dir[s] \in Files(dir)
    <3>1. \A i \in Live(dir) \ {s} : d[i] = dir[i] /\ dir[i] # dir[s]
      BY <2>3, <2>4, <2>6 DEF Live, Good, Unique
    <3> QED BY <2>3, <2>8, <3>1 DEF Files
  <2>11. Store!Delete(dir[s])
    BY <2>2, <2>9, <2>10 DEF Store!Delete, Store!Commit, Files
  <2> QED BY <2>10, <2>11 DEF Store!Next, Store!Delete, Store!Commit, Files
<1>9. ASSUME NEW h \in Flushes, fs_sync(h)
      PROVE  Store!Next
  <2>1. dir_write(dir, h) /\ Settle(dir, fds, h)
    BY <1>9 DEF fs_sync
  <2>2. dir \in [Slots -> Entry] /\ 0 \in Slots
    BY DirAssumption DEF TypeInv, TypeOK, Slots
  <2>3. /\ Files(disk') \in {Files(disk), Files(dir)}
        /\ \/ Files(dir') = Files(dir) /\ mounted' = mounted
           \/ Files(dir') = {} /\ mounted' = FALSE
        /\ torn' = torn
    BY <2>1, <2>2, FlushCommits
  <2> QED BY <2>3 DEF Store!Next, Store!Sync, Store!Commit, Files
<1>10. CASE Crash
  <2>1. Settle(dir, fds, "crash") /\ disk' = disk /\ torn' = torn
    BY <1>10 DEF Crash
  <2>2. \/ Files(dir') = Files(dir) /\ mounted' = mounted
        \/ Files(dir') = {} /\ mounted' = FALSE
    BY <2>1, FilesOfZeroed DEF Settle
  <2> QED BY <2>1, <2>2 DEF Store!Next, Store!Sync, Store!Commit, Files
<1> QED BY <1>1, <1>2, <1>3, <1>4, <1>5, <1>6, <1>7, <1>8, <1>9, <1>10 DEF Next

\* The file system implements the abstract store.
THEOREM Refinement == NamesFit => (Spec => ImplementsStore)
<1> SUFFICES ASSUME NamesFit PROVE Spec => ImplementsStore
  OBVIOUS
<1>1. Init => Store!Init
  BY RefinesInit
<1>2. TypeInv /\ TypeInv' /\ SafeInv /\ [Next]_vars => [Store!Next \/ torn']_(Store!vars)
  BY RefinesNext
<1>3. Spec => [](TypeInv /\ SafeInv)
  BY SafeInvariant
<1> QED BY <1>1, <1>2, <1>3, PTL DEF Spec, ImplementsStore, Store!Spec
=============================================================================
