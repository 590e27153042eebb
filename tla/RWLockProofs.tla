---------------------------- MODULE RWLockProofs ----------------------------
(* The reader-writer lock excludes, for every number of cores. *)
EXTENDS RWLock, FiniteSetTheorems, TLAPS

\* The writer bit belongs to the one core that set it and has not cleared it.
Setters == {c \in Cores : at[c] \in {"w_verify", "w_back", "writing", "w_clear"}}

\* WriterAlone is not inductive: it needs to know whose the bit is, that the
\* count is exact, and that a writer found it at zero.
LockInv ==
    /\ readers \in Nat /\ writer \in BOOLEAN
    /\ at \in [Cores -> Points] /\ cx \in [Cores -> Nat]
    /\ CountExact
    /\ writer <=> Setters # {}
    /\ \A c, d \in Setters : c = d
    /\ \A c \in Writing : readers = 0
    /\ \A c \in Cores : at[c] = "w_clear" => cx[c] = 0

\* With an exact count, a count of zero means that nobody reads.
LEMMA ZeroMeansNobody ==
    ASSUME IsFiniteSet(Cores), CountExact
    PROVE  /\ IsFiniteSet(Reading)
           /\ readers = 0 <=> Reading = {}
<1>1. IsFiniteSet(Reading)
    BY FS_Subset DEF Reading
<1> QED
    BY <1>1, FS_EmptySet DEF CountExact

\* A core that moves between points outside "reading" leaves the count exact.
LEMMA CountKept ==
    ASSUME CountExact, readers' = readers, NEW c \in Cores, NEW p \in Points \ {"reading"},
           at \in [Cores -> Points], at' = [at EXCEPT ![c] = p], at[c] # "reading"
    PROVE  CountExact'
<1>1. Reading' = Reading
    BY DEF Reading
<1> QED
    BY <1>1 DEF CountExact

\* The core whose compare-and-exchange succeeds is counted.
LEMMA ReaderCounted ==
    ASSUME IsFiniteSet(Cores), LockInv, NEW c \in Cores, r_cas(c), Swaps(c)
    PROVE  CountExact' /\ readers' = readers + 1
<1>1. Reading' = Reading \cup {c} /\ c \notin Reading
    BY DEF r_cas, Goto, Reading, LockInv, Points
<1>2. readers' = readers + 1
    BY DEF r_cas, Swaps
<1>3. Cardinality(Reading \cup {c}) = Cardinality(Reading) + 1
    BY <1>1, ZeroMeansNobody, FS_AddElement DEF LockInv
<1> QED
    BY <1>1, <1>2, <1>3 DEF CountExact, LockInv

\* The core that releases its read lock is no longer counted.
LEMMA ReaderGone ==
    ASSUME IsFiniteSet(Cores), LockInv, NEW c \in Cores, b_smp_read_unlock(c)
    PROVE  CountExact' /\ readers' \in Nat /\ Reading # {}
<1>1. Reading' = Reading \ {c} /\ c \in Reading
    BY DEF b_smp_read_unlock, Goto, Reading, LockInv, Points
<1>2. IsFiniteSet(Reading)
    BY ZeroMeansNobody DEF LockInv
<1>3. Cardinality(Reading \ {c}) = Cardinality(Reading) - 1
    BY <1>1, <1>2, FS_RemoveElement
<1>4. readers # 0
    BY <1>1, ZeroMeansNobody DEF LockInv
<1> QED
    BY <1>1, <1>3, <1>4 DEF CountExact, LockInv, b_smp_read_unlock

\* Every access of every core keeps the invariant.
LEMMA LockStep ==
    ASSUME IsFiniteSet(Cores), MaxReaders \in Nat, LockInv, [Next]_vars
    PROVE  LockInv'
<1>1. ASSUME NEW c \in Cores, b_smp_read_lock(c) \/ r_load(c) \/ b_smp_write_lock(c) \/ w_test(c)
      PROVE  LockInv'
    <2>1. CountExact'
        BY <1>1, CountKept DEF b_smp_read_lock, r_load, b_smp_write_lock, w_test, Goto, LockInv, Points
    <2>2. Setters' = Setters /\ Writing' = Writing
        BY <1>1 DEF b_smp_read_lock, r_load, b_smp_write_lock, w_test, Goto, LockInv, Setters, Writing, Points
    <2>3. at' \in [Cores -> Points] /\ cx' \in [Cores -> Nat] /\ readers' = readers /\ writer' = writer
          /\ \A d \in Cores : at'[d] = "w_clear" => at[d] = "w_clear" /\ cx'[d] = cx[d]
        BY <1>1 DEF b_smp_read_lock, r_load, b_smp_write_lock, w_test, Goto, LockInv, Points
    <2> QED
        BY <2>1, <2>2, <2>3 DEF LockInv
<1>2. ASSUME NEW c \in Cores, r_cas(c)
      PROVE  LockInv'
    <2>1. at' \in [Cores -> Points] /\ cx' = cx /\ writer' = writer
          /\ \A d \in Cores : at'[d] = "w_clear" => at[d] = "w_clear"
        BY <1>2 DEF r_cas, Goto, LockInv, Points
    <2>2. Setters' = Setters /\ Writing' = Writing
        BY <1>2 DEF r_cas, Goto, LockInv, Setters, Writing, Points
    <2>3. CASE Swaps(c)
        <3>1. Writing = {}
            BY <2>3 DEF Swaps, LockInv, Setters, Writing
        <3> QED
            BY <1>2, <2>1, <2>2, <2>3, <3>1, ReaderCounted DEF LockInv
    <2>4. CASE ~Swaps(c)
        <3>1. CountExact' /\ readers' = readers
            BY <1>2, <2>4, CountKept DEF r_cas, Goto, LockInv, Points
        <3> QED
            BY <2>1, <2>2, <3>1 DEF LockInv
    <2> QED
        BY <2>3, <2>4
<1>3. ASSUME NEW c \in Cores, b_smp_read_unlock(c)
      PROVE  LockInv'
    <2>1. at' \in [Cores -> Points] /\ cx' = cx /\ writer' = writer
          /\ \A d \in Cores : at'[d] = "w_clear" => at[d] = "w_clear"
        BY <1>3 DEF b_smp_read_unlock, Goto, LockInv, Points
    <2>2. Setters' = Setters /\ Writing' = Writing
        BY <1>3 DEF b_smp_read_unlock, Goto, LockInv, Setters, Writing, Points
    <2>3. Writing = {}
        BY <1>3, ReaderGone, ZeroMeansNobody DEF LockInv
    <2> QED
        BY <1>3, <2>1, <2>2, <2>3, ReaderGone DEF LockInv
<1>4. ASSUME NEW c \in Cores, w_set(c)
      PROVE  LockInv'
    <2>1. CountExact' /\ readers' = readers /\ cx' = cx /\ at' \in [Cores -> Points]
        BY <1>4, CountKept DEF w_set, Goto, LockInv, Points
    <2>2. Writing' = Writing /\ \A d \in Cores : at'[d] = "w_clear" => at[d] = "w_clear"
        BY <1>4 DEF w_set, Goto, LockInv, Writing, Points
    <2>3. CASE writer
        <3>1. Setters' = Setters /\ writer' = TRUE
            BY <1>4, <2>3 DEF w_set, Goto, LockInv, Setters, Points
        <3> QED
            BY <2>1, <2>2, <2>3, <3>1 DEF LockInv
    <2>4. CASE ~writer
        <3>1. Setters' = {c} /\ writer' = TRUE
            BY <1>4, <2>4 DEF w_set, Goto, LockInv, Setters, Points
        <3> QED
            BY <2>1, <2>2, <3>1 DEF LockInv
    <2> QED
        BY <2>3, <2>4 DEF LockInv
<1>5. ASSUME NEW c \in Cores, w_verify(c)
      PROVE  LockInv'
    <2>1. CountExact' /\ readers' = readers /\ writer' = writer /\ cx' = cx /\ at' \in [Cores -> Points]
        BY <1>5, CountKept DEF w_verify, Goto, LockInv, Points
    <2>2. Setters' = Setters /\ \A d \in Cores : at'[d] = "w_clear" => at[d] = "w_clear"
        BY <1>5 DEF w_verify, Goto, LockInv, Setters, Points
    <2>3. Writing' \subseteq Writing \cup {c} /\ (readers # 0 => Writing' = Writing)
        BY <1>5 DEF w_verify, Alone, Goto, LockInv, Writing, Points
    <2> QED
        BY <2>1, <2>2, <2>3 DEF LockInv
<1>6. ASSUME NEW c \in Cores, w_back(c)
      PROVE  LockInv'
    <2>1. CountExact' /\ readers' = readers /\ cx' = cx /\ at' \in [Cores -> Points] /\ writer' = FALSE
        BY <1>6, CountKept DEF w_back, Goto, LockInv, Points
    <2>2. Setters' = {} /\ Writing' \subseteq Writing /\ \A d \in Cores : at'[d] = "w_clear" => at[d] = "w_clear"
        BY <1>6 DEF w_back, Goto, LockInv, Setters, Writing, Points
    <2> QED
        BY <2>1, <2>2 DEF LockInv
<1>7. ASSUME NEW c \in Cores, b_smp_write_unlock(c)
      PROVE  LockInv'
    <2>1. CountExact' /\ readers' = readers /\ writer' = writer /\ at' \in [Cores -> Points]
        BY <1>7, CountKept DEF b_smp_write_unlock, Goto, LockInv, Points
    <2>2. Setters' = Setters /\ Writing' = Writing /\ c \in Writing
        BY <1>7 DEF b_smp_write_unlock, Goto, LockInv, Setters, Writing, Points
    <2>3. cx' \in [Cores -> Nat] /\ \A d \in Cores : at'[d] = "w_clear" => cx'[d] = 0
        BY <1>7, <2>2 DEF b_smp_write_unlock, Goto, LockInv
    <2> QED
        BY <2>1, <2>2, <2>3 DEF LockInv
<1>8. ASSUME NEW c \in Cores, w_clear(c)
      PROVE  LockInv'
    <2>1. c \in Writing /\ readers' = readers
        BY <1>8 DEF w_clear, LockInv, Writing
    <2>2. CountExact' /\ writer' = FALSE /\ cx' = cx /\ at' \in [Cores -> Points]
        BY <1>8, <2>1, CountKept DEF w_clear, Goto, LockInv, Points
    <2>3. Setters' = {} /\ Writing' \subseteq Writing /\ \A d \in Cores : at'[d] = "w_clear" => at[d] = "w_clear"
        BY <1>8 DEF w_clear, Goto, LockInv, Setters, Writing, Points
    <2> QED
        BY <2>1, <2>2, <2>3 DEF LockInv
<1>9. CASE UNCHANGED vars
    <2>1. Reading' = Reading /\ Setters' = Setters /\ Writing' = Writing
        BY <1>9 DEF vars, Reading, Setters, Writing
    <2> QED
        BY <1>9, <2>1 DEF vars, LockInv, CountExact
<1> QED
    BY <1>1, <1>2, <1>3, <1>4, <1>5, <1>6, <1>7, <1>8, <1>9 DEF Next, Enter, Step

\* The invariant says that a writer is alone.
LEMMA InvExcludes ==
    ASSUME IsFiniteSet(Cores), LockInv
    PROVE  WriterAlone
<1> SUFFICES ASSUME NEW c \in Writing
             PROVE  Reading = {} /\ Writing = {c}
    BY DEF WriterAlone
<1>1. Reading = {}
    BY ZeroMeansNobody DEF LockInv
<1>2. Writing \subseteq Setters
    BY DEF Writing, Setters
<1> QED
    BY <1>1, <1>2 DEF LockInv

\* However many cores take the lock for reading and for writing, and wherever the
\* accesses of one fall between those of the others, a core that writes is alone.
THEOREM WriterIsAlone ==
    ASSUME IsFiniteSet(Cores), MaxReaders \in Nat
    PROVE  Spec => []WriterAlone
<1>1. Init => LockInv
    <2> SUFFICES ASSUME Init PROVE LockInv
        OBVIOUS
    <2>1. Reading = {} /\ Setters = {} /\ Writing = {}
        BY DEF Init, Reading, Setters, Writing
    <2>2. CountExact
        BY <2>1, FS_EmptySet DEF CountExact, Init
    <2> QED
        BY <2>1, <2>2 DEF Init, LockInv, Points
<1> QED
    BY <1>1, LockStep, InvExcludes, PTL DEF Spec
=============================================================================
