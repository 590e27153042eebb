------------------------------- MODULE RWLock -------------------------------
(***************************************************************************)
(* The reader-writer lock of the assembly kernel (syscalls/smp.asm), one   *)
(* action per access to the lock word.  Bits 0-14 of the word count the    *)
(* readers, bit 15 is the writer flag.  Registers are private to a core;   *)
(* cx[c] is the value a core has loaded and is about to act on.            *)
(***************************************************************************)
EXTENDS Integers, FiniteSets

CONSTANTS
    Cores,          \* cores that use the lock
    MaxReaders      \* 0x7FFF: the largest count that leaves bit 15 clear

VARIABLES
    readers,        \* bits 0-14 of the lock word
    writer,         \* bit 15
    at,             \* per core: the instruction it executes next
    cx              \* per core: the reader count it loaded

vars == <<readers, writer, at, cx>>

Points == {"out", "r_load", "r_cas", "reading",
           "w_test", "w_set", "w_verify", "w_back", "writing", "w_clear"}

Goto(c, p) == at' = [at EXCEPT ![c] = p]

Init ==
    /\ readers = 0 /\ writer = FALSE
    /\ at = [c \in Cores |-> "out"]
    /\ cx = [c \in Cores |-> 0]

-----------------------------------------------------------------------------
(* b_smp_read_lock and b_smp_read_unlock. *)

b_smp_read_lock(c) ==
    /\ at[c] = "out"
    /\ Goto(c, "r_load")
    /\ UNCHANGED <<readers, writer, cx>>

\* A count that would run into the writer bit is not taken.
NoRoom(n) == n + 1 > MaxReaders

\* movzx eax, word [rdx] and the two tests of the loaded value.
r_load(c) ==
    /\ at[c] = "r_load"
    /\ ~writer /\ ~NoRoom(readers)
    /\ cx' = [cx EXCEPT ![c] = readers]
    /\ Goto(c, "r_cas")
    /\ UNCHANGED <<readers, writer>>

\* lock cmpxchg succeeds only if the whole word is as loaded.
Swaps(c) == readers = cx[c] /\ ~writer

r_cas(c) ==
    /\ at[c] = "r_cas"
    /\ IF Swaps(c)
       THEN readers' = cx[c] + 1 /\ Goto(c, "reading")
       ELSE UNCHANGED readers /\ Goto(c, "r_load")
    /\ UNCHANGED <<writer, cx>>

b_smp_read_unlock(c) ==
    /\ at[c] = "reading"
    /\ readers' = readers - 1
    /\ Goto(c, "out")
    /\ UNCHANGED <<writer, cx>>

-----------------------------------------------------------------------------
(* b_smp_write_lock and b_smp_write_unlock. *)

b_smp_write_lock(c) ==
    /\ at[c] = "out"
    /\ Goto(c, "w_test")
    /\ UNCHANGED <<readers, writer, cx>>

w_test(c) ==
    /\ at[c] = "w_test"
    /\ readers = 0 /\ ~writer
    /\ Goto(c, "w_set")
    /\ UNCHANGED <<readers, writer, cx>>

\* lock bts sets the bit and reports what it was.
w_set(c) ==
    /\ at[c] = "w_set"
    /\ writer' = TRUE
    /\ Goto(c, IF writer THEN "w_test" ELSE "w_verify")
    /\ UNCHANGED <<readers, cx>>

\* A reader may have come in since the test: the word must be 0x8000.
Alone_Unchecked == TRUE
Alone == readers = 0
w_verify(c) ==
    /\ at[c] = "w_verify"
    /\ Goto(c, IF Alone THEN "writing" ELSE "w_back")
    /\ UNCHANGED <<readers, writer, cx>>

w_back(c) ==
    /\ at[c] = "w_back"
    /\ writer' = FALSE
    /\ Goto(c, "w_test")
    /\ UNCHANGED <<readers, cx>>

\* "and word [rax], 0x7FFF" has no lock prefix: it loads, and stores later.
b_smp_write_unlock(c) ==
    /\ at[c] = "writing"
    /\ cx' = [cx EXCEPT ![c] = readers]
    /\ Goto(c, "w_clear")
    /\ UNCHANGED <<readers, writer>>

w_clear(c) ==
    /\ at[c] = "w_clear"
    /\ readers' = cx[c] /\ writer' = FALSE
    /\ Goto(c, "out")
    /\ UNCHANGED cx

-----------------------------------------------------------------------------
Enter(c) == b_smp_read_lock(c) \/ b_smp_write_lock(c)
Step(c) ==
    \/ r_load(c) \/ r_cas(c) \/ b_smp_read_unlock(c)
    \/ w_test(c) \/ w_set(c) \/ w_verify(c) \/ w_back(c)
    \/ b_smp_write_unlock(c) \/ w_clear(c)
Next == \E c \in Cores : Enter(c) \/ Step(c)

\* A core that has begun a call goes on executing it, and releases what it holds.
Spec == Init /\ [][Next]_vars /\ \A c \in Cores : WF_vars(Step(c))

-----------------------------------------------------------------------------
TypeOK ==
    /\ readers \in 0 .. MaxReaders
    /\ writer \in BOOLEAN
    /\ at \in [Cores -> Points]
    /\ cx \in [Cores -> 0 .. MaxReaders]

Reading == {c \in Cores : at[c] = "reading"}
Writing == {c \in Cores : at[c] \in {"writing", "w_clear"}}

\* "Multiple readers OR a single writer" (smp.asm:282): although the writer tests,
\* sets its bit and tests again in three accesses, backs out with the bit set
\* for others to see, and releases without a lock prefix, a writer is alone.
WriterAlone ==
    \A c \in Writing : Reading = {} /\ Writing = {c}

\* The count is exact: no release or back-out loses a reader.
CountExact == readers = Cardinality(Reading)

\* Spinning cores do not shut each other out: while some core waits, some core
\* gets the lock again and again.
Waiting == {c \in Cores : at[c] \notin {"out", "reading", "writing", "w_clear"}}
SomeoneGetsIn == Waiting # {} ~> Reading \cup Writing # {}
=============================================================================
