------------------------------ MODULE MCCores -------------------------------
(***************************************************************************)
(* What the cores share, one part in each behaviour: the scheduler with    *)
(* atomic calls, the scheduler under its spin lock (SchedLocked, which     *)
(* implements the former), and the reader-writer lock.                     *)
(***************************************************************************)
EXTENDS Sched

CONSTANTS
    LockTasks,      \* SCHED_MAX_TASKS of the scheduler under its lock
    RWCores, MaxReaders

VARIABLES part, port, lock, spin, rsv, g_tasks, stack_of, count, current, call, slot, committed,
          readers, writer, at, cx

L == INSTANCE SchedLocked WITH MaxTasks <- LockTasks, StackSizes <- {0}
R == INSTANCE RWLock WITH Cores <- RWCores

locked == <<port, lock, spin, rsv, g_tasks, stack_of, count, current, call, slot, committed>>
rwlock == <<readers, writer, at, cx>>
all == <<part, vars, locked, rwlock>>

Is(p) ==
    /\ part = p /\ UNCHANGED part
    /\ p # "sched" => UNCHANGED vars
    /\ p # "locked" => UNCHANGED locked
    /\ p # "rwlock" => UNCHANGED rwlock

MCInit ==
    /\ part \in {"sched", "locked", "rwlock"}
    /\ Init /\ L!Init /\ R!Init
    /\ part # "locked" => port = "x86_64"

MCNext ==
    \/ Is("sched") /\ Next
    \/ Is("locked") /\ L!Next
    \/ Is("rwlock") /\ R!Next

MCSpec ==
    /\ MCInit /\ [][MCNext]_all
    /\ \A c \in Cores :
         /\ WF_all(Is("sched") /\ sched_yield(c)) /\ WF_all(Is("sched") /\ block_yields(c))
         /\ WF_all(Is("locked") /\ L!Inside(c)) /\ SF_all(Is("locked") /\ L!Acquire(c))
    /\ \A c \in RWCores : WF_all(Is("rwlock") /\ R!Step(c))

-----------------------------------------------------------------------------
\* "Multiple readers OR a single writer" (smp.asm:282): although the writer tests,
\* sets its bit and tests again in three accesses, backs out with the bit set
\* for others to see, and releases without a lock prefix, a writer is alone and
\* no reader is lost from the count.
WriterAlone == R!WriterAlone /\ R!CountExact

\* On every port the spin lock makes the calls of sched.c atomic: whatever the
\* interleaving of loads, exchanges and conditional stores, what the tables hold
\* between two holders of the lock is what one call after the other produces.
ImplementsSched == L!ImplementsSched

\* Everyone is served: a READY task gets its turn, a spin lock that cores want
\* is taken again and again (no core sleeps in wfe through the release it waits
\* for), and readers and writers do not shut each other out.
EveryoneServed ==
    /\ \A t \in Tasks : part = "sched" /\ state[t] = "READY" ~> g_current_task = t
    /\ part = "locked" => L!LockMoves
    /\ part = "rwlock" => R!SomeoneGetsIn
=============================================================================
