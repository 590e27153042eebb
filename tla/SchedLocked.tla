----------------------------- MODULE SchedLocked ----------------------------
(***************************************************************************)
(* kernel/sched.c with its lock: the bodies of the calls are taken apart   *)
(* into the accesses another core could fall between, and g_sched_lock is  *)
(* the spin lock of the port.  With the calls made atomic this is Sched.   *)
(***************************************************************************)
EXTENDS SpinLock

CONSTANTS MaxTasks, StackSizes, DefaultStack, StackBase

VARIABLES
    g_tasks,        \* g_tasks[i].state
    stack_of,       \* g_tasks[i].stack_base and stack_size
    count, current, \* g_task_count, g_current_task
    call,           \* per core: the call it is in
    slot,           \* per core: the local variable slot of sched_create
    committed       \* history: the tables when the lock was last released

tables == <<g_tasks, stack_of, count, current>>
vars == <<lockvars, tables, call, slot, committed>>

Sched == INSTANCE Sched WITH
    state <- committed[1], stack <- committed[2],
    g_task_count <- committed[3], g_current_task <- committed[4],
    pc <- [c \in Cores |-> IF call[c].name = "block_yields" THEN "block" ELSE "out"]

Idle == [name |-> "none", arg |-> 0, at |-> "begin"]
Calling(name, arg) == [name |-> name, arg |-> arg, at |-> "begin"]

Init ==
    /\ LockInit
    /\ g_tasks = [t \in 0 .. MaxTasks - 1 |-> IF t = 0 THEN "RUNNING" ELSE "DEAD"]
    /\ stack_of = [t \in 0 .. MaxTasks - 1 |-> [base |-> 0, size |-> 0]]
    /\ count = 1 /\ current = 0
    /\ call = [c \in Cores |-> Idle]
    /\ slot = [c \in Cores |-> 0]
    /\ committed = tables

-----------------------------------------------------------------------------
\* A core calls the scheduler; every call begins with hal_spin_lock.
Begin(c) ==
    /\ call[c] = Idle
    /\ \E k \in {Calling("create", s) : s \in StackSizes}
                \cup {Calling("unblock", t) : t \in 0 .. MaxTasks - 1}
                \cup {Calling("yield", 0), Calling("block", 0)} :
          call' = [call EXCEPT ![c] = k]
    /\ hal_spin_lock(c)
    /\ UNCHANGED <<tables, slot, committed>>

\* The second half of sched_block is a call of sched_yield.
Again(c) ==
    /\ call[c].name = "block_yields"
    /\ hal_spin_lock(c)
    /\ UNCHANGED <<tables, call, slot, committed>>

Spin(c) ==
    /\ Spinning(c)
    /\ UNCHANGED <<tables, call, slot, committed>>

SpinFails(c) ==
    /\ set_fails(c)
    /\ UNCHANGED <<tables, call, slot, committed>>

\* Core c holds the lock and executes part p of call name.
In(c, name, p) == spin[c] = "held" /\ call[c].name = name /\ call[c].at = p
Then(c, p) == call' = [call EXCEPT ![c].at = p]

create_find(c) ==
    LET free == {t \in 1 .. MaxTasks - 1 : g_tasks[t] = "DEAD"}
    IN  /\ In(c, "create", "begin")
        /\ IF free = {}
           THEN Then(c, "leave") /\ UNCHANGED slot
           ELSE /\ Then(c, "fill")
                /\ slot' = [slot EXCEPT ![c] = CHOOSE t \in free : \A u \in free : t <= u]
        /\ UNCHANGED <<lockvars, tables, committed>>

create_fill(c) ==
    LET size == IF call[c].arg = 0 THEN DefaultStack ELSE call[c].arg
    IN  /\ In(c, "create", "fill")
        /\ g_tasks' = [g_tasks EXCEPT ![slot[c]] = "READY"]
        /\ stack_of' = [stack_of EXCEPT ![slot[c]] = [base |-> StackBase + slot[c] * size, size |-> size]]
        /\ count' = count + 1
        /\ Then(c, "leave")
        /\ slot' = [slot EXCEPT ![c] = 0]
        /\ UNCHANGED <<lockvars, current, committed>>

Yields(c, p) == In(c, "yield", p) \/ In(c, "block_yields", p)

yield_demote(c) ==
    /\ Yields(c, "begin")
    /\ IF count <= 1
       THEN Then(c, "leave") /\ UNCHANGED g_tasks
       ELSE g_tasks' = [g_tasks EXCEPT ![current] = "READY"] /\ Then(c, "pick")
    /\ UNCHANGED <<lockvars, stack_of, count, current, slot, committed>>

Following(k) == (current + k) % MaxTasks

yield_pick(c) ==
    /\ Yields(c, "pick")
    /\ \E k \in 1 .. MaxTasks :
         /\ g_tasks[Following(k)] = "READY"
         /\ \A j \in 1 .. k - 1 : g_tasks[Following(j)] # "READY"
         /\ g_tasks' = [g_tasks EXCEPT ![Following(k)] = "RUNNING"]
         /\ current' = Following(k)
    /\ Then(c, "leave")
    /\ UNCHANGED <<lockvars, stack_of, count, slot, committed>>

block_mark(c) ==
    /\ In(c, "block", "begin")
    /\ g_tasks' = [g_tasks EXCEPT ![current] = "BLOCKED"]
    /\ Then(c, "leave")
    /\ UNCHANGED <<lockvars, stack_of, count, current, slot, committed>>

unblock_mark(c) ==
    /\ In(c, "unblock", "begin")
    /\ g_tasks' = IF g_tasks[call[c].arg] = "BLOCKED"
                  THEN [g_tasks EXCEPT ![call[c].arg] = "READY"] ELSE g_tasks
    /\ Then(c, "leave")
    /\ UNCHANGED <<lockvars, stack_of, count, current, slot, committed>>

Leave(c) ==
    /\ spin[c] = "held" /\ call[c].at = "leave"
    /\ hal_spin_unlock(c)
    /\ call' = [call EXCEPT ![c] = IF @.name = "block" THEN Calling("block_yields", 0) ELSE Idle]
    /\ committed' = tables
    /\ UNCHANGED <<tables, slot>>

-----------------------------------------------------------------------------
Inside(c) ==
    \/ Again(c) \/ Spin(c) \/ create_find(c) \/ create_fill(c) \/ yield_demote(c)
    \/ yield_pick(c) \/ block_mark(c) \/ unblock_mark(c) \/ Leave(c)
Next == \E c \in Cores : Begin(c) \/ SpinFails(c) \/ Inside(c)

\* A core takes the lock.
Acquire(c) == Spin(c) /\ spin'[c] = "held"

\* A core inside a call goes on, and conditional stores do not fail for ever for
\* reasons of their own (both architectures promise it for such a loop).
Spec == Init /\ [][Next]_vars /\ \A c \in Cores : WF_vars(Inside(c)) /\ SF_vars(Acquire(c))

-----------------------------------------------------------------------------
\* On every port the spin lock makes the calls of sched.c atomic: whatever the
\* interleaving of loads, exchanges and conditional stores, what the tables hold
\* between two holders of the lock is what one call after the other produces.
ImplementsSched == Sched!Init /\ [][Sched!Next]_(Sched!vars)

\* A lock that cores want is taken and given back again and again: nobody
\* sleeps in wfe through the release it waits for.
LockMoves == (\E c \in Cores : spin[c] \in {"test", "set", "wfe"}) ~> (\E c \in Cores : spin[c] = "held")
=============================================================================
