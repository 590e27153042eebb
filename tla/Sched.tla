-------------------------------- MODULE Sched -------------------------------
(***************************************************************************)
(* The round-robin scheduler, kernel/sched.c: the task table, the task     *)
(* that is current, and where stacks are placed.  The functions may be     *)
(* called on any core; each takes g_sched_lock around its body, and        *)
(* sched_block takes it twice: once itself and once in sched_yield.        *)
(***************************************************************************)
EXTENDS Integers, FiniteSets

CONSTANTS
    MaxTasks,       \* SCHED_MAX_TASKS
    Cores,          \* cores that call the scheduler
    StackSizes,     \* stack sizes asked for, in pages; 0 is the default
    DefaultStack,   \* 64 KB
    StackBase       \* TASK_STACK_BASE

ASSUME SchedAssumption ==
    /\ MaxTasks \in Nat \ {0}
    /\ StackSizes \subseteq Nat /\ DefaultStack \in Nat \ {0}
    /\ StackBase \in Nat

Tasks == 0 .. MaxTasks - 1
States == {"READY", "RUNNING", "BLOCKED", "DEAD"}
NoStack == [base |-> 0, size |-> 0]

VARIABLES
    state,              \* g_tasks[i].state
    stack,              \* g_tasks[i].stack_base and stack_size
    g_task_count, g_current_task,
    pc                  \* per core: "block" between the two halves of sched_block

vars == <<state, stack, g_task_count, g_current_task, pc>>

-----------------------------------------------------------------------------
Init ==
    /\ state = [t \in Tasks |-> IF t = 0 THEN "RUNNING" ELSE "DEAD"]
    /\ stack = [t \in Tasks |-> NoStack]
    /\ g_task_count = 1 /\ g_current_task = 0
    /\ pc = [c \in Cores |-> "out"]

FirstFree(t) == t > 0 /\ state[t] = "DEAD" /\ \A u \in 1 .. t - 1 : state[u] # "DEAD"

StackOf(t, size) ==
    LET s == IF size = 0 THEN DefaultStack ELSE size
    IN  [base |-> StackBase + t * s, size |-> s]

\* The count after a creation.
CountAfter == g_task_count + 1

sched_create(c, size) ==
    /\ pc[c] = "out"
    /\ \E t \in Tasks :
          /\ FirstFree(t)
          /\ state' = [state EXCEPT ![t] = "READY"]
          /\ stack' = [stack EXCEPT ![t] = StackOf(t, size)]
    /\ g_task_count' = CountAfter
    /\ UNCHANGED <<g_current_task, pc>>

\* No free slot: -1.
sched_create_full(c) ==
    /\ pc[c] = "out"
    /\ \A t \in Tasks : ~FirstFree(t)
    /\ UNCHANGED vars

\* The k-th slot after the current one, round the table.
Slot_FromZero(k) == k - 1
Slot(k) == (g_current_task + k) % MaxTasks

Demoted_Never == state
Demoted == [state EXCEPT ![g_current_task] = "READY"]

\* The search starts behind the current task and ends with it.
Before_Any(k) == 1 .. 0
Before(k) == 1 .. k - 1

yield ==
    IF g_task_count <= 1
    THEN UNCHANGED <<state, g_current_task>>
    ELSE \E k \in 1 .. MaxTasks :
            /\ Demoted[Slot(k)] = "READY"
            /\ \A j \in Before(k) : Demoted[Slot(j)] # "READY"
            /\ state' = [Demoted EXCEPT ![Slot(k)] = "RUNNING"]
            /\ g_current_task' = Slot(k)

\* Also sched_tick.
sched_yield(c) ==
    /\ pc[c] = "out"
    /\ yield
    /\ UNCHANGED <<stack, g_task_count, pc>>

sched_block(c) ==
    /\ pc[c] = "out"
    /\ state' = [state EXCEPT ![g_current_task] = "BLOCKED"]
    /\ pc' = [pc EXCEPT ![c] = "block"]
    /\ UNCHANGED <<stack, g_task_count, g_current_task>>

block_yields(c) ==
    /\ pc[c] = "block"
    /\ yield
    /\ pc' = [pc EXCEPT ![c] = "out"]
    /\ UNCHANGED <<stack, g_task_count>>

Woken(t) == state[t] = "BLOCKED"
sched_unblock(c, t) ==
    /\ pc[c] = "out" /\ Woken(t)
    /\ state' = [state EXCEPT ![t] = "READY"]
    /\ UNCHANGED <<stack, g_task_count, g_current_task, pc>>

Core(c) ==
    \/ \E s \in StackSizes : sched_create(c, s)
    \/ sched_create_full(c) \/ sched_yield(c) \/ sched_block(c) \/ block_yields(c)
    \/ \E t \in Tasks : sched_unblock(c, t)
Next == \E c \in Cores : Core(c)

\* The kernel loop calls sched_tick for ever (syscall.c), and a core inside
\* sched_block goes on.
Spec ==
    /\ Init /\ [][Next]_vars
    /\ \A c \in Cores : WF_vars(sched_yield(c)) /\ WF_vars(block_yields(c))

-----------------------------------------------------------------------------
TypeOK ==
    /\ state \in [Tasks -> States]
    /\ stack \in [Tasks -> [base : Nat, size : Nat]]
    /\ g_task_count \in Nat /\ g_current_task \in Tasks
    /\ pc \in [Cores -> {"out", "block"}]

\* On however many cores the scheduler is called, no task but the current one is
\* marked running, and the current one is a task that exists.
OnlyCurrentRuns ==
    /\ \A t \in Tasks : state[t] = "RUNNING" => t = g_current_task
    /\ state[g_current_task] # "DEAD" /\ state[0] # "DEAD"

\* Round robin: the search for the next task passes over no READY task, so a
\* READY task is overtaken at most once by each of the others.
NoOvertaking ==
    [][\A t \in Tasks :
         g_current_task' # g_current_task /\ state[t] = "READY" /\ t # g_current_task /\ t # g_current_task' =>
            (g_current_task' - g_current_task) % MaxTasks < (t - g_current_task) % MaxTasks]_vars

\* A READY task gets its turn, as long as it is not blocked meanwhile.
ReadyRuns == \A t \in Tasks : state[t] = "READY" ~> g_current_task = t

\* What sched.h says of sched_block: a blocked task does not run until it is
\* unblocked.
BlockedUntilUnblocked ==
    [][\A t \in Tasks : state[t] = "BLOCKED" /\ state'[t] # "BLOCKED" =>
          \E c \in Cores : sched_unblock(c, t)]_vars
=============================================================================
