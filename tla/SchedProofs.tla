---------------------------- MODULE SchedProofs -----------------------------
(* For every number of tasks and cores, at most the current task is running. *)
EXTENDS Sched, TLAPS

SchedInv == TypeOK /\ OnlyCurrentRuns

\* The search for the next task stays inside the table.
LEMMA SlotInTable ==
    ASSUME TypeOK, NEW k \in 1 .. MaxTasks
    PROVE  Slot(k) \in Tasks
<1>1. g_current_task + k \in Nat
    BY SchedAssumption DEF TypeOK, Tasks
<1> QED
    BY <1>1, SchedAssumption DEF Slot, Tasks

\* The body of sched_yield moves the RUNNING mark along with g_current_task.
LEMMA YieldKeeps ==
    ASSUME SchedInv, yield, UNCHANGED <<stack, g_task_count>>, pc' \in [Cores -> {"out", "block"}]
    PROVE  SchedInv'
<1>1. CASE UNCHANGED <<state, g_current_task>>
    BY <1>1 DEF SchedInv, TypeOK, OnlyCurrentRuns
<1>2. ASSUME NEW k \in 1 .. MaxTasks,
             Demoted[Slot(k)] = "READY",
             state' = [Demoted EXCEPT ![Slot(k)] = "RUNNING"],
             g_current_task' = Slot(k)
      PROVE  SchedInv'
    <2>1. Slot(k) \in Tasks
        BY SlotInTable DEF SchedInv
    <2> DEFINE d == Demoted
    <2>2. d \in [Tasks -> States] /\ d[g_current_task] = "READY"
          /\ \A t \in Tasks : t # g_current_task => d[t] = state[t]
        BY DEF SchedInv, TypeOK, Demoted, States
    <2>3. \A t \in Tasks : d[t] # "RUNNING"
        BY <2>2 DEF SchedInv, OnlyCurrentRuns
    <2>4. state' \in [Tasks -> States]
        BY <1>2, <2>2 DEF States
    <2>5. \A t \in Tasks : t # Slot(k) => state'[t] = d[t]
        BY <1>2, <2>2
    <2>6. state'[Slot(k)] = "RUNNING"
        BY <1>2, <2>1, <2>2
    <2>7. 0 \in Tasks /\ d[0] # "DEAD"
        BY <2>2, SchedAssumption DEF SchedInv, OnlyCurrentRuns, Tasks
    <2>8. TypeOK'
        BY <1>2, <2>1, <2>4 DEF SchedInv, TypeOK
    <2> HIDE DEF d
    <2>9. OnlyCurrentRuns'
        BY <1>2, <2>1, <2>3, <2>5, <2>6, <2>7 DEF OnlyCurrentRuns
    <2> QED
        BY <2>8, <2>9 DEF SchedInv
<1> QED
    BY <1>1, <1>2 DEF yield

\* Every step of every core keeps the invariant.
LEMMA SchedStep ==
    ASSUME SchedInv, [Next]_vars
    PROVE  SchedInv'
<1> USE DEF SchedInv
<1>0. 0 \in Tasks
    BY SchedAssumption DEF Tasks
<1>1. ASSUME NEW c \in Cores, NEW s \in StackSizes, sched_create(c, s)
      PROVE  SchedInv'
    <2>1. PICK t \in Tasks : FirstFree(t) /\ state' = [state EXCEPT ![t] = "READY"]
                             /\ stack' = [stack EXCEPT ![t] = StackOf(t, s)]
        BY <1>1 DEF sched_create
    <2>2. StackOf(t, s) \in [base : Nat, size : Nat]
        BY SchedAssumption DEF StackOf, Tasks
    <2>3. TypeOK'
        BY <1>1, <2>1, <2>2 DEF TypeOK, sched_create, CountAfter, States
    <2>4. t # g_current_task /\ t # 0
        BY <2>1, <1>0 DEF OnlyCurrentRuns, TypeOK, FirstFree
    <2>5. OnlyCurrentRuns'
        BY <1>0, <1>1, <2>1, <2>4 DEF OnlyCurrentRuns, TypeOK, sched_create
    <2> QED
        BY <2>3, <2>5
<1>2. ASSUME NEW c \in Cores, sched_yield(c)
      PROVE  SchedInv'
    BY <1>2, YieldKeeps DEF sched_yield, TypeOK
<1>3. ASSUME NEW c \in Cores, block_yields(c)
      PROVE  SchedInv'
    BY <1>3, YieldKeeps DEF block_yields, TypeOK
<1>4. ASSUME NEW c \in Cores, sched_block(c)
      PROVE  SchedInv'
    BY <1>0, <1>4 DEF sched_block, TypeOK, OnlyCurrentRuns, States
<1>5. ASSUME NEW c \in Cores, NEW t \in Tasks, sched_unblock(c, t)
      PROVE  SchedInv'
    BY <1>0, <1>5 DEF sched_unblock, Woken, TypeOK, OnlyCurrentRuns, States
<1>6. CASE UNCHANGED vars
    BY <1>6 DEF vars, TypeOK, OnlyCurrentRuns
<1> QED
    BY <1>1, <1>2, <1>3, <1>4, <1>5, <1>6 DEF Next, Core, sched_create_full

\* With any number of cores in the scheduler, and between the two halves of
\* sched_block, no task but the current one is marked running, and the current
\* task exists.
THEOREM OnlyCurrentEverRuns == Spec => []OnlyCurrentRuns
<1>1. Init => SchedInv
    BY SchedAssumption DEF Init, SchedInv, TypeOK, OnlyCurrentRuns, States, Tasks, NoStack
<1> QED
    BY <1>1, SchedStep, PTL DEF Spec, SchedInv
=============================================================================
