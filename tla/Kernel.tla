------------------------------- MODULE Kernel -------------------------------
(***************************************************************************)
(* The MourOS kernel: the scheduler (scheduler.c), the task operations     *)
(* (tasks.c) and the resources (sync.c), on one Cortex-M core.             *)
(*                                                                         *)
(* A task list (run queues, sleepqueue, waiting lists) is a sequence of    *)
(* tasks here; KernelLists has the next_task pointers and implements this  *)
(* module.                                                                 *)
(*                                                                         *)
(* Atomicity.  A CM_ATOMIC_* section runs with interrupts masked and is    *)
(* one step.  The SysTick and PendSV handlers share the lowest exception   *)
(* priority, so neither preempts the other, and threads do not run during  *)
(* a handler.  When both are pending PendSV goes first (it has the lower   *)
(* exception number), and a pended PendSV is taken before the thread's     *)
(* next kernel call.  Interrupt handlers of the application come in        *)
(* anywhere else, and of the kernel call os_task_unsuspend.                *)
(*                                                                         *)
(* A definition whose name ends in Bug is a mistake that the definition    *)
(* after it could contain: the properties are tested against it.           *)
(***************************************************************************)
EXTENDS Integers, Sequences, SequencesExt

CONSTANTS
  Task,             (* the task_t structs, idle_task among them            *)
  Idle,             (* idle_task                                           *)
  Resource,         (* the resource_t structs                              *)
  NUM_PRIO_LEVELS,  (* run queues; level 0 is the highest priority         *)
  AppPriority,      (* the priorities os_task_init gives to each task      *)
  MaxSleep,         (* bound: the largest num_ticks passed to sleep        *)
  NULL

Level == 0 .. NUM_PRIO_LEVELS - 1

ASSUME KernelAssumption ==
  /\ Idle \in Task
  /\ NULL \notin Task \cup Resource
  /\ NUM_PRIO_LEVELS \in Nat \ {0}
  /\ AppPriority \in [Task -> SUBSET Level]
  /\ AppPriority[Idle] = {NUM_PRIO_LEVELS - 1}
  /\ MaxSleep \in Nat

VARIABLES
  state,              (* task_t.state                                      *)
  priority,           (* task_t.priority                                   *)
  pc,                 (* where a task's code is: "app", between the two    *)
                      (* stores of os_task_suspend_self, or "returned"     *)
  wanted,             (* the resource whose os_resource_acquire loop a     *)
                      (* task is in, or NULL                               *)
  sleep_left,         (* wakeup_time - os_tick_count of a sleeping task    *)
  runq,               (* task_prio_groups                                  *)
  highest_prio_level,
  sleepqueue,
  waiting,            (* the list starting at resource_t.first_waiting     *)
  acquired_by,        (* resource_t.acquired_by                            *)
  current_task,
  pendsv,             (* PENDSVSET in SCB_ICSR                             *)
  handler             (* "thread", or "sys_tick" inside sys_tick_handler   *)

taskVars == <<state, priority, pc, wanted, sleep_left>>
resVars  == <<waiting, acquired_by>>
vars     == <<taskVars, resVars, runq, highest_prio_level, sleepqueue,
              current_task, pendsv, handler>>

TaskState == {"RUNNABLE", "WAITING_FOR_RESOURCE", "SLEEPING", "SUSPENDED",
              "RUNNING", "STOPPED"}

-----------------------------------------------------------------------------
(* The queues.                                                             *)

AddToHead(rq, t) == [rq EXCEPT ![priority[t]] = <<t>> \o @]
AddToTail(rq, t) == [rq EXCEPT ![priority[t]] = Append(@, t)]

RaiseBug(level, t) == level

\* Both sched_add_to_runqueue_* functions lower highest_prio_level.
Raise(level, t) == IF priority[t] < level THEN priority[t] ELSE level

HeadInsertBug(queue, key, k) == {1}
FifoInsertBug(queue, key, k) == {Len(queue) + 1}

\* Inserts in front of the first element that is not smaller.
EqualInsertBug(queue, key, k) ==
  {i \in 1 .. Len(queue) + 1 :
     /\ \A j \in 1 .. i - 1 : key[queue[j]] < k
     /\ i <= Len(queue) => key[queue[i]] >= k}

\* sched_add_to_sleepqueue and insert_waiting_task walk to the first element
\* with a larger key, and insert in front of it.
InsertPoints(queue, key, k) ==
  {i \in 1 .. Len(queue) + 1 :
     /\ \A j \in 1 .. i - 1 : key[queue[j]] <= k
     /\ i <= Len(queue) => key[queue[i]] > k}

\* take_highest_prio_task and the assignments that follow it, with the run
\* queues, the hint and the states as the handler has left them.  When no
\* queue from the hint on has a task the code spins forever: no step.
Dispatch(rq, hint, st) ==
  \E level \in hint .. NUM_PRIO_LEVELS - 1 :
    /\ rq[level] # <<>>
    /\ \A p \in hint .. level - 1 : rq[p] = <<>>
    /\ runq' = [p \in Level |-> IF p = level THEN Tail(rq[p]) ELSE rq[p]]
    /\ highest_prio_level' = level
    /\ current_task' = Head(rq[level])
    /\ state' = [st EXCEPT ![Head(rq[level])] = "RUNNING"]

-----------------------------------------------------------------------------
(* After os_init, and os_task_init of every application task.              *)
Init ==
  /\ state = [t \in Task |-> IF t = Idle THEN "RUNNABLE" ELSE "STOPPED"]
  /\ priority \in {f \in [Task -> Level] : \A t \in Task : f[t] \in AppPriority[t]}
  /\ pc = [t \in Task |-> "app"]
  /\ wanted = [t \in Task |-> NULL]
  /\ sleep_left = [t \in Task |-> 0]
  /\ runq = [p \in Level |-> IF p = NUM_PRIO_LEVELS - 1 THEN <<Idle>> ELSE <<>>]
  /\ highest_prio_level = 0
  /\ sleepqueue = <<>>
  /\ waiting = [r \in Resource |-> <<>>]
  /\ acquired_by = [r \in Resource |-> NULL]
  /\ current_task = NULL
  /\ pendsv = FALSE
  /\ handler = "thread"

\* No exception is active or pending.
Thread == handler = "thread" /\ ~pendsv

\* The current task executes code of the application.  idle_task makes no
\* calls.
App(t) ==
  /\ Thread
  /\ current_task = t
  /\ t # Idle
  /\ pc[t] = "app"
  /\ wanted[t] = NULL

\* main() before os_tasks_start, or a task.
Caller == Thread /\ (current_task = NULL \/ \E t \in Task : App(t))

-----------------------------------------------------------------------------
(* Starting tasks.                                                         *)

\* os_task_init of a task that is not in use.
TaskInit(t, prio) ==
  /\ Caller
  /\ state[t] = "STOPPED"
  /\ prio \in AppPriority[t]
  /\ priority' = [priority EXCEPT ![t] = prio]
  /\ pc' = [pc EXCEPT ![t] = "app"]
  /\ UNCHANGED <<state, wanted, sleep_left, resVars, runq, highest_prio_level,
                 sleepqueue, current_task, pendsv, handler>>

\* os_task_add of a newly initialised task.  It does not yield, whatever the
\* priority of the new task.
TaskAdd(t) ==
  /\ Caller
  /\ pc[t] = "app"
  /\ state[t] = "STOPPED"
  /\ state' = [state EXCEPT ![t] = "RUNNABLE"]
  /\ runq' = AddToTail(runq, t)
  /\ highest_prio_level' = Raise(highest_prio_level, t)
  /\ UNCHANGED <<priority, pc, wanted, sleep_left, resVars, sleepqueue,
                 current_task, pendsv, handler>>

TasksStart ==
  /\ current_task = NULL
  /\ Dispatch(runq, highest_prio_level, state)
  /\ UNCHANGED <<priority, pc, wanted, sleep_left, resVars, sleepqueue, pendsv,
                 handler>>

\* The task function returns: the end of __task_runner.
TaskReturn(t) ==
  /\ App(t)
  /\ state' = [state EXCEPT ![t] = "STOPPED"]
  /\ pc' = [pc EXCEPT ![t] = "returned"]
  /\ pendsv' = TRUE
  /\ UNCHANGED <<priority, wanted, sleep_left, resVars, runq,
                 highest_prio_level, sleepqueue, current_task, handler>>

-----------------------------------------------------------------------------
(* Calls of the current task.                                              *)

TaskYield(t) ==
  /\ App(t)
  /\ pendsv' = TRUE
  /\ UNCHANGED <<taskVars, resVars, runq, highest_prio_level, sleepqueue,
                 current_task, handler>>

\* os_task_suspend_self masks no interrupts: its two stores are two steps.
SuspendSelfMark(t) ==
  /\ App(t)
  /\ state' = [state EXCEPT ![t] = "SUSPENDED"]
  /\ pc' = [pc EXCEPT ![t] = "suspend"]
  /\ UNCHANGED <<priority, wanted, sleep_left, resVars, runq,
                 highest_prio_level, sleepqueue, current_task, pendsv, handler>>

SuspendSelfYield(t) ==
  /\ Thread
  /\ current_task = t
  /\ pc[t] = "suspend"
  /\ pc' = [pc EXCEPT ![t] = "app"]
  /\ pendsv' = TRUE
  /\ UNCHANGED <<state, priority, wanted, sleep_left, resVars, runq,
                 highest_prio_level, sleepqueue, current_task, handler>>

UnsuspendBug(other) ==
  /\ state[other] = "SUSPENDED"
  /\ state' = [state EXCEPT ![other] = "RUNNABLE"]
  /\ runq' = AddToTail(runq, other)
  /\ highest_prio_level' = Raise(highest_prio_level, other)
  /\ pendsv' = (pendsv \/ priority[current_task] < priority[other])
  /\ UNCHANGED <<priority, pc, wanted, sleep_left, resVars, sleepqueue,
                 current_task, handler>>

\* os_task_unsuspend of a suspended task, on behalf of the current one.
Unsuspend(other) ==
  /\ state[other] = "SUSPENDED"
  /\ state' = [state EXCEPT ![other] = "RUNNABLE"]
  /\ runq' = AddToTail(runq, other)
  /\ highest_prio_level' = Raise(highest_prio_level, other)
  /\ pendsv' = (pendsv \/ priority[current_task] > priority[other])
  /\ UNCHANGED <<priority, pc, wanted, sleep_left, resVars, sleepqueue,
                 current_task, handler>>

TaskUnsuspend(t, other) == App(t) /\ Unsuspend(other)

\* An interrupt handler of the application calls os_task_unsuspend, whoever runs
\* and whatever he does, also when PendSV waits behind it.  It does not interrupt
\* the two kernel handlers, nor unsuspend a task that has not finished
\* os_task_suspend_self.
IsrUnsuspend(other) ==
  /\ handler = "thread"
  /\ current_task # NULL
  /\ other = current_task => pendsv
  /\ Unsuspend(other)

TaskSleep(t, num_ticks) ==
  /\ App(t)
  /\ sleep_left' = [sleep_left EXCEPT ![t] = num_ticks]
  /\ state' = [state EXCEPT ![t] = "SLEEPING"]
  /\ \E i \in InsertPoints(sleepqueue, sleep_left, num_ticks) :
       sleepqueue' = InsertAt(sleepqueue, i, t)
  /\ pendsv' = TRUE
  /\ UNCHANGED <<priority, pc, wanted, resVars, runq, highest_prio_level,
                 current_task, handler>>

-----------------------------------------------------------------------------
(* Resources.                                                              *)

\* One iteration of the loop in os_resource_acquire, on the call or on the
\* retry after the task has been woken.
Acquires(t, r) ==
  /\ Thread
  /\ current_task = t
  /\ App(t) \/ wanted[t] = r

ResourceAcquire(t, r) ==
  /\ Acquires(t, r)
  /\ acquired_by[r] \in {NULL, t}
  /\ acquired_by' = [acquired_by EXCEPT ![r] = t]
  /\ wanted' = [wanted EXCEPT ![t] = NULL]
  /\ UNCHANGED <<state, priority, pc, sleep_left, waiting, runq,
                 highest_prio_level, sleepqueue, current_task, pendsv, handler>>

ResourceWait(t, r) ==
  /\ Acquires(t, r)
  /\ acquired_by[r] \notin {NULL, t}
  /\ state' = [state EXCEPT ![t] = "WAITING_FOR_RESOURCE"]
  /\ wanted' = [wanted EXCEPT ![t] = r]
  /\ \E i \in InsertPoints(waiting[r], priority, priority[t]) :
       waiting' = [waiting EXCEPT ![r] = InsertAt(@, i, t)]
  /\ pendsv' = TRUE
  /\ UNCHANGED <<priority, pc, sleep_left, acquired_by, runq,
                 highest_prio_level, sleepqueue, current_task, handler>>

\* Wakes nobody less urgent than the caller.
NoWakeupBug(t, r) ==
  /\ App(t)
  /\ acquired_by[r] = t
  /\ acquired_by' = [acquired_by EXCEPT ![r] = NULL]
  /\ IF waiting[r] = <<>> \/ priority[t] <= priority[Head(waiting[r])]
       THEN UNCHANGED <<state, waiting, runq, highest_prio_level, pendsv>>
       ELSE LET first == Head(waiting[r]) IN
            /\ waiting' = [waiting EXCEPT ![r] = Tail(@)]
            /\ state' = [state EXCEPT ![first] = "RUNNABLE"]
            /\ runq' = AddToHead(runq, first)
            /\ highest_prio_level' = Raise(highest_prio_level, first)
            /\ pendsv' = TRUE
  /\ UNCHANGED <<priority, pc, wanted, sleep_left, sleepqueue, current_task,
                 handler>>

\* Compares the priorities the wrong way round.
NoYieldBug(t, r) ==
  /\ App(t)
  /\ acquired_by[r] = t
  /\ acquired_by' = [acquired_by EXCEPT ![r] = NULL]
  /\ IF waiting[r] = <<>>
       THEN UNCHANGED <<state, waiting, runq, highest_prio_level, pendsv>>
       ELSE LET first == Head(waiting[r]) IN
            /\ waiting' = [waiting EXCEPT ![r] = Tail(@)]
            /\ state' = [state EXCEPT ![first] = "RUNNABLE"]
            /\ runq' = AddToHead(runq, first)
            /\ highest_prio_level' = Raise(highest_prio_level, first)
            /\ pendsv' = (priority[t] < priority[first])
  /\ UNCHANGED <<priority, pc, wanted, sleep_left, sleepqueue, current_task,
                 handler>>

\* os_resource_release by the owner; a call by another task returns at once.
ResourceRelease(t, r) ==
  /\ App(t)
  /\ acquired_by[r] = t
  /\ acquired_by' = [acquired_by EXCEPT ![r] = NULL]
  /\ IF waiting[r] = <<>>
       THEN UNCHANGED <<state, waiting, runq, highest_prio_level, pendsv>>
       ELSE LET first == Head(waiting[r]) IN
            /\ waiting' = [waiting EXCEPT ![r] = Tail(@)]
            /\ state' = [state EXCEPT ![first] = "RUNNABLE"]
            /\ runq' = AddToHead(runq, first)
            /\ highest_prio_level' = Raise(highest_prio_level, first)
            /\ pendsv' = (priority[t] > priority[first])
  /\ UNCHANGED <<priority, pc, wanted, sleep_left, sleepqueue, current_task,
                 handler>>

-----------------------------------------------------------------------------
(* The exception handlers.                                                 *)

\* Requeues the current task whatever its state.
PendSVBug ==
  /\ pendsv
  /\ pendsv' = FALSE
  /\ Dispatch(AddToTail(runq, current_task),
              Raise(highest_prio_level, current_task),
              [state EXCEPT ![current_task] = IF @ = "RUNNING" THEN "RUNNABLE" ELSE @])
  /\ UNCHANGED <<priority, pc, wanted, sleep_left, resVars, sleepqueue, handler>>

PendSV ==
  /\ pendsv
  /\ pendsv' = FALSE
  /\ IF state[current_task] = "RUNNING"
       THEN Dispatch(AddToTail(runq, current_task),
                     Raise(highest_prio_level, current_task),
                     [state EXCEPT ![current_task] = "RUNNABLE"])
       ELSE Dispatch(runq, highest_prio_level, state)
  /\ UNCHANGED <<priority, pc, wanted, sleep_left, resVars, sleepqueue, handler>>

\* sys_tick_handler up to os_tick_count++.  The sleep_left of a task that is
\* not asleep is dead, and set to 0.
SysTick ==
  /\ Thread
  /\ current_task # NULL
  /\ handler' = "sys_tick"
  /\ sleep_left' = [t \in Task |-> IF state[t] = "SLEEPING"
                                     THEN sleep_left[t] - 1 ELSE 0]
  /\ UNCHANGED <<state, priority, pc, wanted, resVars, runq,
                 highest_prio_level, sleepqueue, current_task, pendsv>>

MustWakeBug == sleepqueue # <<>> /\ sleep_left[Head(sleepqueue)] < 0

\* Compares for equality.
MustWakeExactBug == sleepqueue # <<>> /\ sleep_left[Head(sleepqueue)] = 0

\* The tests that end the loop of wakeup_tasks.
MustWake == sleepqueue # <<>> /\ sleep_left[Head(sleepqueue)] <= 0

\* One iteration of the loop of wakeup_tasks.
WakeUpTask ==
  /\ handler = "sys_tick"
  /\ MustWake
  /\ LET sleeping == Head(sleepqueue) IN
       /\ state' = [state EXCEPT ![sleeping] = "RUNNABLE"]
       /\ runq' = AddToHead(runq, sleeping)
       /\ highest_prio_level' = Raise(highest_prio_level, sleeping)
  /\ sleepqueue' = Tail(sleepqueue)
  /\ UNCHANGED <<priority, pc, wanted, sleep_left, resVars, current_task,
                 pendsv, handler>>

\* Drops the current task when another one can run.
SysTickReturnBug ==
  /\ handler = "sys_tick"
  /\ ~MustWake
  /\ Dispatch(IF \A p \in Level : runq[p] = <<>>
                THEN AddToTail(runq, current_task) ELSE runq,
              Raise(highest_prio_level, current_task),
              [state EXCEPT ![current_task] = "RUNNABLE"])
  /\ handler' = "thread"
  /\ UNCHANGED <<priority, pc, wanted, sleep_left, resVars, sleepqueue, pendsv>>

\* The rest of sys_tick_handler: it requeues the current task unconditionally.
SysTickReturn ==
  /\ handler = "sys_tick"
  /\ ~MustWake
  /\ Dispatch(AddToTail(runq, current_task),
              Raise(highest_prio_level, current_task),
              [state EXCEPT ![current_task] = "RUNNABLE"])
  /\ handler' = "thread"
  /\ UNCHANGED <<priority, pc, wanted, sleep_left, resVars, sleepqueue, pendsv>>

-----------------------------------------------------------------------------
TaskStep(t) ==
  \/ \E p \in Level : TaskInit(t, p)
  \/ TaskAdd(t)
  \/ TaskReturn(t)
  \/ TaskYield(t)
  \/ SuspendSelfMark(t)
  \/ SuspendSelfYield(t)
  \/ \E other \in Task : TaskUnsuspend(t, other)
  \/ \E n \in 0 .. MaxSleep : TaskSleep(t, n)
  \/ \E r \in Resource : \/ ResourceAcquire(t, r)
                         \/ ResourceWait(t, r)
                         \/ ResourceRelease(t, r)

Handler ==
  PendSV \/ SysTick \/ WakeUpTask \/ SysTickReturn \/ \E t \in Task : IsrUnsuspend(t)

Next == TasksStart \/ (\E t \in Task : TaskStep(t)) \/ Handler

Spec == Init /\ [][Next]_vars

\* An exception that becomes pending stays pending until it is taken, so
\* SysTick is taken although PendSV keeps preceding it; a handler runs to its
\* end; a task that is dispatched over and over gets on with a kernel call.
Fairness ==
  /\ WF_vars(TasksStart)
  /\ WF_vars(PendSV \/ WakeUpTask \/ SysTickReturn)
  /\ SF_vars(SysTick)
  /\ \A t \in Task \ {Idle} :
       SF_vars(\/ SuspendSelfYield(t)
               \/ \E r \in Resource :
                    wanted[t] = r /\ (ResourceAcquire(t, r) \/ ResourceWait(t, r)))

FairSpec == Spec /\ Fairness

-----------------------------------------------------------------------------
(* Safety.                                                                 *)

TypeOK ==
  /\ state \in [Task -> TaskState]
  /\ priority \in [Task -> Level]
  /\ pc \in [Task -> {"app", "suspend", "returned"}]
  /\ wanted \in [Task -> Resource \cup {NULL}]
  /\ sleep_left \in [Task -> -1 .. MaxSleep]
  /\ runq \in [Level -> Seq(Task)]
  /\ highest_prio_level \in Level
  /\ sleepqueue \in Seq(Task)
  /\ waiting \in [Resource -> Seq(Task)]
  /\ acquired_by \in [Resource -> Task \cup {NULL}]
  /\ current_task \in Task \cup {NULL}
  /\ pendsv \in BOOLEAN
  /\ handler \in {"thread", "sys_tick"}

\* Every list holds exactly the tasks in its state, each once: the run queue
\* of a level the RUNNABLE tasks of that priority, sleepqueue the SLEEPING
\* ones, the list of a resource the ones blocked in os_resource_acquire of it.
\* So no task is lost, and none is on two lists that share next_task.
QueuesMatchStates ==
  /\ \A p \in Level :
       /\ IsInjective(runq[p])
       /\ Range(runq[p]) = {t \in Task : state[t] = "RUNNABLE" /\ priority[t] = p}
  /\ IsInjective(sleepqueue)
  /\ Range(sleepqueue) = {t \in Task : state[t] = "SLEEPING"}
  /\ \A r \in Resource :
       /\ IsInjective(waiting[r])
       /\ Range(waiting[r]) = {t \in Task : state[t] = "WAITING_FOR_RESOURCE"
                                           /\ wanted[t] = r}

\* take_highest_prio_task finds a task whenever PendSV has not requeued the
\* current one: it never falls into its endless loop.
AlwaysATaskToRun ==
  (current_task # NULL /\ state[current_task] # "RUNNING")
    => \E p \in highest_prio_level .. NUM_PRIO_LEVELS - 1 : runq[p] # <<>>

\* No lost wake-up: while tasks wait for a resource that nobody owns, one that
\* was woken is on its way to retry os_resource_acquire.
NoLostWakeup ==
  \A r \in Resource :
    (acquired_by[r] = NULL /\ waiting[r] # <<>>)
      => \E t \in Task : wanted[t] = r /\ state[t] \in {"RUNNABLE", "RUNNING"}

\* The current task has the highest priority of all that can run.
HighestRuns ==
  (Thread /\ current_task # NULL)
    => \A t \in Task : state[t] = "RUNNABLE" => priority[current_task] <= priority[t]

\* Only os_task_add of a more urgent task leaves the processor with a less
\* urgent one: every other wake-up reschedules.
OnlyAddDelaysPriority ==
  [][HighestRuns => HighestRuns' \/ \E t \in Task : TaskAdd(t)]_vars

\* sys_tick_handler ends with no sleeper whose time has come still asleep, and
\* nobody leaves SLEEPING before that.
SleepersWakeOnTime ==
  [][\A t \in Task : state[t] = "SLEEPING" =>
       IF state'[t] = "SLEEPING"
         THEN handler = "sys_tick" /\ handler' = "thread" => sleep_left[t] > 0
         ELSE sleep_left[t] <= 0]_vars

\* A release hands the next try to a waiter that no other waiter outranks.
HighestWaiterFirst ==
  [][\A r \in Resource, t, other \in Task :
       (/\ state[t] = "WAITING_FOR_RESOURCE" /\ wanted[t] = r
        /\ state'[t] = "RUNNABLE"
        /\ state'[other] = "WAITING_FOR_RESOURCE" /\ wanted[other] = r)
         => priority[t] <= priority[other]]_vars

Ahead(queue, t, u) ==
  \E i, j \in 1 .. Len(queue) : i < j /\ queue[i] = t /\ queue[j] = u

\* Turns: nobody gets in front of a RUNNABLE task of its own level but a task
\* that has just been woken from sleep or from its wait for a resource.
OnlyWokenOvertake ==
  [][\A p \in Level, t, u \in Task :
       (Ahead(runq'[p], t, u) /\ state[u] = "RUNNABLE")
         => Ahead(runq[p], t, u) \/ state[t] \in {"SLEEPING", "WAITING_FOR_RESOURCE"}]_vars

\* Nobody gets in front of a waiter of a resource but a task that is more urgent:
\* not even one that has been woken, and has found the resource taken again.
WaitersKeepTheirTurn ==
  [][\A r \in Resource, t, u \in Task :
       (/\ Ahead(waiting'[r], t, u)
        /\ state[u] = "WAITING_FOR_RESOURCE" /\ wanted[u] = r)
         => Ahead(waiting[r], t, u) \/ priority[t] < priority[u]]_vars

\* os_resource_release gives the waiter it wakes no more than another try at the
\* resource.  Before that try only a task at least as urgent takes the resource,
\* whatever ticks, interrupt handlers and os_task_add do in between.
OnlyUrgentBarge ==
  [][\A r \in Resource, t, woken \in Task :
       (/\ acquired_by'[r] = t /\ acquired_by[r] # t
        /\ wanted[woken] = r /\ state[woken] = "RUNNABLE")
         => priority[t] <= priority[woken]]_vars

\* A task that was switched out SUSPENDED stays so until os_task_unsuspend.
SuspendedStays ==
  [][\A t \in Task :
       (state[t] = "SUSPENDED" /\ t # current_task /\ state'[t] # "SUSPENDED")
         => Unsuspend(t)]_vars

\* The promise of os_task_suspend_self in tasks.h: suspended until unsuspended.
SuspendedUntilUnsuspended ==
  [][\A t \in Task :
       (state[t] = "SUSPENDED" /\ state'[t] # "SUSPENDED")
         => Unsuspend(t)]_vars

-----------------------------------------------------------------------------
(* Liveness.                                                               *)

\* Round robin: a task that waits for the processor gets it, in spite of the
\* others of its level, which yield, sleep and wake up at the head of the queue,
\* unless a more urgent one can run.
CanRun(t)       == state[t] \in {"RUNNABLE", "RUNNING"}
NoneOutranks(t) == \A u \in Task : priority[u] < priority[t] => ~CanRun(u)

EqualsTakeTurns ==
  \A t \in Task :
    (state[t] = "RUNNABLE" /\ NoneOutranks(t)) ~> (state[t] = "RUNNING" \/ ~NoneOutranks(t))

\* The task outranks every other task.
Outranks(t) == \A u \in Task \ {t} : AppPriority[t] = {0} /\ 0 \notin AppPriority[u]

\* If owners keep giving a resource back, the most urgent task gets it.
TopWaiterServed ==
  \A t \in Task, r \in Resource :
    Outranks(t) =>
      ([]<>(acquired_by[r] \in {NULL, t})
         => (wanted[t] = r ~> acquired_by[r] = t))
=============================================================================
