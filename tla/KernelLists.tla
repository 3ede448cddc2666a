---------------------------- MODULE KernelLists ----------------------------
(***************************************************************************)
(* The kernel with the lists as the code links them: one next_task pointer *)
(* per task, which serves the run queues, the sleepqueue and the waiting   *)
(* lists alike, first and last pointers of the run queues, and the doubly  *)
(* linked list of all tasks.  It implements Kernel.                        *)
(*                                                                         *)
(* Operations that touch no list are those of Kernel.                      *)
(*                                                                         *)
(* Definitions whose names end in Bug are mistakes, as in Kernel.          *)
(***************************************************************************)
EXTENDS Chains, FiniteSets, Functions

CONSTANTS Task, Idle, Resource, NUM_PRIO_LEVELS, AppPriority, MaxSleep, NULL

VARIABLES
  state, priority, pc, wanted, sleep_left, highest_prio_level, acquired_by,
  current_task, pendsv, handler,        (* as in Kernel                    *)
  next_task,          (* task_t.next_task                                  *)
  task_prio_groups,   (* first and last of the run queue of each level     *)
  sleepqueue_head,
  first_waiting,      (* resource_t.first_waiting                          *)
  all_tasks,          (* first and last of the list of all tasks           *)
  tasklist_prev, tasklist_next          (* its links                       *)

allTasksVars == <<all_tasks, tasklist_prev, tasklist_next>>
runVars      == <<task_prio_groups, highest_prio_level>>
listVars     == <<next_task, task_prio_groups, sleepqueue_head, first_waiting>>
vars == <<state, priority, pc, wanted, sleep_left, highest_prio_level, acquired_by,
          current_task, pendsv, handler, listVars, allTasksVars>>

Level == 0 .. NUM_PRIO_LEVELS - 1
MaybeTask == Task \cup {NULL}

\* Task is finite; the other assumptions are those of Kernel.
ASSUME ListsAssumption ==
  /\ IsFiniteSet(Task)
  /\ Idle \in Task
  /\ NULL \notin Task \cup Resource
  /\ NUM_PRIO_LEVELS \in Nat \ {0}
  /\ AppPriority \in [Task -> SUBSET Level]
  /\ AppPriority[Idle] = {NUM_PRIO_LEVELS - 1}
  /\ MaxSleep \in Nat

-----------------------------------------------------------------------------
(* What the pointers mean.                                                 *)

Chain(first, next) == Walk(first, next, Task, NULL, Cardinality(Task))

runq       == [p \in Level |-> Chain(task_prio_groups[p].first, next_task)]
sleepqueue == Chain(sleepqueue_head, next_task)
waiting    == [r \in Resource |-> Chain(first_waiting[r], next_task)]

\* Kernel, with its lists in place of its variables runq, sleepqueue and waiting.
K == INSTANCE Kernel

-----------------------------------------------------------------------------
(* The operations on the links.                                            *)

Links == [next |-> next_task, groups |-> task_prio_groups]

SetLinks(links) == next_task' = links.next /\ task_prio_groups' = links.groups

OnlyOne(t) == [first |-> t, last |-> t]

\* sched_add_to_runqueue_head.  It leaves next_task of a lone task alone.
AddToHead(links, t) ==
  LET p == priority[t] IN
  IF links.groups[p].first = NULL
    THEN [links EXCEPT !.groups[p] = OnlyOne(t)]
    ELSE [links EXCEPT !.next[t] = links.groups[p].first,
                       !.groups[p].first = t]

AddToTailBug(links, t) ==
  LET p == priority[t] IN
  IF links.groups[p].first = NULL
    THEN [links EXCEPT !.groups[p] = OnlyOne(t)]
    ELSE [links EXCEPT !.next[links.groups[p].last] = t, !.groups[p].last = t]

\* sched_add_to_runqueue_tail
AddToTail(links, t) ==
  LET p == priority[t] IN
  IF links.groups[p].first = NULL
    THEN [links EXCEPT !.groups[p] = OnlyOne(t), !.next[t] = NULL]
    ELSE [links EXCEPT !.next = [links.next EXCEPT ![links.groups[p].last] = t,
                                                   ![t] = NULL],
                       !.groups[p].last = t]

\* Leaves the last pointer of an emptied queue alone.
DispatchBug(links, hint, st) ==
  \E level \in hint .. NUM_PRIO_LEVELS - 1 :
    LET task == links.groups[level].first IN
    /\ task # NULL
    /\ \A p \in hint .. level - 1 : links.groups[p].first = NULL
    /\ SetLinks([links EXCEPT !.groups[level].first = links.next[task]])
    /\ highest_prio_level' = level
    /\ current_task' = task
    /\ state' = [st EXCEPT ![task] = "RUNNING"]

\* The part of take_highest_prio_task and its callers that Kernel calls
\* Dispatch.  next_task of the task taken keeps its value.
Dispatch(links, hint, st) ==
  \E level \in hint .. NUM_PRIO_LEVELS - 1 :
    LET task == links.groups[level].first
        rest == links.next[task]
    IN /\ task # NULL
       /\ \A p \in hint .. level - 1 : links.groups[p].first = NULL
       /\ SetLinks([links EXCEPT
            !.groups[level] = [first |-> rest,
                               last  |-> IF rest = NULL THEN NULL ELSE @.last]])
       /\ highest_prio_level' = level
       /\ current_task' = task
       /\ state' = [st EXCEPT ![task] = "RUNNING"]

\* sched_add_to_sleepqueue and insert_waiting_task: the new head and links of
\* the list, which is ordered by key.
InsertByKey(head, next, key, t) ==
  LET stop[s \in Task] ==
        IF next[s] = NULL \/ key[next[s]] > key[t] THEN s ELSE stop[next[s]]
  IN IF head = NULL \/ key[head] > key[t]
       THEN [head |-> t, next |-> [next EXCEPT ![t] = head]]
       ELSE LET s == stop[head] IN
            [head |-> head, next |-> [next EXCEPT ![s] = t, ![t] = next[s]]]

\* os_task_add appends to the list of all tasks,
JoinAllTasks(t) ==
  LET last == all_tasks.last IN
  IF all_tasks.first = NULL
    THEN /\ all_tasks' = OnlyOne(t)
         /\ tasklist_next' = [tasklist_next EXCEPT ![t] = NULL]
         /\ tasklist_prev' = [tasklist_prev EXCEPT ![t] = NULL]
    ELSE /\ all_tasks' = [all_tasks EXCEPT !.last = t]
         /\ tasklist_next' = [tasklist_next EXCEPT ![last] = t, ![t] = NULL]
         /\ tasklist_prev' = [tasklist_prev EXCEPT ![t] = last]

\* Does not link the next task back.
LeaveAllTasksBug(t) ==
  LET prev == tasklist_prev[t]
      next == tasklist_next[t]
  IN /\ all_tasks' = [first |-> IF prev = NULL THEN next ELSE all_tasks.first,
                      last  |-> IF next = NULL THEN prev ELSE all_tasks.last]
     /\ tasklist_prev' = [tasklist_prev EXCEPT ![t] = NULL]
     /\ tasklist_next' = [u \in Task |-> IF u = t THEN NULL
                                           ELSE IF u = prev THEN next
                                           ELSE tasklist_next[u]]

\* and __task_runner unlinks the task that has returned.
LeaveAllTasks(t) ==
  LET prev == tasklist_prev[t]
      next == tasklist_next[t]
  IN /\ all_tasks' = [first |-> IF prev = NULL THEN next ELSE all_tasks.first,
                      last  |-> IF next = NULL THEN prev ELSE all_tasks.last]
     /\ tasklist_prev' = [u \in Task |-> IF u = t THEN NULL
                                           ELSE IF u = next THEN prev
                                           ELSE tasklist_prev[u]]
     /\ tasklist_next' = [u \in Task |-> IF u = t THEN NULL
                                           ELSE IF u = prev THEN next
                                           ELSE tasklist_next[u]]

-----------------------------------------------------------------------------
Init ==
  /\ next_task = [t \in Task |-> NULL]
  /\ task_prio_groups = [p \in Level |-> OnlyOne(IF p = NUM_PRIO_LEVELS - 1
                                                  THEN Idle ELSE NULL)]
  /\ sleepqueue_head = NULL
  /\ first_waiting = [r \in Resource |-> NULL]
  /\ all_tasks = OnlyOne(Idle)
  /\ tasklist_prev = [t \in Task |-> NULL]
  /\ tasklist_next = [t \in Task |-> NULL]
  /\ K!Init

TaskInit(t, prio) ==
  /\ K!Caller
  /\ state[t] = "STOPPED"
  /\ prio \in AppPriority[t]
  /\ priority' = [priority EXCEPT ![t] = prio]
  /\ pc' = [pc EXCEPT ![t] = "app"]
  /\ next_task' = [next_task EXCEPT ![t] = NULL]
  /\ tasklist_prev' = [tasklist_prev EXCEPT ![t] = NULL]
  /\ tasklist_next' = [tasklist_next EXCEPT ![t] = NULL]
  /\ UNCHANGED <<state, wanted, sleep_left, acquired_by, highest_prio_level,
                 current_task, pendsv, handler, task_prio_groups, sleepqueue_head,
                 first_waiting, all_tasks>>

TaskAdd(t) ==
  /\ K!Caller
  /\ pc[t] = "app"
  /\ state[t] = "STOPPED"
  /\ state' = [state EXCEPT ![t] = "RUNNABLE"]
  /\ JoinAllTasks(t)
  /\ SetLinks(AddToTail(Links, t))
  /\ highest_prio_level' = K!Raise(highest_prio_level, t)
  /\ UNCHANGED <<priority, pc, wanted, sleep_left, acquired_by, current_task,
                 pendsv, handler, sleepqueue_head, first_waiting>>

TasksStart ==
  /\ current_task = NULL
  /\ Dispatch(Links, highest_prio_level, state)
  /\ UNCHANGED <<priority, pc, wanted, sleep_left, acquired_by, pendsv, handler,
                 sleepqueue_head, first_waiting, allTasksVars>>

TaskReturn(t) ==
  /\ K!App(t)
  /\ LeaveAllTasks(t)
  /\ UNCHANGED listVars
  /\ K!TaskReturn(t)

Unsuspend(other) ==
  /\ state[other] = "SUSPENDED"
  /\ state' = [state EXCEPT ![other] = "RUNNABLE"]
  /\ SetLinks(AddToTail(Links, other))
  /\ highest_prio_level' = K!Raise(highest_prio_level, other)
  /\ pendsv' = (pendsv \/ priority[current_task] > priority[other])
  /\ UNCHANGED <<priority, pc, wanted, sleep_left, acquired_by, current_task,
                 handler, sleepqueue_head, first_waiting, allTasksVars>>

TaskUnsuspend(t, other) == K!App(t) /\ Unsuspend(other)

IsrUnsuspend(other) ==
  /\ handler = "thread"
  /\ current_task # NULL
  /\ other = current_task => pendsv
  /\ Unsuspend(other)

TaskSleep(t, num_ticks) ==
  /\ K!App(t)
  /\ sleep_left' = [sleep_left EXCEPT ![t] = num_ticks]
  /\ state' = [state EXCEPT ![t] = "SLEEPING"]
  /\ LET list == InsertByKey(sleepqueue_head, next_task, sleep_left', t) IN
       sleepqueue_head' = list.head /\ next_task' = list.next
  /\ pendsv' = TRUE
  /\ UNCHANGED <<priority, pc, wanted, acquired_by, current_task, handler,
                 first_waiting, runVars, allTasksVars>>

ResourceWait(t, r) ==
  /\ K!Acquires(t, r)
  /\ acquired_by[r] \notin {NULL, t}
  /\ state' = [state EXCEPT ![t] = "WAITING_FOR_RESOURCE"]
  /\ wanted' = [wanted EXCEPT ![t] = r]
  /\ LET list == InsertByKey(first_waiting[r], next_task, priority, t) IN
       /\ first_waiting' = [first_waiting EXCEPT ![r] = list.head]
       /\ next_task' = list.next
  /\ pendsv' = TRUE
  /\ UNCHANGED <<priority, pc, sleep_left, acquired_by, current_task, handler,
                 sleepqueue_head, runVars, allTasksVars>>

ResourceRelease(t, r) ==
  /\ K!App(t)
  /\ acquired_by[r] = t
  /\ acquired_by' = [acquired_by EXCEPT ![r] = NULL]
  /\ LET first == first_waiting[r] IN
     IF first = NULL
       THEN UNCHANGED <<state, runVars, next_task, first_waiting, pendsv>>
       ELSE /\ first_waiting' = [first_waiting EXCEPT ![r] = next_task[first]]
            /\ state' = [state EXCEPT ![first] = "RUNNABLE"]
            /\ SetLinks(AddToHead([Links EXCEPT !.next[first] = NULL], first))
            /\ highest_prio_level' = K!Raise(highest_prio_level, first)
            /\ pendsv' = (priority[t] > priority[first])
  /\ UNCHANGED <<priority, pc, wanted, sleep_left, current_task, handler,
                 sleepqueue_head, allTasksVars>>

PendSV ==
  /\ pendsv
  /\ pendsv' = FALSE
  /\ IF state[current_task] = "RUNNING"
       THEN Dispatch(AddToTail(Links, current_task),
                     K!Raise(highest_prio_level, current_task),
                     [state EXCEPT ![current_task] = "RUNNABLE"])
       ELSE Dispatch(Links, highest_prio_level, state)
  /\ UNCHANGED <<priority, pc, wanted, sleep_left, acquired_by, handler,
                 sleepqueue_head, first_waiting, allTasksVars>>

MustWake == sleepqueue_head # NULL /\ sleep_left[sleepqueue_head] <= 0

WakeUpTask ==
  /\ handler = "sys_tick"
  /\ MustWake
  /\ LET sleeping == sleepqueue_head IN
       /\ sleepqueue_head' = next_task[sleeping]
       /\ state' = [state EXCEPT ![sleeping] = "RUNNABLE"]
       /\ SetLinks(AddToHead([Links EXCEPT !.next[sleeping] = NULL], sleeping))
       /\ highest_prio_level' = K!Raise(highest_prio_level, sleeping)
  /\ UNCHANGED <<priority, pc, wanted, sleep_left, acquired_by, current_task,
                 pendsv, handler, first_waiting, allTasksVars>>

SysTickReturn ==
  /\ handler = "sys_tick"
  /\ ~MustWake
  /\ Dispatch(AddToTail(Links, current_task),
              K!Raise(highest_prio_level, current_task),
              [state EXCEPT ![current_task] = "RUNNABLE"])
  /\ handler' = "thread"
  /\ UNCHANGED <<priority, pc, wanted, sleep_left, acquired_by, pendsv,
                 sleepqueue_head, first_waiting, allTasksVars>>

\* The operations that touch no list.
Other ==
  /\ UNCHANGED <<listVars, allTasksVars>>
  /\ \/ K!SysTick
     \/ \E t \in Task : \/ K!TaskYield(t)
                        \/ K!SuspendSelfMark(t)
                        \/ K!SuspendSelfYield(t)
                        \/ \E r \in Resource : K!ResourceAcquire(t, r)

Next ==
  \/ TasksStart \/ PendSV \/ WakeUpTask \/ SysTickReturn \/ Other
  \/ \E t \in Task :
       \/ \E p \in Level : TaskInit(t, p)
       \/ TaskAdd(t)
       \/ TaskReturn(t)
       \/ \E other \in Task : TaskUnsuspend(t, other)
       \/ IsrUnsuspend(t)
       \/ \E n \in 0 .. MaxSleep : TaskSleep(t, n)
       \/ \E r \in Resource : ResourceWait(t, r) \/ ResourceRelease(t, r)

Spec == Init /\ [][Next]_vars

-----------------------------------------------------------------------------
\* The last pointer of a run queue is the end of what its first pointer leads
\* to, so that sched_add_to_runqueue_tail appends to the queue that
\* take_highest_prio_task takes from.
LastIsLast ==
  \A p \in Level :
    LET group == task_prio_groups[p]
        queue == Chain(group.first, next_task)
    IN group.last = IF queue = <<>> THEN NULL ELSE queue[Len(queue)]

\* A task is in the list of all tasks, once, from os_task_add to the end of its
\* function, and the list reads the same in both directions.
AllTasksLinked ==
  LET forward  == Chain(all_tasks.first, tasklist_next)
      backward == Chain(all_tasks.last, tasklist_prev)
  IN /\ IsInjective(forward)
     /\ Range(forward) = {t \in Task : state[t] # "STOPPED"}
     /\ Len(backward) = Len(forward)
     /\ \A i \in DOMAIN forward : backward[Len(forward) + 1 - i] = forward[i]

\* The linked lists implement the sequences of Kernel.
ImplementsKernel == K!Spec
=============================================================================
