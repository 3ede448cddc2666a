---------------------------- MODULE KernelProofs ----------------------------
(***************************************************************************)
(* The inductive invariant of Kernel, and the theorems that follow from it *)
(* for any tasks, resources, priorities and bound on sleep.                *)
(***************************************************************************)
EXTENDS Kernel, TaskLists

-----------------------------------------------------------------------------
(* The inductive invariant.                                                *)

\* The run queue of each level holds the RUNNABLE tasks of that priority.
RunQueues(rq, st, prio) ==
  /\ rq \in [Level -> Seq(Task)]
  /\ \A p \in Level :
       /\ IsInjective(rq[p])
       /\ Range(rq[p]) = {t \in Task : st[t] = "RUNNABLE" /\ prio[t] = p}

\* highest_prio_level is not below a task that can run.
HintSound(rq, hint) ==
  /\ hint \in Level
  /\ \A p \in Level : p < hint => rq[p] = <<>>

\* sleepqueue holds the SLEEPING tasks, in the order of their wake-up times.
SleepQueue(queue, st, left) ==
  /\ queue \in Seq(Task)
  /\ IsInjective(queue)
  /\ Range(queue) = {t \in Task : st[t] = "SLEEPING"}
  /\ Ordered(queue, left)

\* The list of a resource holds the tasks blocked on it, most urgent first.
WaitingLists(lists, st, want, prio) ==
  /\ lists \in [Resource -> Seq(Task)]
  /\ \A r \in Resource :
       /\ IsInjective(lists[r])
       /\ Range(lists[r]) =
            {t \in Task : st[t] = "WAITING_FOR_RESOURCE" /\ want[t] = r}
       /\ Ordered(lists[r], prio)

\* Unless its switch is pending, the current task is RUNNING, or inside
\* os_task_suspend_self: on no run queue.
CurrentOwnsCPU ==
  /\ pendsv => current_task # NULL /\ handler = "thread"
  /\ handler = "sys_tick" => current_task # NULL
  /\ \A t \in Task : state[t] = "RUNNING" => t = current_task
  /\ (current_task # NULL /\ ~pendsv) =>
       \/ state[current_task] = "RUNNING"
       \/ state[current_task] = "SUSPENDED" /\ pc[current_task] = "suspend"

\* A task inside os_resource_acquire is nowhere else, and idle_task is always
\* able to run.
Programs ==
  /\ \A t \in Task : wanted[t] # NULL => pc[t] = "app"
  /\ wanted[Idle] = NULL
  /\ state[Idle] \in {"RUNNABLE", "RUNNING"}

\* No sleeper is overdue while threads run.
NoneOverdue ==
  handler = "thread" => \A t \in Task : state[t] = "SLEEPING" => sleep_left[t] >= 0

IInv ==
  /\ TypeOK
  /\ RunQueues(runq, state, priority)
  /\ HintSound(runq, highest_prio_level)
  /\ SleepQueue(sleepqueue, state, sleep_left)
  /\ WaitingLists(waiting, state, wanted, priority)
  /\ CurrentOwnsCPU
  /\ Programs
  /\ NoneOverdue
  /\ NoLostWakeup

-----------------------------------------------------------------------------
(* What the operations on the queues preserve.                             *)

\* A step that makes nobody RUNNABLE, stops nobody from being it and moves
\* nobody who is to another level may leave the run queues alone.
LEMMA RunQueuesFrame ==
  ASSUME NEW rq, NEW st, NEW st2, NEW prio, NEW prio2,
         RunQueues(rq, st, prio),
         \A t \in Task : st2[t] = "RUNNABLE" <=> st[t] = "RUNNABLE",
         \A t \in Task : st[t] = "RUNNABLE" => prio2[t] = prio[t]
  PROVE  RunQueues(rq, st2, prio2)
  <1>1. \A p \in Level : {t \in Task : st2[t] = "RUNNABLE" /\ prio2[t] = p}
                           = {t \in Task : st[t] = "RUNNABLE" /\ prio[t] = p}
    OBVIOUS
  <1> QED BY <1>1 DEF RunQueues

\* The same for the sleepqueue,
LEMMA SleepQueueFrame ==
  ASSUME NEW queue, NEW st, NEW st2, NEW left, NEW left2,
         SleepQueue(queue, st, left),
         \A t \in Task : st2[t] = "SLEEPING" <=> st[t] = "SLEEPING",
         \A t \in Task : st[t] = "SLEEPING" => left2[t] = left[t]
  PROVE  SleepQueue(queue, st2, left2)
  <1>1. {t \in Task : st2[t] = "SLEEPING"} = {t \in Task : st[t] = "SLEEPING"}
    OBVIOUS
  <1>2. \A i \in 1 .. Len(queue) : queue[i] \in Range(queue)
    BY RangeEquality DEF SleepQueue
  <1>3. \A i \in 1 .. Len(queue) : left2[queue[i]] = left[queue[i]]
    BY <1>2 DEF SleepQueue
  <1> QED BY <1>1, <1>3 DEF SleepQueue, Ordered

\* and for the waiting lists.
LEMMA WaitingListsFrame ==
  ASSUME NEW lists, NEW st, NEW st2, NEW want, NEW want2, NEW prio, NEW prio2,
         WaitingLists(lists, st, want, prio),
         \A t \in Task :
           st2[t] = "WAITING_FOR_RESOURCE" <=> st[t] = "WAITING_FOR_RESOURCE",
         \A t \in Task : st[t] = "WAITING_FOR_RESOURCE"
                           => want2[t] = want[t] /\ prio2[t] = prio[t]
  PROVE  WaitingLists(lists, st2, want2, prio2)
  <1> SUFFICES ASSUME NEW r \in Resource
               PROVE  /\ Range(lists[r]) = {t \in Task : st2[t] = "WAITING_FOR_RESOURCE"
                                                          /\ want2[t] = r}
                      /\ Ordered(lists[r], prio2)
    BY DEF WaitingLists
  <1>1. {t \in Task : st2[t] = "WAITING_FOR_RESOURCE" /\ want2[t] = r}
          = {t \in Task : st[t] = "WAITING_FOR_RESOURCE" /\ want[t] = r}
    OBVIOUS
  <1>2. lists[r] \in Seq(Task) /\ Ordered(lists[r], prio)
    BY DEF WaitingLists
  <1>3. \A i \in 1 .. Len(lists[r]) : lists[r][i] \in Range(lists[r])
    BY <1>2, RangeEquality
  <1>4. \A i \in 1 .. Len(lists[r]) : prio2[lists[r][i]] = prio[lists[r][i]]
    BY <1>3 DEF WaitingLists
  <1> QED BY <1>1, <1>2, <1>4 DEF WaitingLists, Ordered

\* sched_add_to_runqueue_tail and _head queue a task that has become RUNNABLE.
LEMMA Enqueued ==
  ASSUME KernelAssumption,
         NEW rq, NEW hint, NEW st \in [Task -> TaskState], NEW t \in Task,
         priority \in [Task -> Level],
         RunQueues(rq, st, priority), HintSound(rq, hint), st[t] # "RUNNABLE",
         NEW rq2 \in {AddToTail(rq, t), AddToHead(rq, t)}
  PROVE  /\ RunQueues(rq2, [st EXCEPT ![t] = "RUNNABLE"], priority)
         /\ HintSound(rq2, Raise(hint, t))
  <1> DEFINE p  == priority[t]
             st2 == [st EXCEPT ![t] = "RUNNABLE"]
  <1>1. p \in Level /\ rq \in [Level -> Seq(Task)] /\ rq[p] \in Seq(Task)
    BY DEF RunQueues
  <1>2. t \notin Range(rq[p]) /\ IsInjective(rq[p])
    BY <1>1 DEF RunQueues
  <1>3. \E i : Inserted(Task, rq[p], rq2[p], i, t)
    <2>1. Inserted(Task, rq[p], Append(rq[p], t), Len(rq[p]) + 1, t)
      BY <1>1, AppendInserts
    <2>2. Inserted(Task, rq[p], <<t>> \o rq[p], 1, t)
      BY <1>1, ConsInserts
    <2>3. rq2[p] \in {Append(rq[p], t), <<t>> \o rq[p]}
      BY <1>1 DEF AddToTail, AddToHead
    <2> QED BY <2>1, <2>2, <2>3
  <1>4. /\ Range(rq2[p]) = Range(rq[p]) \cup {t}
        /\ IsInjective(rq2[p])
        /\ rq2[p] \in Seq(Task)
    <2>1. PICK i : Inserted(Task, rq[p], rq2[p], i, t)
      BY <1>3
    <2>2. rq2[p] \in Seq(Task)
      BY <2>1 DEF Inserted
    <2> HIDE DEF p
    <2>3. /\ Range(rq2[p]) = Range(rq[p]) \cup {t}
          /\ IsInjective(rq[p]) /\ t \notin Range(rq[p]) => IsInjective(rq2[p])
      BY <1>1, <2>1, InsertedRange
    <2> QED BY <1>2, <2>2, <2>3
  <1>5. \A q \in Level \ {p} : rq2[q] = rq[q]
    BY <1>1 DEF AddToTail, AddToHead
  <1>6. rq2 \in [Level -> Seq(Task)]
    <2>1. rq2 = [rq EXCEPT ![p] = rq2[p]]
      BY <1>1 DEF AddToTail, AddToHead
    <2> QED BY <1>1, <1>4, <2>1
  <1>7. \A u \in Task : st2[u] = IF u = t THEN "RUNNABLE" ELSE st[u]
    OBVIOUS
  <1> HIDE DEF st2
  <1>8. RunQueues(rq2, st2, priority)
    <2> SUFFICES ASSUME NEW q \in Level
                 PROVE  /\ IsInjective(rq2[q])
                        /\ Range(rq2[q]) =
                             {u \in Task : st2[u] = "RUNNABLE" /\ priority[u] = q}
      BY <1>6 DEF RunQueues
    <2>1. /\ IsInjective(rq[q])
          /\ Range(rq[q]) = {u \in Task : st[u] = "RUNNABLE" /\ priority[u] = q}
      BY DEF RunQueues
    <2>2. CASE q = p
      BY <1>4, <1>7, <2>1, <2>2
    <2>3. CASE q # p
      BY <1>5, <1>7, <2>1, <2>3
    <2> QED BY <2>2, <2>3
  <1>9. HintSound(rq2, Raise(hint, t))
    <2>1. hint \in Level /\ \A q \in Level : q < hint => rq[q] = <<>>
      BY DEF HintSound
    <2>2. \A q \in Level : q \in Int
      BY DEF KernelAssumption, Level
    <2>3. Raise(hint, t) \in {p, hint} /\ Raise(hint, t) <= p /\ Raise(hint, t) <= hint
      BY <1>1, <2>1, <2>2 DEF Raise
    <2>4. \A q \in Level : q < Raise(hint, t) => q # p /\ q < hint
      BY <1>1, <2>1, <2>2, <2>3
    <2> QED BY <1>1, <1>5, <2>1, <2>3, <2>4 DEF HintSound
  <1> QED BY <1>8, <1>9 DEF st2

\* take_highest_prio_task takes a RUNNABLE task that no other one outranks.
LEMMA Dispatched ==
  ASSUME KernelAssumption,
         NEW rq, NEW hint, NEW st \in [Task -> TaskState],
         priority \in [Task -> Level],
         RunQueues(rq, st, priority), HintSound(rq, hint),
         Dispatch(rq, hint, st)
  PROVE  \E t \in Task :
           /\ st[t] = "RUNNABLE"
           /\ current_task' = t
           /\ state' = [st EXCEPT ![t] = "RUNNING"]
           /\ RunQueues(runq', state', priority)
           /\ HintSound(runq', highest_prio_level')
           /\ \A u \in Task : st[u] = "RUNNABLE" => priority[t] <= priority[u]
  <1>1. PICK level \in hint .. NUM_PRIO_LEVELS - 1 :
          /\ rq[level] # <<>>
          /\ \A p \in hint .. level - 1 : rq[p] = <<>>
          /\ runq' = [p \in Level |-> IF p = level THEN Tail(rq[p]) ELSE rq[p]]
          /\ highest_prio_level' = level
          /\ current_task' = Head(rq[level])
          /\ state' = [st EXCEPT ![Head(rq[level])] = "RUNNING"]
    BY DEF Dispatch
  <1> DEFINE t == Head(rq[level])
  <1>2. \A p \in Level : p \in Int
    BY DEF KernelAssumption, Level
  <1>3. hint \in Level /\ level \in Level
    BY DEF HintSound, Level, KernelAssumption
  <1>4. \A p \in Level : p < level => rq[p] = <<>>
    <2> SUFFICES ASSUME NEW p \in Level, p < level
                 PROVE  rq[p] = <<>>
      OBVIOUS
    <2>1. CASE p < hint
      BY <2>1 DEF HintSound
    <2>2. CASE p >= hint
      BY <1>1, <1>2, <1>3, <2>2
    <2> QED BY <1>2, <1>3, <2>1, <2>2
  <1>5. /\ rq \in [Level -> Seq(Task)]
        /\ IsInjective(rq[level])
        /\ Range(rq[level]) = {u \in Task : st[u] = "RUNNABLE" /\ priority[u] = level}
    BY <1>3 DEF RunQueues
  <1>6. /\ t \in Range(rq[level])
        /\ Tail(rq[level]) \in Seq(Task)
        /\ IsInjective(Tail(rq[level]))
        /\ Range(Tail(rq[level])) = Range(rq[level]) \ {t}
    BY <1>1, <1>3, <1>5, TailRemoves
  <1> HIDE DEF t
  <1>7. t \in Task /\ st[t] = "RUNNABLE" /\ priority[t] = level
    BY <1>5, <1>6
  <1>8. current_task' = t /\ state' = [st EXCEPT ![t] = "RUNNING"]
    BY <1>1 DEF t
  <1>9. \A u \in Task : state'[u] = IF u = t THEN "RUNNING" ELSE st[u]
    BY <1>8
  <1>10. RunQueues(runq', state', priority)
    <2>1. /\ runq' \in [Level -> Seq(Task)]
          /\ runq'[level] = Tail(rq[level])
          /\ \A q \in Level \ {level} : runq'[q] = rq[q]
      BY <1>1, <1>3, <1>5, <1>6
    <2> SUFFICES ASSUME NEW q \in Level
                 PROVE  /\ IsInjective(runq'[q])
                        /\ Range(runq'[q]) =
                             {u \in Task : state'[u] = "RUNNABLE" /\ priority[u] = q}
      BY <2>1 DEF RunQueues
    <2>2. CASE q = level
      BY <1>5, <1>6, <1>9, <2>1, <2>2
    <2>3. CASE q # level
      <3>1. /\ IsInjective(rq[q])
            /\ Range(rq[q]) = {u \in Task : st[u] = "RUNNABLE" /\ priority[u] = q}
        BY DEF RunQueues
      <3> QED BY <1>7, <1>9, <2>1, <2>3, <3>1
    <2> QED BY <2>2, <2>3
  <1>11. HintSound(runq', highest_prio_level')
    BY <1>1, <1>2, <1>3, <1>4, <1>5 DEF HintSound
  <1>12. ASSUME NEW u \in Task, st[u] = "RUNNABLE"
         PROVE  priority[t] <= priority[u]
    <2>1. priority[u] \in Level /\ u \in Range(rq[priority[u]])
      BY <1>12 DEF RunQueues
    <2>2. rq[priority[u]] # <<>>
      BY <1>5, <2>1, EmptyRange
    <2> QED BY <1>2, <1>3, <1>4, <1>7, <2>1, <2>2
  <1> QED BY <1>7, <1>8, <1>10, <1>11, <1>12

\* sched_add_to_sleepqueue puts a task where its wake-up time belongs.
LEMMA FellAsleep ==
  ASSUME NEW queue, NEW st \in [Task -> TaskState], NEW left \in [Task -> Int],
         SleepQueue(queue, st, left),
         NEW t \in Task, st[t] # "SLEEPING",
         NEW n \in Int, NEW i \in InsertPoints(queue, left, n)
  PROVE  SleepQueue(InsertAt(queue, i, t), [st EXCEPT ![t] = "SLEEPING"],
                    [left EXCEPT ![t] = n])
  <1> DEFINE st2   == [st EXCEPT ![t] = "SLEEPING"]
             left2 == [left EXCEPT ![t] = n]
             q     == InsertAt(queue, i, t)
  <1>1. /\ queue \in Seq(Task)
        /\ IsInjective(queue)
        /\ Range(queue) = {u \in Task : st[u] = "SLEEPING"}
        /\ Ordered(queue, left)
    BY DEF SleepQueue
  <1>2. /\ i \in 1 .. Len(queue) + 1
        /\ \A j \in 1 .. i - 1 : left[queue[j]] <= n
        /\ i <= Len(queue) => left[queue[i]] > n
    BY DEF InsertPoints
  <1>3. Inserted(Task, queue, q, i, t)
    BY <1>1, <1>2, InsertAtInserts
  <1>4. \A j \in 1 .. Len(queue) : queue[j] \in Task /\ queue[j] # t
    BY <1>1, RangeEquality
  <1>5. /\ left2[t] = n
        /\ \A u \in Task : left2[u] \in Int
        /\ \A u \in Task : u # t => left2[u] = left[u]
        /\ \A u \in Task : st2[u] = IF u = t THEN "SLEEPING" ELSE st[u]
    OBVIOUS
  <1> HIDE DEF st2, left2, q
  <1>6. Len(queue) \in Nat
    BY <1>1, LenProperties
  <1>7. Ordered(queue, left2)
    BY <1>1, <1>4, <1>5 DEF Ordered
  <1>8. /\ \A j \in 1 .. i - 1 : left2[queue[j]] <= left2[t]
        /\ i <= Len(queue) => left2[t] <= left2[queue[i]]
    BY <1>2, <1>4, <1>5, <1>6
  <1>9. Ordered(q, left2)
    BY <1>1, <1>3, <1>5, <1>7, <1>8, InsertedOrdered
  <1>10. Range(q) = Range(queue) \cup {t} /\ IsInjective(q)
    BY <1>1, <1>3, InsertedRange
  <1>11. SleepQueue(q, st2, left2)
    BY <1>1, <1>3, <1>5, <1>9, <1>10 DEF SleepQueue, Inserted
  <1> QED BY <1>11 DEF q, st2, left2

\* wakeup_tasks takes the sleeper with the earliest wake-up time.
LEMMA WokenUp ==
  ASSUME NEW queue, NEW st \in [Task -> TaskState], NEW left \in [Task -> Int],
         SleepQueue(queue, st, left), queue # <<>>
  PROVE  /\ Head(queue) \in Task
         /\ st[Head(queue)] = "SLEEPING"
         /\ \A u \in Task : st[u] = "SLEEPING" => left[Head(queue)] <= left[u]
         /\ SleepQueue(Tail(queue), [st EXCEPT ![Head(queue)] = "RUNNABLE"], left)
  <1> DEFINE h   == Head(queue)
             st2 == [st EXCEPT ![h] = "RUNNABLE"]
  <1>1. /\ queue \in Seq(Task)
        /\ IsInjective(queue)
        /\ Range(queue) = {u \in Task : st[u] = "SLEEPING"}
        /\ Ordered(queue, left)
    BY DEF SleepQueue
  <1>2. /\ h \in Range(queue)
        /\ Tail(queue) \in Seq(Task)
        /\ IsInjective(Tail(queue))
        /\ Range(Tail(queue)) = Range(queue) \ {h}
        /\ Ordered(Tail(queue), left)
        /\ \A u \in Range(queue) : left[h] <= left[u]
    BY <1>1, TailRemoves
  <1> HIDE DEF h
  <1>3. \A u \in Task : st2[u] = IF u = h THEN "RUNNABLE" ELSE st[u]
    OBVIOUS
  <1> HIDE DEF st2
  <1>4. SleepQueue(Tail(queue), st2, left)
    BY <1>1, <1>2, <1>3 DEF SleepQueue
  <1> QED BY <1>1, <1>2, <1>4 DEF h, st2

\* insert_waiting_task puts a task behind those it does not outrank.
LEMMA StartedWaiting ==
  ASSUME KernelAssumption,
         NEW st \in [Task -> TaskState], NEW want \in [Task -> Resource \cup {NULL}],
         NEW prio \in [Task -> Level], NEW lists,
         WaitingLists(lists, st, want, prio),
         NEW t \in Task, st[t] # "WAITING_FOR_RESOURCE",
         NEW r \in Resource, NEW i \in InsertPoints(lists[r], prio, prio[t])
  PROVE  WaitingLists([lists EXCEPT ![r] = InsertAt(@, i, t)],
                      [st EXCEPT ![t] = "WAITING_FOR_RESOURCE"],
                      [want EXCEPT ![t] = r], prio)
  <1> DEFINE st2    == [st EXCEPT ![t] = "WAITING_FOR_RESOURCE"]
             want2  == [want EXCEPT ![t] = r]
             queue  == lists[r]
             q      == InsertAt(queue, i, t)
             lists2 == [lists EXCEPT ![r] = q]
  <1>1. /\ queue \in Seq(Task)
        /\ IsInjective(queue)
        /\ Range(queue) = {u \in Task : st[u] = "WAITING_FOR_RESOURCE" /\ want[u] = r}
        /\ Ordered(queue, prio)
    BY DEF WaitingLists
  <1>2. /\ i \in 1 .. Len(queue) + 1
        /\ \A j \in 1 .. i - 1 : prio[queue[j]] <= prio[t]
        /\ i <= Len(queue) => prio[queue[i]] > prio[t]
    BY DEF InsertPoints
  <1>3. Inserted(Task, queue, q, i, t)
    BY <1>1, <1>2, InsertAtInserts
  <1>4. t \notin Range(queue)
    BY <1>1
  <1>5. \A u \in Task : prio[u] \in Int
    BY DEF Level, KernelAssumption
  <1>6. Len(queue) \in Nat /\ \A j \in 1 .. Len(queue) : queue[j] \in Task
    BY <1>1, LenProperties, ElementOfSeq
  <1>7. lists \in [Resource -> Seq(Task)]
    BY DEF WaitingLists
  <1>8. /\ \A u \in Task : st2[u] = IF u = t THEN "WAITING_FOR_RESOURCE" ELSE st[u]
        /\ \A u \in Task : want2[u] = IF u = t THEN r ELSE want[u]
        /\ lists2[r] = q
        /\ \A r2 \in Resource \ {r} : lists2[r2] = lists[r2]
    BY <1>7
  <1> HIDE DEF st2, want2, q, queue
  <1>9. i <= Len(queue) => prio[t] <= prio[queue[i]]
    BY <1>2, <1>5, <1>6
  <1>10. Ordered(q, prio)
    BY <1>1, <1>2, <1>3, <1>5, <1>9, InsertedOrdered
  <1>11. Range(q) = Range(queue) \cup {t} /\ IsInjective(q) /\ q \in Seq(Task)
    <2>1. q \in Seq(Task)
      BY <1>3 DEF Inserted
    <2> QED BY <1>1, <1>3, <1>4, <2>1, InsertedRange
  <1>12. lists2 \in [Resource -> Seq(Task)]
    BY <1>7, <1>11
  <1> HIDE DEF lists2
  <1>13. WaitingLists(lists2, st2, want2, prio)
    <2> SUFFICES ASSUME NEW r2 \in Resource
                 PROVE  /\ IsInjective(lists2[r2])
                        /\ Range(lists2[r2]) = {u \in Task :
                             st2[u] = "WAITING_FOR_RESOURCE" /\ want2[u] = r2}
                        /\ Ordered(lists2[r2], prio)
      BY <1>12 DEF WaitingLists
    <2>1. CASE r2 = r
      BY <1>1, <1>8, <1>10, <1>11, <2>1
    <2>2. CASE r2 # r
      BY <1>8, <2>2 DEF WaitingLists
    <2> QED BY <2>1, <2>2
  <1> QED BY <1>13 DEF lists2, q, queue, st2, want2

\* The first waiter is one that no other outranks.
LEMMA FirstWaiter ==
  ASSUME KernelAssumption, priority \in [Task -> Level],
         WaitingLists(waiting, state, wanted, priority),
         NEW r \in Resource, waiting[r] # <<>>
  PROVE  /\ Head(waiting[r]) \in Task
         /\ state[Head(waiting[r])] = "WAITING_FOR_RESOURCE"
         /\ wanted[Head(waiting[r])] = r
         /\ \A u \in Task : (state[u] = "WAITING_FOR_RESOURCE" /\ wanted[u] = r)
                              => priority[Head(waiting[r])] <= priority[u]
  <1>1. /\ waiting[r] \in Seq(Task)
        /\ IsInjective(waiting[r])
        /\ Range(waiting[r]) =
             {u \in Task : state[u] = "WAITING_FOR_RESOURCE" /\ wanted[u] = r}
        /\ Ordered(waiting[r], priority)
    BY DEF WaitingLists
  <1>2. \A u \in Task : priority[u] \in Int
    BY DEF Level, KernelAssumption
  <1>3. /\ Head(waiting[r]) \in Range(waiting[r])
        /\ \A u \in Range(waiting[r]) : priority[Head(waiting[r])] <= priority[u]
    BY <1>1, <1>2, TailRemoves
  <1> QED BY <1>1, <1>3

\* os_resource_release takes it off the list.
LEMMA StoppedWaiting ==
  ASSUME KernelAssumption,
         NEW st \in [Task -> TaskState], NEW want, NEW prio \in [Task -> Level],
         NEW lists, WaitingLists(lists, st, want, prio),
         NEW r \in Resource, lists[r] # <<>>
  PROVE  WaitingLists([lists EXCEPT ![r] = Tail(@)],
                      [st EXCEPT ![Head(lists[r])] = "RUNNABLE"], want, prio)
  <1> DEFINE queue  == lists[r]
             h      == Head(queue)
             st2    == [st EXCEPT ![h] = "RUNNABLE"]
             lists2 == [lists EXCEPT ![r] = Tail(queue)]
  <1>1. /\ queue \in Seq(Task)
        /\ IsInjective(queue)
        /\ Range(queue) = {u \in Task : st[u] = "WAITING_FOR_RESOURCE" /\ want[u] = r}
        /\ Ordered(queue, prio)
        /\ lists \in [Resource -> Seq(Task)]
    BY DEF WaitingLists
  <1>3. lists2[r] = Tail(queue) /\ \A r2 \in Resource \ {r} : lists2[r2] = lists[r2]
    BY <1>1
  <1> HIDE DEF queue
  <1>4. queue # <<>>
    BY DEF queue
  <1>5. /\ h \in Range(queue)
        /\ Tail(queue) \in Seq(Task)
        /\ IsInjective(Tail(queue))
        /\ Range(Tail(queue)) = Range(queue) \ {h}
        /\ Ordered(Tail(queue), prio)
    BY <1>1, <1>4, TailRemoves
  <1>6. lists2 \in [Resource -> Seq(Task)]
    BY <1>1, <1>5
  <1> HIDE DEF h, lists2
  <1>7. \A u \in Task : st2[u] = IF u = h THEN "RUNNABLE" ELSE st[u]
    OBVIOUS
  <1> HIDE DEF st2
  <1>8. WaitingLists(lists2, st2, want, prio)
    <2> SUFFICES ASSUME NEW r2 \in Resource
                 PROVE  /\ IsInjective(lists2[r2])
                        /\ Range(lists2[r2]) = {u \in Task :
                             st2[u] = "WAITING_FOR_RESOURCE" /\ want[u] = r2}
                        /\ Ordered(lists2[r2], prio)
      BY <1>6 DEF WaitingLists
    <2>1. CASE r2 = r
      BY <1>1, <1>3, <1>5, <1>7, <2>1
    <2>2. CASE r2 # r
      <3>1. want[h] # r2
        BY <1>1, <1>5, <2>2
      <3>2. /\ IsInjective(lists[r2])
            /\ Range(lists[r2]) =
                 {u \in Task : st[u] = "WAITING_FOR_RESOURCE" /\ want[u] = r2}
            /\ Ordered(lists[r2], prio)
        BY DEF WaitingLists
      <3> QED BY <1>3, <1>7, <2>2, <3>1, <3>2
    <2> QED BY <2>1, <2>2
  <1> QED BY <1>8 DEF lists2, st2, h, queue

-----------------------------------------------------------------------------
(* The invariant is inductive.                                             *)

\* os_init and idle_task_init establish the invariant.
LEMMA InitInv ==
  ASSUME KernelAssumption, Init
  PROVE  IInv
  <1>1. IInv
    <2>1. Level = 0 .. NUM_PRIO_LEVELS - 1 /\ NUM_PRIO_LEVELS - 1 \in Level /\ 0 \in Level
      BY DEF KernelAssumption, Level
    <2>2. <<>> \in Seq(Task) /\ <<Idle>> \in Seq(Task)
      BY DEF KernelAssumption
    <2>3. \A x : Range(<<>>) = {} /\ IsInjective(<<>>) /\ Ordered(<<>>, x)
      BY <2>2, EmptyRange, EmptyList
    <2>4. IsInjective(<<Idle>>) /\ Range(<<Idle>>) = {Idle}
      BY SingletonList DEF KernelAssumption
    <2>5. Idle \in Task /\ \A t \in Task : priority[t] \in AppPriority[t]
      BY DEF Init, KernelAssumption
    <2>6. priority[Idle] = NUM_PRIO_LEVELS - 1
      BY <2>5 DEF KernelAssumption
    <2>7. TypeOK
      <3>1. state \in [Task -> TaskState]
        BY DEF Init, TaskState
      <3>2. /\ priority \in [Task -> Level]
            /\ pc \in [Task -> {"app", "suspend", "returned"}]
            /\ wanted \in [Task -> Resource \cup {NULL}]
        BY DEF Init
      <3>3. sleep_left \in [Task -> -1 .. MaxSleep]
        BY DEF Init, KernelAssumption
      <3>4. runq \in [Level -> Seq(Task)]
        BY <2>2 DEF Init
      <3>5. /\ highest_prio_level \in Level
            /\ sleepqueue \in Seq(Task)
            /\ waiting \in [Resource -> Seq(Task)]
            /\ acquired_by \in [Resource -> Task \cup {NULL}]
            /\ current_task \in Task \cup {NULL}
            /\ pendsv \in BOOLEAN
            /\ handler \in {"thread", "sys_tick"}
        BY <2>1, <2>2 DEF Init
      <3> QED BY <3>1, <3>2, <3>3, <3>4, <3>5 DEF TypeOK
    <2>8. RunQueues(runq, state, priority)
      <3> SUFFICES ASSUME NEW p \in Level
                   PROVE  /\ IsInjective(runq[p])
                          /\ Range(runq[p]) = {t \in Task : state[t] = "RUNNABLE" /\ priority[t] = p}
        BY <2>7 DEF RunQueues, TypeOK
      <3>1. \A t \in Task : state[t] = "RUNNABLE" <=> t = Idle
        BY DEF Init
      <3>2. runq[p] = IF p = NUM_PRIO_LEVELS - 1 THEN <<Idle>> ELSE <<>>
        BY DEF Init
      <3>3. CASE p = NUM_PRIO_LEVELS - 1
        BY <2>4, <2>5, <2>6, <3>1, <3>2, <3>3
      <3>4. CASE p # NUM_PRIO_LEVELS - 1
        BY <2>3, <2>5, <2>6, <3>1, <3>2, <3>4
      <3> QED BY <3>3, <3>4
    <2>9. HintSound(runq, highest_prio_level)
      BY <2>1 DEF HintSound, Init
    <2>10. SleepQueue(sleepqueue, state, sleep_left)
      <3>1. {t \in Task : state[t] = "SLEEPING"} = {}
        BY DEF Init
      <3> QED BY <2>2, <2>3, <3>1 DEF SleepQueue, Init
    <2>11. WaitingLists(waiting, state, wanted, priority)
      <3>1. \A r \in Resource : {t \in Task : state[t] = "WAITING_FOR_RESOURCE" /\ wanted[t] = r} = {}
        BY DEF Init
      <3>2. \A r \in Resource : waiting[r] = <<>>
        BY DEF Init
      <3> QED BY <2>3, <2>7, <3>1, <3>2 DEF WaitingLists, TypeOK
    <2>12. CurrentOwnsCPU
      BY DEF CurrentOwnsCPU, Init
    <2>13. Programs
      BY <2>5 DEF Programs, Init
    <2>14. NoneOverdue
      BY DEF NoneOverdue, Init
    <2>15. NoLostWakeup
      BY DEF NoLostWakeup, Init
    <2> QED BY <2>7, <2>8, <2>9, <2>10, <2>11, <2>12, <2>13, <2>14, <2>15 DEF IInv
  <1> QED BY <1>1

\* A task that makes a call is RUNNING, and so on no list.
LEMMA CallerRuns ==
  ASSUME KernelAssumption, IInv, NEW t \in Task,
         App(t) \/ \E r \in Resource : Acquires(t, r)
  PROVE  /\ current_task = t /\ Thread /\ t # Idle
         /\ state[t] = "RUNNING" /\ pc[t] = "app"
  <1>1. current_task = t /\ Thread
    BY DEF App, Acquires
  <1>2. t # Idle /\ pc[t] = "app"
    BY DEF App, Acquires, IInv, Programs, KernelAssumption
  <1>3. state[t] = "RUNNING"
    BY <1>1, <1>2 DEF IInv, CurrentOwnsCPU, Thread, KernelAssumption
  <1> QED BY <1>1, <1>2, <1>3

\* While main or a task makes a call, the current task is RUNNING.
LEMMA CurrentRuns ==
  ASSUME KernelAssumption, IInv, Caller
  PROVE  Thread /\ (current_task = NULL \/ (current_task \in Task /\ state[current_task] = "RUNNING"))
  BY CallerRuns DEF Caller, App

\* os_task_init only touches a task that is not in use.
LEMMA TaskInitInv ==
  ASSUME KernelAssumption, IInv, NEW t \in Task, NEW prio \in Level,
         TaskInit(t, prio)
  PROVE  IInv'
  <1>0. TypeOK /\ state[t] = "STOPPED" /\ Caller
    BY DEF IInv, TaskInit
  <1>1. RunQueues(runq', state', priority') /\ HintSound(runq', highest_prio_level')
    <2>1. RunQueues(runq, state, priority')
      BY <1>0, RunQueuesFrame DEF IInv, TaskInit, TypeOK
    <2> QED BY <2>1 DEF IInv, TaskInit
  <1>2. SleepQueue(sleepqueue', state', sleep_left')
    BY DEF IInv, TaskInit
  <1>3. WaitingLists(waiting', state', wanted', priority')
    <2>1. WaitingLists(waiting, state, wanted, priority')
      BY <1>0, WaitingListsFrame DEF IInv, TaskInit, TypeOK
    <2> QED BY <2>1 DEF TaskInit, resVars
  <1>4. TypeOK'
    BY <1>0 DEF TypeOK, TaskInit, resVars
  <1>5. CurrentOwnsCPU'
    BY <1>0, CurrentRuns DEF IInv, CurrentOwnsCPU, TaskInit, TypeOK, Thread
  <1>6. Programs'
    BY <1>0 DEF IInv, Programs, TaskInit, TypeOK
  <1>7. NoneOverdue'
    BY DEF IInv, NoneOverdue, TaskInit
  <1>8. NoLostWakeup'
    BY DEF IInv, NoLostWakeup, TaskInit, resVars
  <1> QED BY <1>1, <1>2, <1>3, <1>4, <1>5, <1>6, <1>7, <1>8 DEF IInv

\* os_task_add queues a stopped task.
LEMMA TaskAddInv ==
  ASSUME KernelAssumption, IInv, NEW t \in Task,
         TaskAdd(t)
  PROVE  IInv'
  <1>0. TypeOK /\ state[t] = "STOPPED" /\ Caller
    BY DEF IInv, TaskAdd
  <1>1. RunQueues(runq', state', priority') /\ HintSound(runq', highest_prio_level')
    BY <1>0, Enqueued DEF IInv, TaskAdd, TypeOK
  <1>2. SleepQueue(sleepqueue', state', sleep_left')
    <2>1. SleepQueue(sleepqueue, state', sleep_left)
      BY <1>0, SleepQueueFrame DEF IInv, TaskAdd, TypeOK
    <2> QED BY <2>1 DEF TaskAdd
  <1>3. WaitingLists(waiting', state', wanted', priority')
    <2>1. WaitingLists(waiting, state', wanted, priority)
      BY <1>0, WaitingListsFrame DEF IInv, TaskAdd, TypeOK
    <2> QED BY <2>1 DEF TaskAdd, resVars
  <1>4. TypeOK'
    BY <1>0, <1>1 DEF TypeOK, TaskAdd, resVars, RunQueues, HintSound, TaskState
  <1>5. CurrentOwnsCPU'
    BY <1>0, CurrentRuns DEF IInv, CurrentOwnsCPU, TaskAdd, TypeOK, Thread
  <1>6. Programs'
    BY <1>0 DEF IInv, Programs, TaskAdd, TypeOK
  <1>7. NoneOverdue'
    BY <1>0 DEF IInv, NoneOverdue, TaskAdd, TypeOK
  <1>8. NoLostWakeup'
    BY <1>0 DEF IInv, NoLostWakeup, TaskAdd, resVars, TypeOK
  <1> QED BY <1>1, <1>2, <1>3, <1>4, <1>5, <1>6, <1>7, <1>8 DEF IInv

\* os_tasks_start dispatches the first task.
LEMMA TasksStartInv ==
  ASSUME KernelAssumption, IInv,
         TasksStart
  PROVE  IInv'
  <1>0. TypeOK /\ current_task = NULL /\ ~pendsv
    BY DEF IInv, TasksStart, CurrentOwnsCPU
  <1>a. PICK t \in Task :
          /\ state[t] = "RUNNABLE"
          /\ current_task' = t
          /\ state' = [state EXCEPT ![t] = "RUNNING"]
          /\ RunQueues(runq', state', priority)
          /\ HintSound(runq', highest_prio_level')
    BY <1>0, Dispatched DEF IInv, TasksStart, TypeOK
  <1>1. RunQueues(runq', state', priority') /\ HintSound(runq', highest_prio_level')
    BY <1>a DEF TasksStart
  <1>2. SleepQueue(sleepqueue', state', sleep_left')
    <2>1. SleepQueue(sleepqueue, state', sleep_left)
      BY <1>0, <1>a, SleepQueueFrame DEF IInv, TypeOK
    <2> QED BY <2>1 DEF TasksStart
  <1>3. WaitingLists(waiting', state', wanted', priority')
    <2>1. WaitingLists(waiting, state', wanted, priority)
      BY <1>0, <1>a, WaitingListsFrame DEF IInv, TypeOK
    <2> QED BY <2>1 DEF TasksStart, resVars
  <1>4. TypeOK'
    BY <1>0, <1>1, <1>a DEF TypeOK, TasksStart, resVars, RunQueues, HintSound, TaskState
  <1>5. CurrentOwnsCPU'
    BY <1>0, <1>a DEF IInv, CurrentOwnsCPU, TasksStart, TypeOK, KernelAssumption
  <1>6. Programs'
    BY <1>0, <1>a DEF IInv, Programs, TasksStart, TypeOK
  <1>7. NoneOverdue'
    BY <1>0, <1>a DEF IInv, NoneOverdue, TasksStart, TypeOK
  <1>8. NoLostWakeup'
    BY <1>0, <1>a DEF IInv, NoLostWakeup, TasksStart, resVars, TypeOK
  <1> QED BY <1>1, <1>2, <1>3, <1>4, <1>5, <1>6, <1>7, <1>8 DEF IInv

\* The end of __task_runner takes the caller off nothing: it is on no list.
LEMMA TaskReturnInv ==
  ASSUME KernelAssumption, IInv, NEW t \in Task,
         TaskReturn(t)
  PROVE  IInv'
  <1>0. TypeOK /\ current_task = t /\ Thread /\ t # Idle /\ state[t] = "RUNNING"
    BY CallerRuns DEF IInv, TaskReturn
  <1>1. RunQueues(runq', state', priority') /\ HintSound(runq', highest_prio_level')
    <2>1. RunQueues(runq, state', priority)
      BY <1>0, RunQueuesFrame DEF IInv, TaskReturn, TypeOK, taskVars
    <2> QED BY <2>1 DEF IInv, TaskReturn, taskVars
  <1>2. SleepQueue(sleepqueue', state', sleep_left')
    <2>1. SleepQueue(sleepqueue, state', sleep_left)
      BY <1>0, SleepQueueFrame DEF IInv, TaskReturn, TypeOK, taskVars
    <2> QED BY <2>1 DEF TaskReturn, taskVars
  <1>3. WaitingLists(waiting', state', wanted', priority')
    <2>1. WaitingLists(waiting, state', wanted', priority)
      BY <1>0, WaitingListsFrame DEF IInv, TaskReturn, TypeOK, taskVars
    <2> QED BY <2>1 DEF TaskReturn, resVars, taskVars
  <1>4. TypeOK'
    BY <1>0 DEF TypeOK, TaskReturn, resVars, taskVars, TaskState
  <1>5. CurrentOwnsCPU'
    BY <1>0 DEF IInv, CurrentOwnsCPU, TaskReturn, TypeOK, Thread, taskVars, KernelAssumption, App
  <1>6. Programs'
    BY <1>0 DEF IInv, Programs, TaskReturn, TypeOK, taskVars, App
  <1>7. NoneOverdue'
    BY <1>0 DEF IInv, NoneOverdue, TaskReturn, TypeOK, taskVars
  <1>8. NoLostWakeup'
    BY <1>0 DEF IInv, NoLostWakeup, TaskReturn, resVars, TypeOK, taskVars, App, KernelAssumption
  <1> QED BY <1>1, <1>2, <1>3, <1>4, <1>5, <1>6, <1>7, <1>8 DEF IInv

\* os_task_yield pends the switch.
LEMMA TaskYieldInv ==
  ASSUME KernelAssumption, IInv, NEW t \in Task,
         TaskYield(t)
  PROVE  IInv'
  <1>0. TypeOK /\ current_task = t /\ Thread /\ t # Idle /\ state[t] = "RUNNING"
    BY CallerRuns DEF IInv, TaskYield
  <1>1. RunQueues(runq', state', priority') /\ HintSound(runq', highest_prio_level')
    <2>1. RunQueues(runq, state', priority)
      BY <1>0, RunQueuesFrame DEF IInv, TaskYield, TypeOK, taskVars
    <2> QED BY <2>1 DEF IInv, TaskYield, taskVars
  <1>2. SleepQueue(sleepqueue', state', sleep_left')
    <2>1. SleepQueue(sleepqueue, state', sleep_left)
      BY <1>0, SleepQueueFrame DEF IInv, TaskYield, TypeOK, taskVars
    <2> QED BY <2>1 DEF TaskYield, taskVars
  <1>3. WaitingLists(waiting', state', wanted', priority')
    <2>1. WaitingLists(waiting, state', wanted', priority)
      BY <1>0, WaitingListsFrame DEF IInv, TaskYield, TypeOK, taskVars
    <2> QED BY <2>1 DEF TaskYield, resVars, taskVars
  <1>4. TypeOK'
    BY <1>0 DEF TypeOK, TaskYield, resVars, taskVars, TaskState
  <1>5. CurrentOwnsCPU'
    BY <1>0 DEF IInv, CurrentOwnsCPU, TaskYield, TypeOK, Thread, taskVars, KernelAssumption, App
  <1>6. Programs'
    BY <1>0 DEF IInv, Programs, TaskYield, TypeOK, taskVars, App
  <1>7. NoneOverdue'
    BY <1>0 DEF IInv, NoneOverdue, TaskYield, TypeOK, taskVars
  <1>8. NoLostWakeup'
    BY <1>0 DEF IInv, NoLostWakeup, TaskYield, resVars, TypeOK, taskVars, App, KernelAssumption
  <1> QED BY <1>1, <1>2, <1>3, <1>4, <1>5, <1>6, <1>7, <1>8 DEF IInv

\* The first store of os_task_suspend_self,
LEMMA SuspendSelfMarkInv ==
  ASSUME KernelAssumption, IInv, NEW t \in Task,
         SuspendSelfMark(t)
  PROVE  IInv'
  <1>0. TypeOK /\ current_task = t /\ Thread /\ t # Idle /\ state[t] = "RUNNING"
    BY CallerRuns DEF IInv, SuspendSelfMark
  <1>1. RunQueues(runq', state', priority') /\ HintSound(runq', highest_prio_level')
    <2>1. RunQueues(runq, state', priority)
      BY <1>0, RunQueuesFrame DEF IInv, SuspendSelfMark, TypeOK, taskVars
    <2> QED BY <2>1 DEF IInv, SuspendSelfMark, taskVars
  <1>2. SleepQueue(sleepqueue', state', sleep_left')
    <2>1. SleepQueue(sleepqueue, state', sleep_left)
      BY <1>0, SleepQueueFrame DEF IInv, SuspendSelfMark, TypeOK, taskVars
    <2> QED BY <2>1 DEF SuspendSelfMark, taskVars
  <1>3. WaitingLists(waiting', state', wanted', priority')
    <2>1. WaitingLists(waiting, state', wanted', priority)
      BY <1>0, WaitingListsFrame DEF IInv, SuspendSelfMark, TypeOK, taskVars
    <2> QED BY <2>1 DEF SuspendSelfMark, resVars, taskVars
  <1>4. TypeOK'
    BY <1>0 DEF TypeOK, SuspendSelfMark, resVars, taskVars, TaskState
  <1>5. CurrentOwnsCPU'
    BY <1>0 DEF IInv, CurrentOwnsCPU, SuspendSelfMark, TypeOK, Thread, taskVars, KernelAssumption, App
  <1>6. Programs'
    BY <1>0 DEF IInv, Programs, SuspendSelfMark, TypeOK, taskVars, App
  <1>7. NoneOverdue'
    BY <1>0 DEF IInv, NoneOverdue, SuspendSelfMark, TypeOK, taskVars
  <1>8. NoLostWakeup'
    BY <1>0 DEF IInv, NoLostWakeup, SuspendSelfMark, resVars, TypeOK, taskVars, App, KernelAssumption
  <1> QED BY <1>1, <1>2, <1>3, <1>4, <1>5, <1>6, <1>7, <1>8 DEF IInv

\* and the second one.
LEMMA SuspendSelfYieldInv ==
  ASSUME KernelAssumption, IInv, NEW t \in Task,
         SuspendSelfYield(t)
  PROVE  IInv'
  <1>0. TypeOK /\ current_task = t /\ Thread /\ state[t] \in {"RUNNING", "SUSPENDED"}
    BY DEF IInv, SuspendSelfYield, CurrentOwnsCPU, Programs, Thread, KernelAssumption
  <1>1. RunQueues(runq', state', priority') /\ HintSound(runq', highest_prio_level')
    <2>1. RunQueues(runq, state', priority)
      BY <1>0, RunQueuesFrame DEF IInv, SuspendSelfYield, TypeOK, taskVars
    <2> QED BY <2>1 DEF IInv, SuspendSelfYield, taskVars
  <1>2. SleepQueue(sleepqueue', state', sleep_left')
    <2>1. SleepQueue(sleepqueue, state', sleep_left)
      BY <1>0, SleepQueueFrame DEF IInv, SuspendSelfYield, TypeOK, taskVars
    <2> QED BY <2>1 DEF SuspendSelfYield, taskVars
  <1>3. WaitingLists(waiting', state', wanted', priority')
    <2>1. WaitingLists(waiting, state', wanted', priority)
      BY <1>0, WaitingListsFrame DEF IInv, SuspendSelfYield, TypeOK, taskVars
    <2> QED BY <2>1 DEF SuspendSelfYield, resVars, taskVars
  <1>4. TypeOK'
    BY <1>0 DEF TypeOK, SuspendSelfYield, resVars, taskVars, TaskState
  <1>5. CurrentOwnsCPU'
    BY <1>0 DEF IInv, CurrentOwnsCPU, SuspendSelfYield, TypeOK, Thread, taskVars, KernelAssumption, App
  <1>6. Programs'
    BY <1>0 DEF IInv, Programs, SuspendSelfYield, TypeOK, taskVars, App
  <1>7. NoneOverdue'
    BY <1>0 DEF IInv, NoneOverdue, SuspendSelfYield, TypeOK, taskVars
  <1>8. NoLostWakeup'
    BY <1>0 DEF IInv, NoLostWakeup, SuspendSelfYield, resVars, TypeOK, taskVars, App, KernelAssumption
  <1> QED BY <1>1, <1>2, <1>3, <1>4, <1>5, <1>6, <1>7, <1>8 DEF IInv

\* os_resource_acquire of a free resource, or of one the caller has.
LEMMA ResourceAcquireInv ==
  ASSUME KernelAssumption, IInv, NEW t \in Task, NEW r \in Resource,
         ResourceAcquire(t, r)
  PROVE  IInv'
  <1>0. /\ TypeOK /\ current_task = t /\ Thread /\ t # Idle
        /\ state[t] = "RUNNING" /\ pc[t] = "app" /\ wanted[t] \in {NULL, r}
    BY CallerRuns DEF IInv, ResourceAcquire, Acquires, App
  <1>1. RunQueues(runq', state', priority') /\ HintSound(runq', highest_prio_level')
    BY DEF IInv, ResourceAcquire
  <1>2. SleepQueue(sleepqueue', state', sleep_left')
    BY DEF IInv, ResourceAcquire
  <1>3. WaitingLists(waiting', state', wanted', priority')
    <2>1. WaitingLists(waiting, state', wanted', priority)
      BY <1>0, WaitingListsFrame DEF IInv, ResourceAcquire, TypeOK
    <2> QED BY <2>1 DEF IInv, ResourceAcquire, resVars
  <1>4. TypeOK'
    BY <1>0, <1>1, <1>2, <1>3 DEF TypeOK, ResourceAcquire, resVars, TaskState, RunQueues, HintSound,
                            SleepQueue, WaitingLists
  <1>5. CurrentOwnsCPU'
    BY <1>0 DEF IInv, CurrentOwnsCPU, ResourceAcquire, TypeOK, Thread, KernelAssumption
  <1>6. Programs'
    BY <1>0 DEF IInv, Programs, ResourceAcquire, TypeOK, KernelAssumption
  <1>7. NoneOverdue'
    BY <1>0 DEF IInv, NoneOverdue, ResourceAcquire, TypeOK
  <1>8. NoLostWakeup'
    BY <1>0 DEF IInv, NoLostWakeup, ResourceAcquire, resVars, TypeOK, KernelAssumption
  <1> QED BY <1>1, <1>2, <1>3, <1>4, <1>5, <1>6, <1>7, <1>8 DEF IInv

\* os_task_unsuspend queues a suspended task. That may be the current one, if it
\* is about to be switched out.
LEMMA UnsuspendInv ==
  ASSUME KernelAssumption, IInv, NEW other \in Task, Unsuspend(other),
         handler = "thread", current_task \in Task, other = current_task => pendsv
  PROVE  IInv'
  <1>0. TypeOK /\ state[other] = "SUSPENDED" /\ other # Idle
    BY DEF IInv, Unsuspend, Programs
  <1>1. RunQueues(runq', state', priority') /\ HintSound(runq', highest_prio_level')
    BY <1>0, Enqueued DEF IInv, Unsuspend, TypeOK
  <1>2. SleepQueue(sleepqueue', state', sleep_left')
    <2>1. SleepQueue(sleepqueue, state', sleep_left)
      BY <1>0, SleepQueueFrame DEF IInv, Unsuspend, TypeOK
    <2> QED BY <2>1 DEF IInv, Unsuspend
  <1>3. WaitingLists(waiting', state', wanted', priority')
    <2>1. WaitingLists(waiting, state', wanted, priority)
      BY <1>0, WaitingListsFrame DEF IInv, Unsuspend, TypeOK
    <2> QED BY <2>1 DEF IInv, Unsuspend, resVars
  <1>4. /\ pendsv' \in BOOLEAN
        /\ pendsv => pendsv'
        /\ priority[current_task] > priority[other] => pendsv'
    BY Zenon DEF Unsuspend
  <1>5. TypeOK'
    BY <1>0, <1>1, <1>2, <1>3, <1>4
       DEF TypeOK, Unsuspend, resVars, TaskState, RunQueues, HintSound, SleepQueue, WaitingLists
  <1>6. CurrentOwnsCPU'
    <2>1. /\ \A t \in Task : state'[t] = IF t = other THEN "RUNNABLE" ELSE state[t]
          /\ current_task' = current_task /\ handler' = handler /\ pc' = pc
      BY <1>0 DEF Unsuspend, TypeOK
    <2>2. ~pendsv' => ~pendsv /\ other # current_task
      BY <1>4
    <2>3. current_task # NULL
      BY KernelAssumption
    <2> QED BY <2>1, <2>2, <2>3 DEF IInv, CurrentOwnsCPU
  <1>7. Programs'
    BY <1>0 DEF IInv, Programs, Unsuspend, TypeOK, KernelAssumption
  <1>8. NoneOverdue'
    BY <1>0 DEF IInv, NoneOverdue, Unsuspend, TypeOK
  <1>9. NoLostWakeup'
    BY <1>0 DEF IInv, NoLostWakeup, Unsuspend, resVars, TypeOK, KernelAssumption
  <1> QED BY <1>1, <1>2, <1>3, <1>5, <1>6, <1>7, <1>8, <1>9 DEF IInv

\* A task that calls it is RUNNING,
LEMMA TaskUnsuspendInv ==
  ASSUME KernelAssumption, IInv, NEW t \in Task, NEW other \in Task,
         TaskUnsuspend(t, other)
  PROVE  IInv'
  <1>1. current_task = t /\ Thread /\ state[t] = "RUNNING"
    BY CallerRuns DEF TaskUnsuspend
  <1>2. Unsuspend(other) /\ other # t
    BY <1>1 DEF TaskUnsuspend, Unsuspend
  <1> QED BY <1>1, <1>2, UnsuspendInv DEF Thread

\* and an interrupt handler spares a task inside os_task_suspend_self.
LEMMA IsrUnsuspendInv ==
  ASSUME KernelAssumption, IInv, NEW other \in Task, IsrUnsuspend(other)
  PROVE  IInv'
  <1>1. current_task \in Task
    BY DEF IsrUnsuspend, IInv, TypeOK
  <1> QED BY <1>1, UnsuspendInv DEF IsrUnsuspend

\* os_task_sleep moves the caller to sleepqueue.
LEMMA TaskSleepInv ==
  ASSUME KernelAssumption, IInv, NEW t \in Task, NEW n \in 0 .. MaxSleep,
         TaskSleep(t, n)
  PROVE  IInv'
  <1>0. /\ TypeOK /\ current_task = t /\ Thread /\ t # Idle
        /\ state[t] = "RUNNING" /\ wanted[t] = NULL
    BY CallerRuns DEF IInv, TaskSleep, App
  <1>1. RunQueues(runq', state', priority') /\ HintSound(runq', highest_prio_level')
    <2>1. RunQueues(runq, state', priority)
      BY <1>0, RunQueuesFrame DEF IInv, TaskSleep, TypeOK
    <2> QED BY <2>1 DEF IInv, TaskSleep
  <1>2. SleepQueue(sleepqueue', state', sleep_left')
    <2>1. n \in Int /\ sleep_left \in [Task -> Int] /\ state \in [Task -> TaskState]
      BY <1>0 DEF TypeOK, KernelAssumption
    <2>2. PICK i \in InsertPoints(sleepqueue, sleep_left, n) : sleepqueue' = InsertAt(sleepqueue, i, t)
      BY DEF TaskSleep
    <2>3. SleepQueue(InsertAt(sleepqueue, i, t), [state EXCEPT ![t] = "SLEEPING"],
                     [sleep_left EXCEPT ![t] = n])
      BY <1>0, <2>1, FellAsleep DEF IInv
    <2> QED BY <2>2, <2>3 DEF TaskSleep
  <1>3. WaitingLists(waiting', state', wanted', priority')
    <2>1. WaitingLists(waiting, state', wanted, priority)
      BY <1>0, WaitingListsFrame DEF IInv, TaskSleep, TypeOK
    <2> QED BY <2>1 DEF IInv, TaskSleep, resVars
  <1>4. TypeOK'
    BY <1>0, <1>1, <1>2, <1>3 DEF TypeOK, TaskSleep, resVars, TaskState, RunQueues, HintSound,
                            SleepQueue, WaitingLists
  <1>5. CurrentOwnsCPU'
    BY <1>0 DEF IInv, CurrentOwnsCPU, TaskSleep, TypeOK, Thread, KernelAssumption
  <1>6. Programs'
    BY <1>0 DEF IInv, Programs, TaskSleep, TypeOK, KernelAssumption
  <1>7. NoneOverdue'
    BY <1>0 DEF IInv, NoneOverdue, TaskSleep, TypeOK
  <1>8. NoLostWakeup'
    BY <1>0 DEF IInv, NoLostWakeup, TaskSleep, resVars, TypeOK, KernelAssumption
  <1> QED BY <1>1, <1>2, <1>3, <1>4, <1>5, <1>6, <1>7, <1>8 DEF IInv

\* os_resource_acquire of a resource that another task has.
LEMMA ResourceWaitInv ==
  ASSUME KernelAssumption, IInv, NEW t \in Task, NEW r \in Resource,
         ResourceWait(t, r)
  PROVE  IInv'
  <1>0. /\ TypeOK /\ current_task = t /\ Thread /\ t # Idle
        /\ state[t] = "RUNNING" /\ pc[t] = "app" /\ wanted[t] \in {NULL, r}
        /\ acquired_by[r] # NULL
    BY CallerRuns DEF IInv, ResourceWait, Acquires, App
  <1>1. RunQueues(runq', state', priority') /\ HintSound(runq', highest_prio_level')
    <2>1. RunQueues(runq, state', priority)
      BY <1>0, RunQueuesFrame DEF IInv, ResourceWait, TypeOK
    <2> QED BY <2>1 DEF IInv, ResourceWait
  <1>2. SleepQueue(sleepqueue', state', sleep_left')
    <2>1. SleepQueue(sleepqueue, state', sleep_left)
      BY <1>0, SleepQueueFrame DEF IInv, ResourceWait, TypeOK
    <2> QED BY <2>1 DEF IInv, ResourceWait
  <1>3. WaitingLists(waiting', state', wanted', priority')
    <2>1. PICK i \in InsertPoints(waiting[r], priority, priority[t]) :
            waiting' = [waiting EXCEPT ![r] = InsertAt(@, i, t)]
      BY DEF ResourceWait
    <2>2. WaitingLists([waiting EXCEPT ![r] = InsertAt(@, i, t)],
                       [state EXCEPT ![t] = "WAITING_FOR_RESOURCE"],
                       [wanted EXCEPT ![t] = r], priority)
      BY <1>0, StartedWaiting DEF IInv, TypeOK
    <2> QED BY <2>1, <2>2 DEF ResourceWait
  <1>4. TypeOK'
    BY <1>0, <1>1, <1>2, <1>3 DEF TypeOK, ResourceWait, resVars, TaskState, RunQueues, HintSound,
                            SleepQueue, WaitingLists
  <1>5. CurrentOwnsCPU'
    BY <1>0 DEF IInv, CurrentOwnsCPU, ResourceWait, TypeOK, Thread, KernelAssumption
  <1>6. Programs'
    BY <1>0 DEF IInv, Programs, ResourceWait, TypeOK, KernelAssumption
  <1>7. NoneOverdue'
    BY <1>0 DEF IInv, NoneOverdue, ResourceWait, TypeOK
  <1>8. NoLostWakeup'
    BY <1>0 DEF IInv, NoLostWakeup, ResourceWait, resVars, TypeOK, KernelAssumption
  <1> QED BY <1>1, <1>2, <1>3, <1>4, <1>5, <1>6, <1>7, <1>8 DEF IInv

\* os_resource_release of a resource nobody waits for,
LEMMA ReleaseQuietInv ==
  ASSUME KernelAssumption, IInv, NEW t \in Task, NEW r \in Resource,
         ResourceRelease(t, r), waiting[r] = <<>>
  PROVE  IInv'
  <1>0. /\ TypeOK /\ current_task = t /\ Thread /\ state[t] = "RUNNING"
        /\ waiting[r] = <<>>
        /\ UNCHANGED <<taskVars, waiting, runq, highest_prio_level, sleepqueue,
                       current_task, pendsv, handler>>
        /\ acquired_by' = [acquired_by EXCEPT ![r] = NULL]
    BY CallerRuns DEF IInv, ResourceRelease, taskVars
  <1>1. RunQueues(runq', state', priority') /\ HintSound(runq', highest_prio_level')
    BY <1>0 DEF IInv, taskVars
  <1>2. SleepQueue(sleepqueue', state', sleep_left')
    BY <1>0 DEF IInv, taskVars
  <1>3. WaitingLists(waiting', state', wanted', priority')
    BY <1>0 DEF IInv, taskVars
  <1>4. TypeOK'
    BY <1>0, <1>1, <1>2, <1>3 DEF TypeOK, taskVars, resVars, TaskState, RunQueues, HintSound,
                            SleepQueue, WaitingLists
  <1>5. CurrentOwnsCPU'
    BY <1>0 DEF IInv, CurrentOwnsCPU, taskVars, TypeOK, Thread, KernelAssumption
  <1>6. Programs'
    BY <1>0 DEF IInv, Programs, taskVars, TypeOK, KernelAssumption
  <1>7. NoneOverdue'
    BY <1>0 DEF IInv, NoneOverdue, taskVars, TypeOK
  <1>8. NoLostWakeup'
    BY <1>0 DEF IInv, NoLostWakeup, taskVars, resVars, TypeOK, KernelAssumption
  <1> QED BY <1>1, <1>2, <1>3, <1>4, <1>5, <1>6, <1>7, <1>8 DEF IInv

\* and of one whose first waiter it makes RUNNABLE.
LEMMA ReleaseWakesInv ==
  ASSUME KernelAssumption, IInv, NEW t \in Task, NEW r \in Resource,
         ResourceRelease(t, r), waiting[r] # <<>>
  PROVE  IInv'
  <1> DEFINE first == Head(waiting[r])
  <1>0. /\ TypeOK /\ current_task = t /\ Thread /\ state[t] = "RUNNING"
        /\ waiting' = [waiting EXCEPT ![r] = Tail(@)]
        /\ state' = [state EXCEPT ![first] = "RUNNABLE"]
        /\ runq' = AddToHead(runq, first)
        /\ highest_prio_level' = Raise(highest_prio_level, first)
        /\ pendsv' = (priority[t] > priority[first])
        /\ acquired_by' = [acquired_by EXCEPT ![r] = NULL]
        /\ UNCHANGED <<priority, pc, wanted, sleep_left, sleepqueue, current_task,
                       handler>>
    BY CallerRuns DEF IInv, ResourceRelease
  <1>a. /\ first \in Task
        /\ state[first] = "WAITING_FOR_RESOURCE"
        /\ wanted[first] = r
        /\ WaitingLists([waiting EXCEPT ![r] = Tail(@)],
                        [state EXCEPT ![first] = "RUNNABLE"], wanted, priority)
    <2>1. state \in [Task -> TaskState] /\ priority \in [Task -> Level]
      BY <1>0 DEF TypeOK
    <2>2. WaitingLists(waiting, state, wanted, priority) /\ waiting[r] # <<>>
      BY DEF IInv
    <2> HIDE DEF first
    <2>3. WaitingLists([waiting EXCEPT ![r] = Tail(@)],
                       [state EXCEPT ![Head(waiting[r])] = "RUNNABLE"], wanted, priority)
      BY <2>1, <2>2, StoppedWaiting
    <2> QED BY <2>1, <2>2, <2>3, FirstWaiter DEF first
  <1> HIDE DEF first
  <1>1. RunQueues(runq', state', priority') /\ HintSound(runq', highest_prio_level')
    BY <1>0, <1>a, Enqueued DEF IInv, TypeOK
  <1>2. SleepQueue(sleepqueue', state', sleep_left')
    <2>1. SleepQueue(sleepqueue, state', sleep_left)
      BY <1>0, <1>a, SleepQueueFrame DEF IInv, TypeOK
    <2> QED BY <1>0, <2>1
  <1>3. WaitingLists(waiting', state', wanted', priority')
    BY <1>0, <1>a
  <1>4. TypeOK'
    <2>1. /\ state' \in [Task -> TaskState]
          /\ acquired_by' \in [Resource -> Task \cup {NULL}]
          /\ pendsv' \in BOOLEAN
      BY <1>0, <1>a DEF TypeOK, TaskState
    <2> QED BY <1>0, <1>1, <1>2, <1>3, <2>1 DEF TypeOK, RunQueues, HintSound, SleepQueue,
                                                WaitingLists
  <1>5. CurrentOwnsCPU'
    BY <1>0, <1>a DEF IInv, CurrentOwnsCPU, TypeOK, Thread, KernelAssumption
  <1>6. Programs'
    BY <1>0, <1>a DEF IInv, Programs, TypeOK, KernelAssumption
  <1>7. NoneOverdue'
    BY <1>0, <1>a DEF IInv, NoneOverdue, TypeOK
  <1>8. NoLostWakeup'
    BY <1>0, <1>a DEF IInv, NoLostWakeup, TypeOK, resVars, TypeOK, KernelAssumption
  <1> QED BY <1>1, <1>2, <1>3, <1>4, <1>5, <1>6, <1>7, <1>8 DEF IInv

\* Whoever pend_sv_handler or sys_tick_handler interrupted and requeues.
LEMMA Requeued ==
  ASSUME KernelAssumption, IInv, current_task # NULL, state[current_task] # "RUNNABLE"
  PROVE  LET st == [state EXCEPT ![current_task] = "RUNNABLE"] IN
         /\ current_task \in Task
         /\ st \in [Task -> TaskState]
         /\ RunQueues(AddToTail(runq, current_task), st, priority)
         /\ HintSound(AddToTail(runq, current_task), Raise(highest_prio_level, current_task))
  <1>1. /\ current_task \in Task /\ state[current_task] # "RUNNABLE"
        /\ state \in [Task -> TaskState] /\ priority \in [Task -> Level]
        /\ RunQueues(runq, state, priority) /\ HintSound(runq, highest_prio_level)
    BY DEF IInv, TypeOK, CurrentOwnsCPU
  <1>2. [state EXCEPT ![current_task] = "RUNNABLE"] \in [Task -> TaskState]
    BY <1>1 DEF TaskState
  <1> QED BY <1>1, <1>2, Enqueued

\* What a dispatch does to the states, when the handler has left states st
\* and run queues rq behind.
Switched(st, t) ==
  /\ st[t] = "RUNNABLE"
  /\ current_task' = t
  /\ state' = [st EXCEPT ![t] = "RUNNING"]
  /\ RunQueues(runq', state', priority)
  /\ HintSound(runq', highest_prio_level')
  /\ \A u \in Task : st[u] = "RUNNABLE" => priority[t] <= priority[u]

\* The current task that is requeued may be dispatched again.
LEMMA SwitchedAfterRequeue ==
  ASSUME KernelAssumption, IInv, current_task # NULL, state[current_task] # "RUNNABLE",
         Dispatch(AddToTail(runq, current_task), Raise(highest_prio_level, current_task),
                  [state EXCEPT ![current_task] = "RUNNABLE"])
  PROVE  \E t \in Task : Switched([state EXCEPT ![current_task] = "RUNNABLE"], t)
  <1> DEFINE st   == [state EXCEPT ![current_task] = "RUNNABLE"]
             rq   == AddToTail(runq, current_task)
             hint == Raise(highest_prio_level, current_task)
  <1>1. priority \in [Task -> Level]
    BY DEF IInv, TypeOK
  <1>2. st \in [Task -> TaskState] /\ RunQueues(rq, st, priority) /\ HintSound(rq, hint)
    BY Requeued
  <1>3. Dispatch(rq, hint, st)
    OBVIOUS
  <1> HIDE DEF st, rq, hint
  <1>4. \E t \in Task : Switched(st, t)
    BY <1>1, <1>2, <1>3, Dispatched DEF Switched
  <1> QED BY <1>4 DEF st

\* PendSV requeues the current task or not, depending on its state; SysTick
\* always does.
LEMMA PendSVSwitches ==
  ASSUME KernelAssumption, IInv, PendSV
  PROVE  /\ current_task \in Task /\ handler = "thread"
         /\ \E t \in Task :
              IF state[current_task] = "RUNNING"
                THEN Switched([state EXCEPT ![current_task] = "RUNNABLE"], t)
                ELSE Switched(state, t)
  <1>1. current_task \in Task /\ handler = "thread" /\ current_task # NULL
    BY DEF IInv, CurrentOwnsCPU, PendSV, TypeOK
  <1>2. CASE state[current_task] = "RUNNING"
    BY <1>1, <1>2, SwitchedAfterRequeue DEF PendSV
  <1>3. CASE state[current_task] # "RUNNING"
    <2>1. /\ Dispatch(runq, highest_prio_level, state)
          /\ priority \in [Task -> Level] /\ state \in [Task -> TaskState]
          /\ RunQueues(runq, state, priority) /\ HintSound(runq, highest_prio_level)
      BY <1>3 DEF IInv, TypeOK, PendSV
    <2> QED BY <1>1, <1>3, <2>1, Dispatched DEF Switched
  <1> QED BY <1>1, <1>2, <1>3

\* sys_tick_handler runs on top of a task, which it requeues before it switches to
\* the task that switch_task finds.
LEMMA SysTickSwitches ==
  ASSUME KernelAssumption, IInv, SysTickReturn
  PROVE  /\ current_task \in Task
         /\ \E t \in Task : Switched([state EXCEPT ![current_task] = "RUNNABLE"], t)
  <1>1. current_task \in Task /\ current_task # NULL /\ state[current_task] # "RUNNABLE"
    BY DEF IInv, CurrentOwnsCPU, SysTickReturn, TypeOK, KernelAssumption
  <1> QED BY <1>1, SwitchedAfterRequeue DEF SysTickReturn

\* pend_sv_handler switches tasks.
LEMMA PendSVInv ==
  ASSUME KernelAssumption, IInv,
         PendSV
  PROVE  IInv'
  <1>0. TypeOK /\ current_task \in Task /\ handler = "thread"
    BY PendSVSwitches DEF IInv
  <1>a. PICK t \in Task :
          IF state[current_task] = "RUNNING"
            THEN Switched([state EXCEPT ![current_task] = "RUNNABLE"], t)
            ELSE Switched(state, t)
    BY PendSVSwitches
  <1>b. /\ RunQueues(runq', state', priority) /\ HintSound(runq', highest_prio_level')
        /\ current_task' = t
    BY <1>a DEF Switched
  <1>c. /\ state' \in [Task -> TaskState]
        /\ state'[t] = "RUNNING"
        /\ \A u \in Task \ {t} :
             IF u = current_task /\ state[u] = "RUNNING"
               THEN state'[u] = "RUNNABLE" ELSE state'[u] = state[u]
        /\ t = current_task => state[t] \in {"RUNNING", "RUNNABLE"}
        /\ t # current_task => state[t] = "RUNNABLE"
    BY <1>0, <1>a DEF Switched, TypeOK, TaskState, IInv, CurrentOwnsCPU
  <1>d. \A u \in Task :
          /\ state'[u] = "SLEEPING" <=> state[u] = "SLEEPING"
          /\ state'[u] = "WAITING_FOR_RESOURCE" <=> state[u] = "WAITING_FOR_RESOURCE"
          /\ state[u] \in {"RUNNABLE", "RUNNING"} => state'[u] \in {"RUNNABLE", "RUNNING"}
    <2> SUFFICES ASSUME NEW u \in Task
                 PROVE  /\ state'[u] = "SLEEPING" <=> state[u] = "SLEEPING"
                        /\ state'[u] = "WAITING_FOR_RESOURCE"
                             <=> state[u] = "WAITING_FOR_RESOURCE"
                        /\ state[u] \in {"RUNNABLE", "RUNNING"}
                             => state'[u] \in {"RUNNABLE", "RUNNING"}
      OBVIOUS
    <2>1. CASE u = t
      BY <1>c, <2>1
    <2>2. CASE u # t
      BY <1>c, <2>2
    <2> QED BY <2>1, <2>2
  <1>1. RunQueues(runq', state', priority') /\ HintSound(runq', highest_prio_level')
    BY <1>b DEF PendSV
  <1>2. SleepQueue(sleepqueue', state', sleep_left')
    <2>1. SleepQueue(sleepqueue, state, sleep_left)
      BY DEF IInv
    <2>2. SleepQueue(sleepqueue, state', sleep_left)
      BY <1>d, <2>1, SleepQueueFrame
    <2> QED BY <2>2 DEF PendSV
  <1>3. WaitingLists(waiting', state', wanted', priority')
    <2>1. WaitingLists(waiting, state', wanted, priority)
      BY <1>d, WaitingListsFrame DEF IInv, PendSV, TypeOK
    <2> QED BY <2>1 DEF IInv, PendSV, resVars
  <1>4. TypeOK'
    BY <1>0, <1>b, <1>c, <1>1, <1>2, <1>3 DEF TypeOK, PendSV, resVars, TaskState, RunQueues, HintSound,
                            SleepQueue, WaitingLists
  <1>5. CurrentOwnsCPU'
    BY <1>0, <1>b, <1>c DEF IInv, CurrentOwnsCPU, PendSV, TypeOK, Thread, KernelAssumption
  <1>6. Programs'
    BY <1>0, <1>b, <1>c DEF IInv, Programs, PendSV, TypeOK, KernelAssumption
  <1>7. NoneOverdue'
    BY <1>0, <1>b, <1>c DEF IInv, NoneOverdue, PendSV, TypeOK
  <1>8. NoLostWakeup'
    BY <1>d DEF IInv, NoLostWakeup, PendSV, resVars, TypeOK, KernelAssumption
  <1> QED BY <1>1, <1>2, <1>3, <1>4, <1>5, <1>6, <1>7, <1>8 DEF IInv

\* When wakeup_tasks returns, no sleeper's time has come.
LEMMA NoSleeperLeft ==
  ASSUME KernelAssumption, IInv, ~MustWake
  PROVE  \A u \in Task : state[u] = "SLEEPING" => sleep_left[u] > 0
  <1> SUFFICES ASSUME NEW u \in Task, state[u] = "SLEEPING"
               PROVE  sleep_left[u] > 0
    OBVIOUS
  <1>1. SleepQueue(sleepqueue, state, sleep_left) /\ TypeOK
    BY DEF IInv
  <1>2. sleep_left \in [Task -> Int] /\ state \in [Task -> TaskState]
    BY <1>1 DEF TypeOK
  <1>3. sleepqueue # <<>>
    <2>1. u \in Range(sleepqueue) /\ sleepqueue \in Seq(Task)
      BY <1>1 DEF SleepQueue
    <2> QED BY <2>1, EmptyRange
  <1>4. Head(sleepqueue) \in Task /\ sleep_left[Head(sleepqueue)] <= sleep_left[u]
    BY <1>1, <1>2, <1>3, WokenUp
  <1>5. ~(sleep_left[Head(sleepqueue)] <= 0)
    BY <1>3 DEF MustWake
  <1> QED BY <1>2, <1>4, <1>5

\* sys_tick_handler switches tasks.
LEMMA SysTickReturnInv ==
  ASSUME KernelAssumption, IInv,
         SysTickReturn
  PROVE  IInv'
  <1>0. TypeOK /\ current_task \in Task /\ handler = "sys_tick" /\ ~pendsv
    BY SysTickSwitches DEF IInv, SysTickReturn, CurrentOwnsCPU
  <1>a. PICK t \in Task : Switched([state EXCEPT ![current_task] = "RUNNABLE"], t)
    BY SysTickSwitches
  <1>b. /\ RunQueues(runq', state', priority) /\ HintSound(runq', highest_prio_level')
        /\ current_task' = t
    BY <1>a DEF Switched
  <1>c. /\ state' \in [Task -> TaskState]
        /\ state'[t] = "RUNNING"
        /\ \A u \in Task \ {t} :
             state'[u] = IF u = current_task THEN "RUNNABLE" ELSE state[u]
        /\ t # current_task => state[t] = "RUNNABLE"
        /\ state[current_task] \in {"RUNNING", "SUSPENDED"}
    BY <1>0, <1>a DEF Switched, TypeOK, TaskState, IInv, CurrentOwnsCPU, KernelAssumption
  <1>d. \A u \in Task :
          /\ state'[u] = "SLEEPING" <=> state[u] = "SLEEPING"
          /\ state'[u] = "WAITING_FOR_RESOURCE" <=> state[u] = "WAITING_FOR_RESOURCE"
          /\ state[u] \in {"RUNNABLE", "RUNNING"} => state'[u] \in {"RUNNABLE", "RUNNING"}
    <2> SUFFICES ASSUME NEW u \in Task
                 PROVE  /\ state'[u] = "SLEEPING" <=> state[u] = "SLEEPING"
                        /\ state'[u] = "WAITING_FOR_RESOURCE"
                             <=> state[u] = "WAITING_FOR_RESOURCE"
                        /\ state[u] \in {"RUNNABLE", "RUNNING"}
                             => state'[u] \in {"RUNNABLE", "RUNNING"}
      OBVIOUS
    <2>1. CASE u = t
      BY <1>c, <2>1
    <2>2. CASE u # t
      BY <1>c, <2>2
    <2> QED BY <2>1, <2>2
  <1>1. RunQueues(runq', state', priority') /\ HintSound(runq', highest_prio_level')
    BY <1>b DEF SysTickReturn
  <1>2. SleepQueue(sleepqueue', state', sleep_left')
    <2>1. SleepQueue(sleepqueue, state, sleep_left)
      BY DEF IInv
    <2>2. SleepQueue(sleepqueue, state', sleep_left)
      BY <1>d, <2>1, SleepQueueFrame
    <2> QED BY <2>2 DEF SysTickReturn
  <1>3. WaitingLists(waiting', state', wanted', priority')
    <2>1. WaitingLists(waiting, state', wanted, priority)
      BY <1>d, WaitingListsFrame DEF IInv, SysTickReturn, TypeOK
    <2> QED BY <2>1 DEF IInv, SysTickReturn, resVars
  <1>4. TypeOK'
    BY <1>0, <1>b, <1>c, <1>1, <1>2, <1>3 DEF TypeOK, SysTickReturn, resVars, TaskState, RunQueues, HintSound,
                            SleepQueue, WaitingLists
  <1>5. CurrentOwnsCPU'
    BY <1>0, <1>b, <1>c DEF IInv, CurrentOwnsCPU, SysTickReturn, TypeOK, Thread, KernelAssumption
  <1>6. Programs'
    BY <1>0, <1>b, <1>c DEF IInv, Programs, SysTickReturn, TypeOK, KernelAssumption
  <1>7. NoneOverdue'
    <2>1. \A u \in Task : state[u] = "SLEEPING" => sleep_left[u] > 0
      BY NoSleeperLeft DEF SysTickReturn
    <2>2. \A u \in Task : sleep_left[u] \in Int
      BY <1>0 DEF TypeOK
    <2> QED BY <1>c, <2>1, <2>2 DEF NoneOverdue, SysTickReturn
  <1>8. NoLostWakeup'
    BY <1>d DEF IInv, NoLostWakeup, SysTickReturn, resVars, TypeOK, KernelAssumption
  <1> QED BY <1>1, <1>2, <1>3, <1>4, <1>5, <1>6, <1>7, <1>8 DEF IInv

\* os_tick_count++ brings all sleepers one tick closer.
LEMMA SysTickInv ==
  ASSUME KernelAssumption, IInv,
         SysTick
  PROVE  IInv'
  <1>0. /\ TypeOK /\ Thread /\ current_task # NULL
        /\ UNCHANGED <<state, priority, pc, wanted, resVars, runq, highest_prio_level,
                       sleepqueue, current_task, pendsv>>
        /\ handler' = "sys_tick"
        /\ \A t \in Task : sleep_left'[t] = IF state[t] = "SLEEPING"
                                              THEN sleep_left[t] - 1 ELSE 0
    BY DEF IInv, SysTick
  <1>1. RunQueues(runq', state', priority') /\ HintSound(runq', highest_prio_level')
    BY <1>0 DEF IInv
  <1>2. SleepQueue(sleepqueue', state', sleep_left')
    <2>1. SleepQueue(sleepqueue, state, sleep_left)
      BY DEF IInv
    <2>2. \A i \in 1 .. Len(sleepqueue) :
            /\ sleep_left[sleepqueue[i]] \in Int
            /\ sleep_left'[sleepqueue[i]] = sleep_left[sleepqueue[i]] - 1
      <3>1. \A i \in 1 .. Len(sleepqueue) : sleepqueue[i] \in Range(sleepqueue)
        BY <2>1, RangeEquality DEF SleepQueue
      <3> QED BY <1>0, <2>1, <3>1 DEF SleepQueue, TypeOK
    <2>3. Ordered(sleepqueue, sleep_left')
      BY <2>1, <2>2 DEF SleepQueue, Ordered
    <2> QED BY <1>0, <2>1, <2>3 DEF SleepQueue
  <1>3. WaitingLists(waiting', state', wanted', priority')
    BY <1>0 DEF IInv, resVars
  <1>4. TypeOK'
    <2>1. sleep_left' \in [Task -> -1 .. MaxSleep]
      <3>1. \A t \in Task : state[t] = "SLEEPING" => sleep_left[t] \in 0 .. MaxSleep
        BY <1>0 DEF IInv, NoneOverdue, TypeOK, Thread, KernelAssumption
      <3> QED BY <3>1 DEF SysTick, KernelAssumption
    <2> QED BY <1>0, <2>1 DEF TypeOK, resVars
  <1>5. CurrentOwnsCPU'
    BY <1>0 DEF IInv, CurrentOwnsCPU, Thread
  <1>6. Programs'
    BY <1>0 DEF IInv, Programs
  <1>7. NoneOverdue'
    BY <1>0 DEF NoneOverdue
  <1>8. NoLostWakeup'
    BY <1>0 DEF IInv, NoLostWakeup, resVars
  <1> QED BY <1>1, <1>2, <1>3, <1>4, <1>5, <1>6, <1>7, <1>8 DEF IInv

\* wakeup_tasks queues the first sleeper.
LEMMA WakeUpTaskInv ==
  ASSUME KernelAssumption, IInv,
         WakeUpTask
  PROVE  IInv'
  <1> DEFINE sleeping == Head(sleepqueue)
  <1>0. /\ TypeOK /\ handler = "sys_tick" /\ sleepqueue # <<>>
        /\ state' = [state EXCEPT ![sleeping] = "RUNNABLE"]
        /\ runq' = AddToHead(runq, sleeping)
        /\ highest_prio_level' = Raise(highest_prio_level, sleeping)
        /\ sleepqueue' = Tail(sleepqueue)
        /\ UNCHANGED <<priority, pc, wanted, sleep_left, resVars, current_task,
                       pendsv, handler>>
    BY DEF IInv, WakeUpTask, MustWake
  <1>a. /\ sleeping \in Task /\ state[sleeping] = "SLEEPING"
        /\ SleepQueue(Tail(sleepqueue), [state EXCEPT ![sleeping] = "RUNNABLE"], sleep_left)
    <2>1. state \in [Task -> TaskState] /\ sleep_left \in [Task -> Int]
      BY <1>0 DEF TypeOK
    <2> QED BY <1>0, <2>1, WokenUp DEF IInv
  <1> HIDE DEF sleeping
  <1>1. RunQueues(runq', state', priority') /\ HintSound(runq', highest_prio_level')
    BY <1>0, <1>a, Enqueued DEF IInv, TypeOK
  <1>2. SleepQueue(sleepqueue', state', sleep_left')
    BY <1>0, <1>a
  <1>3. WaitingLists(waiting', state', wanted', priority')
    <2>1. WaitingLists(waiting, state', wanted, priority)
      BY <1>0, <1>a, WaitingListsFrame DEF IInv, TypeOK
    <2> QED BY <1>0, <2>1 DEF resVars
  <1>4. TypeOK'
    BY <1>0, <1>a, <1>1, <1>2, <1>3 DEF TypeOK, resVars, TaskState, RunQueues, HintSound,
                            SleepQueue, WaitingLists
  <1>5. CurrentOwnsCPU'
    BY <1>0, <1>a DEF IInv, CurrentOwnsCPU, TypeOK, Thread, KernelAssumption
  <1>6. Programs'
    BY <1>0, <1>a DEF IInv, Programs, TypeOK, KernelAssumption
  <1>7. NoneOverdue'
    BY <1>0, <1>a DEF IInv, NoneOverdue, TypeOK
  <1>8. NoLostWakeup'
    BY <1>0, <1>a DEF IInv, NoLostWakeup, resVars, TypeOK, KernelAssumption
  <1> QED BY <1>1, <1>2, <1>3, <1>4, <1>5, <1>6, <1>7, <1>8 DEF IInv

\* Every step of the kernel preserves the invariant.
LEMMA NextInv ==
  ASSUME KernelAssumption, IInv, [Next]_vars
  PROVE  IInv'
  <1>1. CASE TasksStart
    BY <1>1, TasksStartInv
  <1>2. ASSUME NEW t \in Task, TaskStep(t)
        PROVE  IInv'
    <2>1. ASSUME NEW prio \in Level, TaskInit(t, prio)
          PROVE  IInv'
      BY <2>1, TaskInitInv
    <2>2. CASE TaskAdd(t)
      BY <2>2, TaskAddInv
    <2>3. CASE TaskReturn(t)
      BY <2>3, TaskReturnInv
    <2>4. CASE TaskYield(t)
      BY <2>4, TaskYieldInv
    <2>5. CASE SuspendSelfMark(t)
      BY <2>5, SuspendSelfMarkInv
    <2>6. CASE SuspendSelfYield(t)
      BY <2>6, SuspendSelfYieldInv
    <2>7. ASSUME NEW other \in Task, TaskUnsuspend(t, other)
          PROVE  IInv'
      BY <2>7, TaskUnsuspendInv
    <2>8. ASSUME NEW n \in 0 .. MaxSleep, TaskSleep(t, n)
          PROVE  IInv'
      BY <2>8, TaskSleepInv
    <2>9. ASSUME NEW r \in Resource, ResourceAcquire(t, r)
          PROVE  IInv'
      BY <2>9, ResourceAcquireInv
    <2>10. ASSUME NEW r \in Resource, ResourceWait(t, r)
           PROVE  IInv'
      BY <2>10, ResourceWaitInv
    <2>11. ASSUME NEW r \in Resource, ResourceRelease(t, r)
           PROVE  IInv'
      BY <2>11, ReleaseQuietInv, ReleaseWakesInv
    <2> QED BY <1>2, <2>1, <2>2, <2>3, <2>4, <2>5, <2>6, <2>7, <2>8, <2>9, <2>10, <2>11
            DEF TaskStep
  <1>3. CASE Handler
    <2>1. CASE PendSV
      BY <2>1, PendSVInv
    <2>2. CASE SysTick
      BY <2>2, SysTickInv
    <2>3. CASE WakeUpTask
      BY <2>3, WakeUpTaskInv
    <2>4. CASE SysTickReturn
      BY <2>4, SysTickReturnInv
    <2>5. ASSUME NEW other \in Task, IsrUnsuspend(other)
          PROVE  IInv'
      BY <2>5, IsrUnsuspendInv
    <2> QED BY <1>3, <2>1, <2>2, <2>3, <2>4, <2>5 DEF Handler
  <1>4. CASE UNCHANGED vars
    <2>1. UNCHANGED <<state, priority, pc, wanted, sleep_left, waiting, acquired_by,
                      runq, highest_prio_level, sleepqueue, current_task, pendsv, handler>>
      BY <1>4 DEF vars, taskVars, resVars
    <2> QED BY <2>1 DEF IInv, TypeOK, CurrentOwnsCPU, Programs, NoneOverdue, NoLostWakeup
  <1> QED BY <1>1, <1>2, <1>3, <1>4 DEF Next

\* The kernel never leaves the inductive invariant.
THEOREM Invariance == Spec => []IInv
  <1>1. Init => IInv
    BY InitInv, KernelAssumption
  <1>2. IInv /\ [Next]_vars => IInv'
    BY NextInv, KernelAssumption
  <1> QED BY <1>1, <1>2, PTL DEF Spec

-----------------------------------------------------------------------------
(* The theorems: invariants.                                               *)

\* Every variable of the kernel has its type; in particular no sleeper is ever
\* more than one tick overdue.
THEOREM TypeCorrect == Spec => []TypeOK
  <1>1. IInv => TypeOK
    BY DEF IInv
  <1> QED BY <1>1, Invariance, PTL

\* The lists of the kernel hold exactly the tasks in their state, each once:
\* no call and no handler loses a task or links it twice.
THEOREM ListsAreRight == Spec => []QueuesMatchStates
  <1>1. IInv => QueuesMatchStates
    BY DEF IInv, QueuesMatchStates, RunQueues, SleepQueue, WaitingLists
  <1> QED BY <1>1, Invariance, PTL

\* take_highest_prio_task never reaches its endless loop: idle_task is there,
\* and highest_prio_level is not above it.
THEOREM SchedulerFindsATask == Spec => []AlwaysATaskToRun
  <1>1. IInv => AlwaysATaskToRun
    <2> SUFFICES ASSUME IInv, current_task # NULL, state[current_task] # "RUNNING"
                 PROVE  \E p \in highest_prio_level .. NUM_PRIO_LEVELS - 1 : runq[p] # <<>>
      BY DEF AlwaysATaskToRun
    <2>1. Idle \in Task /\ priority[Idle] \in Level
      BY KernelAssumption DEF IInv, TypeOK
    <2>2. state[Idle] = "RUNNABLE"
      BY <2>1 DEF IInv, Programs, CurrentOwnsCPU
    <2>3. runq[priority[Idle]] # <<>>
      <3>1. Idle \in Range(runq[priority[Idle]]) /\ runq[priority[Idle]] \in Seq(Task)
        BY <2>1, <2>2 DEF IInv, RunQueues
      <3> QED BY <3>1, EmptyRange
    <2>4. highest_prio_level \in Level /\ ~(priority[Idle] < highest_prio_level)
      BY <2>1, <2>3 DEF IInv, HintSound
    <2> QED BY <2>1, <2>3, <2>4, KernelAssumption DEF Level
  <1> QED BY <1>1, Invariance, PTL

\* os_resource_release and os_resource_acquire lose no wake-up, whatever is
\* scheduled in between.
THEOREM NoWakeupIsLost == Spec => []NoLostWakeup
  <1>1. IInv => NoLostWakeup
    BY DEF IInv
  <1> QED BY <1>1, Invariance, PTL

-----------------------------------------------------------------------------
(* The theorems: what no step does.                                        *)

\* All the ways in which the state of a task can change.
LEMMA ChangesOfState ==
  ASSUME KernelAssumption, IInv, Next, NEW t \in Task, state'[t] # state[t]
  PROVE  \/ t = current_task /\ state[t] \in {"RUNNING", "SUSPENDED"}
         \/ state[t] = "RUNNABLE"
         \/ TaskAdd(t) /\ state[t] = "STOPPED"
         \/ Unsuspend(t) /\ state[t] = "SUSPENDED"
         \/ WakeUpTask /\ t = Head(sleepqueue)
         \/ \E u \in Task, r \in Resource :
              ResourceRelease(u, r) /\ waiting[r] # <<>> /\ t = Head(waiting[r])
  <1>0. TypeOK /\ state \in [Task -> TaskState]
    BY DEF IInv, TypeOK
  <1>1. CASE TasksStart
    <2>1. \E u \in Task : state[u] = "RUNNABLE" /\ state' = [state EXCEPT ![u] = "RUNNING"]
      BY <1>0, <1>1, Dispatched DEF TasksStart, IInv, TypeOK
    <2> QED BY <1>0, <2>1
  <1>2. ASSUME NEW u \in Task, TaskStep(u)
        PROVE  \/ t = u /\ u = current_task /\ state[u] \in {"RUNNING", "SUSPENDED"}
               \/ TaskAdd(t) /\ state[t] = "STOPPED"
               \/ Unsuspend(t) /\ state[t] = "SUSPENDED"
               \/ \E r \in Resource :
                    ResourceRelease(u, r) /\ waiting[r] # <<>> /\ t = Head(waiting[r])
    <2>1. App(u) \/ (\E r \in Resource : Acquires(u, r))
            => u = current_task /\ state[u] = "RUNNING"
      BY CallerRuns
    <2>2. CASE (\E p \in Level : TaskInit(u, p)) \/ TaskYield(u) \/ SuspendSelfYield(u)
      BY <2>2 DEF TaskInit, TaskYield, SuspendSelfYield, taskVars
    <2>3. CASE TaskAdd(u)
      BY <1>0, <2>3 DEF TaskAdd
    <2>4. CASE TaskReturn(u) \/ SuspendSelfMark(u)
      BY <1>0, <2>1, <2>4 DEF TaskReturn, SuspendSelfMark
    <2>5. CASE \E other \in Task : TaskUnsuspend(u, other)
      BY <1>0, <2>5 DEF TaskUnsuspend, Unsuspend
    <2>6. CASE \E n \in 0 .. MaxSleep : TaskSleep(u, n)
      BY <1>0, <2>1, <2>6 DEF TaskSleep
    <2>7. CASE \E r \in Resource : ResourceAcquire(u, r) \/ ResourceWait(u, r)
      BY <1>0, <2>1, <2>7 DEF ResourceAcquire, ResourceWait
    <2>8. CASE \E r \in Resource : ResourceRelease(u, r)
      BY <1>0, <2>8 DEF ResourceRelease
    <2> QED BY <1>2, <2>2, <2>3, <2>4, <2>5, <2>6, <2>7, <2>8 DEF TaskStep
  <1>3. CASE PendSV
    BY <1>0, <1>3, PendSVSwitches DEF Switched
  <1>4. CASE SysTick
    BY <1>4 DEF SysTick
  <1>5. CASE WakeUpTask
    BY <1>0, <1>5 DEF WakeUpTask
  <1>6. CASE SysTickReturn
    <2>1. state[current_task] \in {"RUNNING", "SUSPENDED"}
      BY <1>6 DEF IInv, CurrentOwnsCPU, SysTickReturn
    <2> QED BY <1>0, <1>6, <2>1, SysTickSwitches DEF Switched
  <1>7. CASE \E other \in Task : IsrUnsuspend(other)
    BY <1>0, <1>7 DEF IsrUnsuspend, Unsuspend
  <1> QED BY <1>1, <1>2, <1>3, <1>4, <1>5, <1>6, <1>7 DEF Next, Handler

\* A sleeper wakes in the tick at which its time has come, and not before.
THEOREM SleepIsExact == Spec => SleepersWakeOnTime
  <1>1. ASSUME IInv, Next, NEW t \in Task, state[t] = "SLEEPING"
        PROVE  IF state'[t] = "SLEEPING"
                 THEN handler = "sys_tick" /\ handler' = "thread" => sleep_left[t] > 0
                 ELSE sleep_left[t] <= 0
    <2>1. CASE state'[t] # "SLEEPING"
      <3>1. \A r \in Resource : waiting[r] # <<>>
              => state[Head(waiting[r])] = "WAITING_FOR_RESOURCE"
        BY <1>1, FirstWaiter, KernelAssumption DEF IInv, TypeOK
      <3>2. WakeUpTask /\ t = Head(sleepqueue)
        BY <1>1, <2>1, <3>1, ChangesOfState, KernelAssumption
      <3> QED BY <2>1, <3>2 DEF WakeUpTask, MustWake
    <2>2. ASSUME handler = "sys_tick", handler' = "thread"
          PROVE  sleep_left[t] > 0
      <3>1. SysTickReturn
        BY <1>1, <2>2 DEF Next, Handler, TaskStep, TasksStart, TaskInit, TaskAdd, TaskReturn,
           TaskYield, SuspendSelfMark, SuspendSelfYield, TaskUnsuspend, IsrUnsuspend, Unsuspend, TaskSleep,
           ResourceAcquire, ResourceWait, ResourceRelease, PendSV, SysTick, WakeUpTask
      <3> QED BY <1>1, <3>1, NoSleeperLeft, KernelAssumption DEF SysTickReturn
    <2> QED BY <2>1, <2>2
  <1>2. IInv /\ [Next]_vars
          => [\A t \in Task : state[t] = "SLEEPING" =>
                IF state'[t] = "SLEEPING"
                  THEN handler = "sys_tick" /\ handler' = "thread" => sleep_left[t] > 0
                  ELSE sleep_left[t] <= 0]_vars
    BY <1>1
  <1> QED BY <1>2, Invariance, PTL DEF Spec, SleepersWakeOnTime

\* os_resource_release wakes the most urgent of those who wait.
THEOREM ReleaseServesByPriority == Spec => HighestWaiterFirst
  <1>1. ASSUME IInv, Next, NEW r \in Resource, NEW t \in Task, NEW other \in Task,
               state[t] = "WAITING_FOR_RESOURCE", wanted[t] = r,
               state'[t] = "RUNNABLE",
               state'[other] = "WAITING_FOR_RESOURCE", wanted[other] = r
        PROVE  priority[t] <= priority[other]
    <2>0. /\ TypeOK /\ state \in [Task -> TaskState] /\ priority \in [Task -> Level]
          /\ wanted \in [Task -> Resource \cup {NULL}]
          /\ WaitingLists(waiting, state, wanted, priority)
          /\ SleepQueue(sleepqueue, state, sleep_left)
      BY <1>1 DEF IInv, TypeOK
    <2>1. ~WakeUpTask
      <3>1. sleepqueue # <<>> => state[Head(sleepqueue)] = "SLEEPING"
        <4>1. sleep_left \in [Task -> Int]
          BY <2>0 DEF TypeOK
        <4> QED BY <2>0, <4>1, WokenUp
      <3>2. ASSUME WakeUpTask PROVE FALSE
        <4>1. t = Head(sleepqueue) \/ state'[t] = state[t]
          BY <2>0, <3>2 DEF WakeUpTask
        <4> QED BY <1>1, <3>1, <3>2, <4>1 DEF WakeUpTask, MustWake
      <3> QED BY <3>2
    <2>2. PICK u \in Task, r2 \in Resource :
            ResourceRelease(u, r2) /\ waiting[r2] # <<>> /\ t = Head(waiting[r2])
      BY <1>1, <2>1, ChangesOfState, KernelAssumption
    <2>3. /\ wanted[t] = r2
          /\ \A x \in Task : (state[x] = "WAITING_FOR_RESOURCE" /\ wanted[x] = r2)
                               => priority[t] <= priority[x]
      BY <2>0, <2>2, FirstWaiter, KernelAssumption
    <2>4. state' = [state EXCEPT ![t] = "RUNNABLE"]
      BY <2>2 DEF ResourceRelease
    <2>5. state[other] = "WAITING_FOR_RESOURCE"
      BY <1>1, <2>0, <2>4
    <2> QED BY <1>1, <2>3, <2>5
  <1>2. IInv /\ [Next]_vars
          => [\A r \in Resource, t, other \in Task :
                (/\ state[t] = "WAITING_FOR_RESOURCE" /\ wanted[t] = r
                 /\ state'[t] = "RUNNABLE"
                 /\ state'[other] = "WAITING_FOR_RESOURCE" /\ wanted[other] = r)
                  => priority[t] <= priority[other]]_vars
    BY <1>1
  <1> QED BY <1>2, Invariance, PTL DEF Spec, HighestWaiterFirst

\* Only os_task_unsuspend brings back a task that was switched out SUSPENDED.
THEOREM SuspensionHolds == Spec => SuspendedStays
  <1>1. ASSUME IInv, Next, NEW t \in Task,
               state[t] = "SUSPENDED", t # current_task, state'[t] # "SUSPENDED"
        PROVE  Unsuspend(t)
    <2>1. \A r \in Resource : waiting[r] # <<>>
            => state[Head(waiting[r])] = "WAITING_FOR_RESOURCE"
      BY <1>1, FirstWaiter, KernelAssumption DEF IInv, TypeOK
    <2>2. WakeUpTask => state[Head(sleepqueue)] = "SLEEPING"
      <3>1. /\ state \in [Task -> TaskState] /\ sleep_left \in [Task -> Int]
            /\ SleepQueue(sleepqueue, state, sleep_left)
        BY <1>1 DEF IInv, TypeOK
      <3> QED BY <3>1, WokenUp DEF WakeUpTask, MustWake
    <2> QED BY <1>1, <2>1, <2>2, ChangesOfState, KernelAssumption
  <1>2. IInv /\ [Next]_vars
          => [\A t \in Task :
                (state[t] = "SUSPENDED" /\ t # current_task /\ state'[t] # "SUSPENDED")
                  => Unsuspend(t)]_vars
    BY <1>1
  <1> QED BY <1>2, Invariance, PTL DEF Spec, SuspendedStays

\* The current task is not less urgent than w, if w can run.
Unpassed(w) ==
  (Thread /\ current_task # NULL /\ state[w] = "RUNNABLE")
    => priority[current_task] <= priority[w]

\* Only os_task_add of w changes that: every other step that makes w RUNNABLE, or
\* gives the processor away, compares the priorities.
LEMMA StaysUnpassed ==
  ASSUME KernelAssumption, IInv, Next, NEW w \in Task, ~TaskAdd(w), Unpassed(w)
  PROVE  Unpassed(w)'
  <1>0. /\ TypeOK /\ state \in [Task -> TaskState] /\ priority \in [Task -> Level]
        /\ \A p \in Level : p \in Int
    <2>1. \A p \in Level : p \in Int
      BY KernelAssumption DEF Level
    <2> QED BY <2>1 DEF IInv, TypeOK
  <1>1. CASE TasksStart
    <2>1. \E t \in Task :
            /\ current_task' = t
            /\ state' = [state EXCEPT ![t] = "RUNNING"]
            /\ \A u \in Task : state[u] = "RUNNABLE" => priority[t] <= priority[u]
      BY <1>0, <1>1, Dispatched, KernelAssumption DEF TasksStart, IInv
    <2> QED BY <1>0, <1>1, <2>1 DEF Unpassed, TasksStart
  <1>a. ASSUME NEW t \in Task, NEW woken \in Task,
               handler = "thread", current_task = t,
               state' = [state EXCEPT ![woken] = "RUNNABLE"],
               pendsv => pendsv',
               priority[t] > priority[woken] => pendsv',
               UNCHANGED <<priority, current_task, handler>>
        PROVE  Unpassed(w)'
    <2> SUFFICES ASSUME ~pendsv', state'[w] = "RUNNABLE"
                 PROVE  priority[t] <= priority[w]
      BY <1>a DEF Unpassed, Thread
    <2>1. t # NULL /\ Thread
      BY <1>a, KernelAssumption DEF Thread
    <2>2. CASE w = woken
      BY <1>0, <1>a, <2>2
    <2>3. CASE w # woken
      BY <1>0, <1>a, <2>1, <2>3 DEF Unpassed
    <2> QED BY <2>2, <2>3
  <1>b. ASSUME NEW other \in Task, Unsuspend(other),
               handler = "thread", current_task \in Task
        PROVE  Unpassed(w)'
    <2>1. /\ pendsv => pendsv'
          /\ priority[current_task] > priority[other] => pendsv'
      BY <1>b, Zenon DEF Unsuspend
    <2> QED BY <1>a, <1>b, <2>1 DEF Unsuspend
  <1>2. ASSUME NEW t \in Task, TaskStep(t)
        PROVE  Unpassed(w)'
    <2>1. CASE \E p \in Level : TaskInit(t, p)
      <3>1. /\ Caller /\ state[t] = "STOPPED"
            /\ \A u \in Task \ {t} : priority'[u] = priority[u]
            /\ UNCHANGED <<state, current_task, pendsv, handler>>
        BY <1>0, <2>1 DEF TaskInit
      <3>2. current_task = NULL \/ (current_task \in Task /\ current_task # t)
        BY <3>1, CurrentRuns, KernelAssumption
      <3> QED BY <1>0, <3>1, <3>2 DEF Unpassed, Thread
    <2>2. CASE TaskReturn(t) \/ TaskYield(t) \/ SuspendSelfYield(t)
               \/ (\E n \in 0 .. MaxSleep : TaskSleep(t, n))
               \/ (\E r \in Resource : ResourceWait(t, r))
      BY <2>2 DEF Unpassed, Thread, TaskReturn, TaskYield, SuspendSelfYield, TaskSleep,
         ResourceWait
    <2>3. CASE SuspendSelfMark(t)
      BY <1>0, <2>3 DEF Unpassed, Thread, SuspendSelfMark
    <2>4. ASSUME NEW other \in Task, TaskUnsuspend(t, other)
          PROVE  Unpassed(w)'
      BY <1>b, <2>4 DEF TaskUnsuspend, App, Thread
    <2>5. CASE \E r \in Resource : ResourceAcquire(t, r)
      BY <2>5 DEF Unpassed, Thread, ResourceAcquire
    <2>6. ASSUME NEW r \in Resource, ResourceRelease(t, r)
          PROVE  Unpassed(w)'
      <3>1. CASE waiting[r] = <<>>
        BY <2>6, <3>1 DEF Unpassed, Thread, ResourceRelease
      <3>2. CASE waiting[r] # <<>>
        <4> DEFINE first == Head(waiting[r])
        <4>1. first \in Task
          BY <1>0, <3>2, FirstWaiter, KernelAssumption DEF IInv
        <4>2. /\ handler = "thread" /\ ~pendsv /\ current_task = t
              /\ state' = [state EXCEPT ![first] = "RUNNABLE"]
              /\ pendsv' = (priority[t] > priority[first])
              /\ UNCHANGED <<priority, current_task, handler>>
          BY <2>6, <3>2 DEF ResourceRelease, App, Thread
        <4> HIDE DEF first
        <4>3. priority[t] > priority[first] => pendsv'
          BY <4>2, Zenon
        <4> QED BY <1>a, <4>1, <4>2, <4>3
      <3> QED BY <3>1, <3>2
    <2>7. CASE TaskAdd(t)
      BY <1>0, <2>7 DEF Unpassed, Thread, TaskAdd
    <2> QED BY <1>2, <2>1, <2>2, <2>3, <2>4, <2>5, <2>6, <2>7 DEF TaskStep
  <1>3. ASSUME NEW st \in [Task -> TaskState], NEW t \in Task, Switched(st, t),
               priority' = priority
        PROVE  Unpassed(w)'
    <2>1. \A u \in Task : state'[u] = "RUNNABLE" => st[u] = "RUNNABLE"
      BY <1>3 DEF Switched
    <2> QED BY <1>3, <2>1 DEF Unpassed, Switched
  <1>4. CASE PendSV
    <2>1. [state EXCEPT ![current_task] = "RUNNABLE"] \in [Task -> TaskState]
      BY <1>0 DEF TaskState
    <2>2. priority' = priority
      BY <1>4 DEF PendSV
    <2> QED BY <1>0, <1>3, <1>4, <2>1, <2>2, PendSVSwitches, KernelAssumption
  <1>5. CASE SysTick \/ WakeUpTask
    BY <1>5 DEF SysTick, WakeUpTask, Unpassed, Thread
  <1>6. CASE SysTickReturn
    <2>1. [state EXCEPT ![current_task] = "RUNNABLE"] \in [Task -> TaskState]
      BY <1>0 DEF TaskState
    <2>2. priority' = priority
      BY <1>6 DEF SysTickReturn
    <2> QED BY <1>3, <1>6, <2>1, <2>2, SysTickSwitches, KernelAssumption
  <1>7. CASE \E other \in Task : IsrUnsuspend(other)
    <2>1. current_task \in Task \cup {NULL}
      BY <1>0 DEF TypeOK
    <2> QED BY <1>7, <1>b, <2>1 DEF IsrUnsuspend
  <1> QED BY <1>1, <1>2, <1>4, <1>5, <1>6, <1>7 DEF Next, Handler

\* Whatever the order of calls and ticks, only os_task_add lets a task run on
\* while a more urgent one is RUNNABLE.
THEOREM PriorityHolds == Spec => OnlyAddDelaysPriority
  <1>1. HighestRuns <=> \A w \in Task : Unpassed(w)
    BY DEF HighestRuns, Unpassed
  <1>2. HighestRuns' <=> \A w \in Task : Unpassed(w)'
    BY DEF HighestRuns, Unpassed
  <1>3. IInv /\ [Next]_vars
          => [HighestRuns => HighestRuns' \/ \E t \in Task : TaskAdd(t)]_vars
    BY <1>1, <1>2, StaysUnpassed, KernelAssumption
  <1> QED BY <1>3, Invariance, PTL DEF Spec, OnlyAddDelaysPriority

\* A task inside os_resource_acquire is not STOPPED, so nobody adds it, and the
\* current task is never less urgent than one that has been woken in there.
Retries ==
  \A w \in Task : wanted[w] # NULL => state[w] # "STOPPED" /\ Unpassed(w)

LEMMA RetriesInv == Spec => []Retries
  <1>1. Init => Retries
    BY DEF Init, Retries
  <1>2. ASSUME IInv, Retries, [Next]_vars, NEW w \in Task, wanted'[w] # NULL
        PROVE  state'[w] # "STOPPED" /\ Unpassed(w)'
    <2>0. /\ state \in [Task -> TaskState]
          /\ wanted \in [Task -> Resource \cup {NULL}]
      BY <1>2 DEF IInv, TypeOK
    <2>1. CASE UNCHANGED vars
      BY <1>2, <2>1 DEF Retries, Unpassed, Thread, vars, taskVars
    <2>2. ASSUME Next, wanted[w] = NULL
          PROVE  state'[w] = "WAITING_FOR_RESOURCE"
      <3>1. \E u \in Task, r \in Resource : ResourceAcquire(u, r) \/ ResourceWait(u, r)
        BY <1>2, <2>2 DEF Next, Handler, TaskStep, TasksStart, TaskInit, TaskAdd, TaskReturn,
           TaskYield, SuspendSelfMark, SuspendSelfYield, TaskUnsuspend, IsrUnsuspend, Unsuspend,
           TaskSleep, ResourceRelease, PendSV, SysTick, WakeUpTask, SysTickReturn, taskVars
      <3> QED BY <1>2, <2>0, <2>2, <3>1 DEF ResourceAcquire, ResourceWait
    <2>3. ASSUME Next, wanted[w] # NULL
          PROVE  state'[w] # "STOPPED" /\ Unpassed(w)'
      <3>1. state[w] # "STOPPED" /\ Unpassed(w)
        BY <1>2, <2>3 DEF Retries
      <3>2. ~TaskAdd(w)
        BY <3>1 DEF TaskAdd
      <3>3. Unpassed(w)'
        BY <1>2, <2>3, <3>1, <3>2, StaysUnpassed, KernelAssumption
      <3>4. state'[w] # "STOPPED"
        <4>1. CASE \E u \in Task : TaskReturn(u)
          BY <2>0, <2>3, <3>1, <4>1 DEF TaskReturn, App
        <4>2. CASE TasksStart
          BY <2>0, <3>1, <4>2 DEF TasksStart, Dispatch
        <4>3. CASE PendSV \/ SysTickReturn
          BY <2>0, <3>1, <4>3 DEF PendSV, SysTickReturn, Dispatch
        <4>4. CASE \E u \in Task, r \in Resource : ResourceRelease(u, r)
          BY <2>0, <3>1, <4>4 DEF ResourceRelease
        <4>5. CASE WakeUpTask \/ SysTick
          BY <2>0, <3>1, <4>5 DEF WakeUpTask, SysTick
        <4>6. CASE \E u \in Task : TaskAdd(u) \/ Unsuspend(u)
          BY <2>0, <3>1, <4>6 DEF TaskAdd, Unsuspend
        <4>7. CASE \E u \in Task, r \in Resource : ResourceAcquire(u, r) \/ ResourceWait(u, r)
          BY <2>0, <3>1, <4>7 DEF ResourceAcquire, ResourceWait
        <4>8. CASE \E u \in Task : \/ \E p \in Level : TaskInit(u, p)
                                  \/ TaskYield(u) \/ SuspendSelfMark(u) \/ SuspendSelfYield(u)
                                  \/ \E n \in 0 .. MaxSleep : TaskSleep(u, n)
          BY <2>0, <3>1, <4>8 DEF TaskInit, TaskYield, SuspendSelfMark, SuspendSelfYield, TaskSleep,
             taskVars
        <4> QED BY <2>3, <4>1, <4>2, <4>3, <4>4, <4>5, <4>6, <4>7, <4>8
                DEF Next, Handler, TaskStep, TaskUnsuspend, IsrUnsuspend
      <3> QED BY <3>3, <3>4
    <2> QED BY <1>2, <2>1, <2>2, <2>3 DEF Unpassed
  <1>3. IInv /\ Retries /\ [Next]_vars => Retries'
    BY <1>2 DEF Retries
  <1> QED BY <1>1, <1>3, Invariance, PTL DEF Spec

\* Only a task at least as urgent takes a resource from under a woken waiter.
THEOREM RaceIsByPriority == Spec => OnlyUrgentBarge
  <1>1. ASSUME Retries, Next, NEW r \in Resource, NEW t \in Task, NEW woken \in Task,
               acquired_by'[r] = t, acquired_by[r] # t, acquired_by \in [Resource -> Task \cup {NULL}],
               wanted[woken] = r, state[woken] = "RUNNABLE"
        PROVE  priority[t] <= priority[woken]
    <2>1. ResourceAcquire(t, r)
      <3>1. \E u \in Task, r2 \in Resource : ResourceAcquire(u, r2) \/ ResourceRelease(u, r2)
        BY <1>1 DEF Next, Handler, TaskStep, TasksStart, TaskInit, TaskAdd, TaskReturn, TaskYield,
           SuspendSelfMark, SuspendSelfYield, TaskUnsuspend, IsrUnsuspend, Unsuspend, TaskSleep,
           ResourceWait, PendSV, SysTick, WakeUpTask, SysTickReturn, resVars
      <3> QED BY <1>1, <3>1, KernelAssumption DEF ResourceAcquire, ResourceRelease
    <2>2. Thread /\ current_task = t /\ t # NULL /\ r # NULL
      BY <2>1, KernelAssumption DEF ResourceAcquire, Acquires
    <2> QED BY <1>1, <2>2 DEF Retries, Unpassed
  <1>2. IInv /\ Retries /\ [Next]_vars
          => [\A r \in Resource, t, woken \in Task :
                (/\ acquired_by'[r] = t /\ acquired_by[r] # t
                 /\ wanted[woken] = r /\ state[woken] = "RUNNABLE")
                  => priority[t] <= priority[woken]]_vars
    BY <1>1 DEF IInv, TypeOK
  <1> QED BY <1>2, Invariance, RetriesInv, PTL DEF Spec, OnlyUrgentBarge

-----------------------------------------------------------------------------
(* The theorems: turns.                                                    *)

\* Putting e into a list puts nobody in front of another but e.
LEMMA AheadInserted ==
  ASSUME NEW S, NEW s \in Seq(S), NEW q, NEW i, NEW e, Inserted(S, s, q, i, e),
         NEW t, NEW u, u # e, Ahead(q, t, u)
  PROVE  \/ Ahead(s, t, u)
         \/ t = e /\ \E k \in 1 .. Len(s) : i <= k /\ s[k] = u
  <1>1. Len(s) \in Nat /\ Len(q) = Len(s) + 1 /\ i \in 1 .. Len(s) + 1
    BY LenProperties DEF Inserted
  <1>2. PICK a, b \in 1 .. Len(q) : a < b /\ q[a] = t /\ q[b] = u
    BY DEF Ahead
  <1> DEFINE old(j) == IF j < i THEN j ELSE j - 1
  <1>3. ASSUME NEW j \in 1 .. Len(q), j # i
        PROVE  old(j) \in 1 .. Len(s) /\ q[j] = s[old(j)]
    <2>1. CASE j < i
      BY <1>1, <2>1 DEF Inserted
    <2>2. CASE j > i
      BY <1>1, <2>2 DEF Inserted
    <2> QED BY <1>1, <1>3, <2>1, <2>2
  <1>4. b # i
    BY <1>2 DEF Inserted
  <1>5. old(b) \in 1 .. Len(s) /\ s[old(b)] = u
    BY <1>2, <1>3, <1>4
  <1>6. CASE a = i
    <2>1. t = e
      BY <1>2, <1>6 DEF Inserted
    <2>2. i <= old(b)
      BY <1>1, <1>2, <1>6
    <2> QED BY <1>5, <2>1, <2>2
  <1>7. CASE a # i
    <2>1. old(a) \in 1 .. Len(s) /\ s[old(a)] = t
      BY <1>2, <1>3, <1>7
    <2>2. old(a) < old(b)
      BY <1>1, <1>2, <1>4, <1>7
    <2> QED BY <1>5, <2>1, <2>2 DEF Ahead
  <1> QED BY <1>6, <1>7

\* So nobody gets in front of another when a task is added at the tail,
LEMMA AheadAppend ==
  ASSUME NEW S, NEW s \in Seq(S), NEW e \in S, NEW t, NEW u, u # e,
         Ahead(Append(s, e), t, u)
  PROVE  Ahead(s, t, u)
  <1>1. Len(s) \in Nat
    BY LenProperties
  <1>2. ~ \E k \in 1 .. Len(s) : Len(s) + 1 <= k
    BY <1>1
  <1> QED BY <1>2, AppendInserts, AheadInserted

\* or when the first one is taken.
LEMMA AheadTail ==
  ASSUME NEW S, NEW s \in Seq(S), s # <<>>, NEW t, NEW u, Ahead(Tail(s), t, u)
  PROVE  Ahead(s, t, u)
  <1>1. /\ Len(s) \in Nat \ {0}
        /\ Len(Tail(s)) = Len(s) - 1
        /\ \A j \in 1 .. Len(s) - 1 : Tail(s)[j] = s[j + 1]
    BY HeadTailProperties, EmptySeq, LenProperties
  <1>2. PICK a, b \in 1 .. Len(Tail(s)) : a < b /\ Tail(s)[a] = t /\ Tail(s)[b] = u
    BY DEF Ahead
  <1>3. /\ a + 1 \in 1 .. Len(s) /\ b + 1 \in 1 .. Len(s) /\ a + 1 < b + 1
        /\ s[a + 1] = t /\ s[b + 1] = u
    BY <1>1, <1>2
  <1> QED BY <1>3 DEF Ahead

\* A dispatch lets nobody overtake.
LEMMA AheadDispatch ==
  ASSUME NEW rq \in [Level -> Seq(Task)], NEW hint, NEW st, Dispatch(rq, hint, st),
         NEW p \in Level, NEW t, NEW u, Ahead(runq'[p], t, u)
  PROVE  Ahead(rq[p], t, u)
  <1>1. PICK level \in hint .. NUM_PRIO_LEVELS - 1 :
          /\ rq[level] # <<>>
          /\ runq' = [q \in Level |-> IF q = level THEN Tail(rq[q]) ELSE rq[q]]
    BY DEF Dispatch
  <1>2. CASE p = level
    <2>1. runq'[p] = Tail(rq[p]) /\ rq[p] # <<>> /\ rq[p] \in Seq(Task)
      BY <1>1, <1>2
    <2> QED BY <2>1, AheadTail
  <1>3. CASE p # level
    BY <1>1, <1>3
  <1> QED BY <1>2, <1>3

\* sched_add_to_runqueue_tail lets nobody overtake, _head just the task it adds.
LEMMA AheadEnqueued ==
  ASSUME NEW rq \in [Level -> Seq(Task)], priority \in [Task -> Level], NEW e \in Task,
         NEW p \in Level, NEW t, NEW u, u # e
  PROVE  /\ Ahead(AddToTail(rq, e)[p], t, u) => Ahead(rq[p], t, u)
         /\ Ahead(AddToHead(rq, e)[p], t, u) => Ahead(rq[p], t, u) \/ t = e
  <1> DEFINE s == rq[p]
  <1>1. s \in Seq(Task)
    OBVIOUS
  <1>2. /\ AddToTail(rq, e)[p] = IF p = priority[e] THEN Append(s, e) ELSE s
        /\ AddToHead(rq, e)[p] = IF p = priority[e] THEN <<e>> \o s ELSE s
    BY DEF AddToTail, AddToHead
  <1> HIDE DEF s
  <1>3. Ahead(Append(s, e), t, u) => Ahead(s, t, u)
    BY <1>1, AheadAppend
  <1>4. Ahead(<<e>> \o s, t, u) => Ahead(s, t, u) \/ t = e
    BY <1>1, ConsInserts, AheadInserted
  <1>5. /\ Ahead(AddToTail(rq, e)[p], t, u) => Ahead(s, t, u)
        /\ Ahead(AddToHead(rq, e)[p], t, u) => Ahead(s, t, u) \/ t = e
    BY <1>2, <1>3, <1>4
  <1> QED BY <1>5 DEF s

\* Nobody gets in front of a RUNNABLE task of its level but a task that has just
\* been woken: the two handlers, os_task_add and os_task_unsuspend queue at the
\* tail, behind all who were there.
THEOREM TurnsAreKept == Spec => OnlyWokenOvertake
  <1>1. ASSUME IInv, Next, NEW p \in Level, NEW t \in Task, NEW u \in Task,
               Ahead(runq'[p], t, u), state[u] = "RUNNABLE"
        PROVE  Ahead(runq[p], t, u) \/ state[t] \in {"SLEEPING", "WAITING_FOR_RESOURCE"}
    <2>0. /\ state \in [Task -> TaskState] /\ priority \in [Task -> Level]
          /\ runq \in [Level -> Seq(Task)]
      BY <1>1 DEF IInv, TypeOK
    <2>1. ASSUME NEW e \in Task, state[e] # "RUNNABLE",
                 Ahead(AddToTail(runq, e)[p], t, u)
          PROVE  Ahead(runq[p], t, u)
      BY <1>1, <2>0, <2>1, AheadEnqueued
    <2>2. ASSUME NEW e \in Task, state[e] \in {"SLEEPING", "WAITING_FOR_RESOURCE"},
                 runq' = AddToHead(runq, e)
          PROVE  Ahead(runq[p], t, u) \/ t = e
      BY <1>1, <2>0, <2>2, AheadEnqueued
    <2>3. CASE TasksStart
      BY <1>1, <2>0, <2>3, AheadDispatch DEF TasksStart
    <2>4. ASSUME NEW e \in Task, TaskAdd(e) \/ Unsuspend(e)
          PROVE  Ahead(runq[p], t, u)
      <3>1. state[e] # "RUNNABLE" /\ runq' = AddToTail(runq, e)
        BY <2>4 DEF TaskAdd, Unsuspend
      <3> QED BY <1>1, <2>1, <3>1
    <2>5. ASSUME NEW e \in Task, NEW r \in Resource, ResourceRelease(e, r), waiting[r] # <<>>
          PROVE  Ahead(runq[p], t, u) \/ state[t] = "WAITING_FOR_RESOURCE"
      <3>1. Head(waiting[r]) \in Task /\ state[Head(waiting[r])] = "WAITING_FOR_RESOURCE"
        BY <1>1, <2>0, <2>5, FirstWaiter, KernelAssumption DEF IInv
      <3>2. runq' = AddToHead(runq, Head(waiting[r]))
        BY <2>5 DEF ResourceRelease
      <3> QED BY <2>2, <3>1, <3>2
    <2>6. CASE PendSV
      <3>1. CASE state[current_task] = "RUNNING"
        <4>1. /\ current_task \in Task
              /\ Dispatch(AddToTail(runq, current_task), Raise(highest_prio_level, current_task),
                          [state EXCEPT ![current_task] = "RUNNABLE"])
          BY <1>1, <2>6, <3>1, PendSVSwitches, KernelAssumption DEF PendSV
        <4>2. AddToTail(runq, current_task) \in [Level -> Seq(Task)]
          BY <2>0, <4>1, AppendProperties DEF AddToTail
        <4> QED BY <1>1, <2>1, <3>1, <4>1, <4>2, AheadDispatch
      <3>2. CASE state[current_task] # "RUNNING"
        BY <1>1, <2>0, <2>6, <3>2, AheadDispatch DEF PendSV
      <3> QED BY <3>1, <3>2
    <2>7. CASE SysTickReturn
      <3>1. /\ current_task \in Task /\ state[current_task] # "RUNNABLE"
            /\ Dispatch(AddToTail(runq, current_task), Raise(highest_prio_level, current_task),
                        [state EXCEPT ![current_task] = "RUNNABLE"])
        BY <1>1, <2>7, KernelAssumption DEF SysTickReturn, IInv, TypeOK, CurrentOwnsCPU
      <3>2. AddToTail(runq, current_task) \in [Level -> Seq(Task)]
        BY <2>0, <3>1, AppendProperties DEF AddToTail
      <3> QED BY <1>1, <2>1, <3>1, <3>2, AheadDispatch
    <2>8. CASE WakeUpTask
      <3>1. Head(sleepqueue) \in Task /\ state[Head(sleepqueue)] = "SLEEPING"
        <4>1. sleepqueue # <<>> /\ sleep_left \in [Task -> Int]
              /\ SleepQueue(sleepqueue, state, sleep_left)
          BY <1>1, <2>8 DEF WakeUpTask, MustWake, IInv, TypeOK
        <4> QED BY <2>0, <4>1, WokenUp
      <3>2. runq' = AddToHead(runq, Head(sleepqueue))
        BY <2>8 DEF WakeUpTask
      <3> QED BY <2>2, <3>1, <3>2
    <2>9. CASE runq' = runq
      BY <1>1, <2>9
    <2>10. \/ TasksStart \/ PendSV \/ SysTickReturn \/ WakeUpTask \/ runq' = runq
           \/ \E e \in Task : TaskAdd(e) \/ Unsuspend(e)
           \/ \E e \in Task, r \in Resource : ResourceRelease(e, r) /\ waiting[r] # <<>>
      BY <1>1 DEF Next, Handler, TaskStep, TaskInit, TaskReturn, TaskYield, SuspendSelfMark,
         SuspendSelfYield, TaskUnsuspend, IsrUnsuspend, TaskSleep, ResourceAcquire, ResourceWait,
         ResourceRelease, SysTick
    <2> QED BY <2>3, <2>4, <2>5, <2>6, <2>7, <2>8, <2>9, <2>10
  <1>2. IInv /\ [Next]_vars
          => [\A p \in Level, t, u \in Task :
                (Ahead(runq'[p], t, u) /\ state[u] = "RUNNABLE")
                  => Ahead(runq[p], t, u)
                       \/ state[t] \in {"SLEEPING", "WAITING_FOR_RESOURCE"}]_vars
    BY <1>1
  <1> QED BY <1>2, Invariance, PTL DEF Spec, OnlyWokenOvertake

\* Nobody gets in front of a waiter of a resource but a more urgent task: the list
\* is in the order of the priorities, so the place that insert_waiting_task finds
\* has all who are as urgent as the newcomer before it.
THEOREM WaitersAreServedInTurn == Spec => WaitersKeepTheirTurn
  <1>1. ASSUME IInv, Next, NEW r \in Resource, NEW t \in Task, NEW u \in Task,
               Ahead(waiting'[r], t, u),
               state[u] = "WAITING_FOR_RESOURCE", wanted[u] = r
        PROVE  Ahead(waiting[r], t, u) \/ priority[t] < priority[u]
    <2>0. /\ priority \in [Task -> Level] /\ waiting \in [Resource -> Seq(Task)]
          /\ \A x \in Task : priority[x] \in Int
          /\ Ordered(waiting[r], priority)
      <3>1. priority \in [Task -> Level] /\ waiting \in [Resource -> Seq(Task)]
        BY <1>1 DEF IInv, TypeOK
      <3>2. Ordered(waiting[r], priority)
        BY <1>1 DEF IInv, WaitingLists
      <3>3. \A x \in Task : priority[x] \in Int
        BY <3>1, KernelAssumption DEF Level
      <3> QED BY <3>1, <3>2, <3>3
    <2>1. ASSUME NEW e \in Task, NEW r2 \in Resource, ResourceWait(e, r2)
          PROVE  Ahead(waiting[r], t, u) \/ priority[t] < priority[u]
      <3>1. PICK i \in InsertPoints(waiting[r2], priority, priority[e]) :
              waiting' = [waiting EXCEPT ![r2] = InsertAt(@, i, e)]
        BY <2>1 DEF ResourceWait
      <3>2. CASE r2 # r
        BY <1>1, <2>0, <3>1, <3>2
      <3>3. CASE r2 = r
        <4> DEFINE s == waiting[r]
        <4>1. s \in Seq(Task) /\ Len(s) \in Nat /\ \A j \in 1 .. Len(s) : s[j] \in Task
          BY <2>0, LenProperties, ElementOfSeq
        <4>2. i \in 1 .. Len(s) + 1 /\ (i <= Len(s) => priority[s[i]] > priority[e])
          BY <3>1, <3>3 DEF InsertPoints
        <4>3. u # e
          <5>1. state[e] = "RUNNING"
            BY <1>1, <2>1, CallerRuns, KernelAssumption DEF ResourceWait
          <5> QED BY <1>1, <5>1
        <4>4. waiting'[r] = InsertAt(s, i, e)
          BY <2>0, <3>1, <3>3
        <4>5. Inserted(Task, s, waiting'[r], i, e)
          BY <4>1, <4>2, <4>4, InsertAtInserts
        <4>6. \/ Ahead(s, t, u)
              \/ t = e /\ \E k \in 1 .. Len(s) : i <= k /\ s[k] = u
          BY <1>1, <4>1, <4>3, <4>5, AheadInserted
        <4>7. ASSUME NEW k \in 1 .. Len(s), i <= k
              PROVE  priority[e] < priority[s[k]]
          <5>1. i \in 1 .. Len(s) /\ priority[s[i]] \in Int /\ priority[s[k]] \in Int
                /\ priority[e] \in Int
            BY <2>0, <4>1, <4>2, <4>7
          <5>2. priority[s[i]] <= priority[s[k]]
            BY <2>0, <4>7, <5>1 DEF Ordered
          <5> QED BY <4>1, <4>2, <5>1, <5>2
        <4> QED BY <4>6, <4>7
      <3> QED BY <3>2, <3>3
    <2>2. ASSUME NEW e \in Task, NEW r2 \in Resource, ResourceRelease(e, r2),
                 waiting[r2] # <<>>
          PROVE  Ahead(waiting[r], t, u)
      <3>1. waiting' = [waiting EXCEPT ![r2] = Tail(@)]
        BY <2>2 DEF ResourceRelease
      <3>2. CASE r2 = r
        <4>1. waiting'[r] = Tail(waiting[r]) /\ waiting[r] \in Seq(Task) /\ waiting[r] # <<>>
          BY <2>0, <2>2, <3>1, <3>2
        <4> QED BY <1>1, <4>1, AheadTail
      <3>3. CASE r2 # r
        BY <1>1, <2>0, <3>1, <3>3
      <3> QED BY <3>2, <3>3
    <2>3. CASE waiting' = waiting
      BY <1>1, <2>3
    <2>4. \/ waiting' = waiting
          \/ \E e \in Task, r2 \in Resource :
               \/ ResourceWait(e, r2)
               \/ ResourceRelease(e, r2) /\ waiting[r2] # <<>>
      BY <1>1 DEF Next, Handler, TaskStep, TasksStart, TaskInit, TaskAdd, TaskReturn, TaskYield,
         SuspendSelfMark, SuspendSelfYield, TaskUnsuspend, IsrUnsuspend, Unsuspend, TaskSleep,
         ResourceAcquire, ResourceRelease, PendSV, SysTick, WakeUpTask, SysTickReturn, resVars
    <2> QED BY <2>1, <2>2, <2>3, <2>4
  <1>2. IInv /\ [Next]_vars
          => [\A r \in Resource, t, u \in Task :
                (/\ Ahead(waiting'[r], t, u)
                 /\ state[u] = "WAITING_FOR_RESOURCE" /\ wanted[u] = r)
                  => Ahead(waiting[r], t, u) \/ priority[t] < priority[u]]_vars
    BY <1>1
  <1> QED BY <1>2, Invariance, PTL DEF Spec, WaitersKeepTheirTurn
=============================================================================
