-------------------------- MODULE KernelListsProofs --------------------------
(***************************************************************************)
(* Proofs about KernelLists, for any tasks, resources, priorities and      *)
(* bound on sleep: the linked lists implement the sequences of Kernel, a   *)
(* last pointer is where its list ends, and the list of all tasks reads    *)
(* the same in both directions.                                            *)
(***************************************************************************)
EXTENDS KernelLists, TaskLists

\* The inductive invariant of Kernel, and what is proved of Kernel, for the
\* lists that the pointers make.
KP == INSTANCE KernelProofs

-----------------------------------------------------------------------------
(* Kernel and KernelProofs speak of the same steps.                        *)

\* The assumptions of Kernel hold.
LEMMA KernelAssumed == KP!KernelAssumption
  BY ListsAssumption DEF KP!KernelAssumption, KP!Level, Level

\* The levels are those of Kernel.
LEMMA SameLevels == K!Level = Level /\ KP!Level = Level
  BY DEF K!Level, KP!Level, Level

\* A task is inserted in a queue at the same places.
LEMMA SameInsertPoints ==
  ASSUME NEW queue, NEW key, NEW k
  PROVE  K!InsertPoints(queue, key, k) = KP!InsertPoints(queue, key, k)
  BY DEF K!InsertPoints, KP!InsertPoints

\* and in the same way; Kernel's own instance of the community modules has the
\* operators of this module's.
LEMMA SameOperators ==
  ASSUME NEW s, NEW i, NEW e, NEW key
  PROVE  /\ K!InsertAt(s, i, e) = InsertAt(s, i, e)
         /\ KP!InsertAt(s, i, e) = InsertAt(s, i, e)
         /\ KP!IsInjective(s) = IsInjective(s)
         /\ KP!Range(s) = Range(s)
         /\ KP!Ordered(s, key) = Ordered(s, key)
  BY DEF K!InsertAt, KP!InsertAt, InsertAt, KP!IsInjective, IsInjective,
         KP!Range, Range, KP!Ordered, Ordered

\* Every action of Kernel is the action of that name of KernelProofs.
LEMMA SameActions ==
  ASSUME NEW t, NEW x
  PROVE  /\ K!TaskInit(t, x) <=> KP!TaskInit(t, x)
         /\ K!TaskAdd(t) <=> KP!TaskAdd(t)
         /\ K!TasksStart <=> KP!TasksStart
         /\ K!TaskReturn(t) <=> KP!TaskReturn(t)
         /\ K!TaskYield(t) <=> KP!TaskYield(t)
         /\ K!SuspendSelfMark(t) <=> KP!SuspendSelfMark(t)
         /\ K!SuspendSelfYield(t) <=> KP!SuspendSelfYield(t)
         /\ K!TaskUnsuspend(t, x) <=> KP!TaskUnsuspend(t, x)
         /\ K!TaskSleep(t, x) <=> KP!TaskSleep(t, x)
         /\ K!ResourceAcquire(t, x) <=> KP!ResourceAcquire(t, x)
         /\ K!ResourceWait(t, x) <=> KP!ResourceWait(t, x)
         /\ K!ResourceRelease(t, x) <=> KP!ResourceRelease(t, x)
         /\ K!PendSV <=> KP!PendSV
         /\ K!SysTick <=> KP!SysTick
         /\ K!WakeUpTask <=> KP!WakeUpTask
         /\ K!SysTickReturn <=> KP!SysTickReturn
         /\ K!IsrUnsuspend(t) <=> KP!IsrUnsuspend(t)
  <1> USE DEF K!Thread, KP!Thread, K!App, KP!App, K!Caller, KP!Caller,
              K!Raise, KP!Raise, K!AddToHead, KP!AddToHead,
              K!AddToTail, KP!AddToTail, K!Level, KP!Level,
              K!taskVars, KP!taskVars, K!resVars, KP!resVars
  <1>1. K!TaskInit(t, x) <=> KP!TaskInit(t, x)
    BY DEF K!TaskInit, KP!TaskInit
  <1>2. K!TaskAdd(t) <=> KP!TaskAdd(t)
    BY DEF K!TaskAdd, KP!TaskAdd
  <1>3. K!TasksStart <=> KP!TasksStart
    BY DEF K!TasksStart, KP!TasksStart, K!Dispatch, KP!Dispatch
  <1>4. K!TaskReturn(t) <=> KP!TaskReturn(t)
    BY DEF K!TaskReturn, KP!TaskReturn
  <1>5. K!TaskYield(t) <=> KP!TaskYield(t)
    BY DEF K!TaskYield, KP!TaskYield
  <1>6. K!SuspendSelfMark(t) <=> KP!SuspendSelfMark(t)
    BY DEF K!SuspendSelfMark, KP!SuspendSelfMark
  <1>7. K!SuspendSelfYield(t) <=> KP!SuspendSelfYield(t)
    BY DEF K!SuspendSelfYield, KP!SuspendSelfYield
  <1>8. K!Unsuspend(x) <=> KP!Unsuspend(x)
    BY DEF K!Unsuspend, KP!Unsuspend
  <1>9. K!TaskUnsuspend(t, x) <=> KP!TaskUnsuspend(t, x)
    BY <1>8 DEF K!TaskUnsuspend, KP!TaskUnsuspend
  <1>10. K!IsrUnsuspend(t) <=> KP!IsrUnsuspend(t)
    BY DEF K!IsrUnsuspend, KP!IsrUnsuspend, K!Unsuspend, KP!Unsuspend
  <1>11. K!TaskSleep(t, x) <=> KP!TaskSleep(t, x)
    BY SameInsertPoints, SameOperators DEF K!TaskSleep, KP!TaskSleep
  <1>12. K!ResourceAcquire(t, x) <=> KP!ResourceAcquire(t, x)
    BY DEF K!ResourceAcquire, KP!ResourceAcquire, K!Acquires, KP!Acquires
  <1>13. K!ResourceWait(t, x) <=> KP!ResourceWait(t, x)
    BY SameInsertPoints, SameOperators DEF K!ResourceWait, KP!ResourceWait, K!Acquires, KP!Acquires
  <1>14. K!ResourceRelease(t, x) <=> KP!ResourceRelease(t, x)
    BY DEF K!ResourceRelease, KP!ResourceRelease
  <1>15. K!PendSV <=> KP!PendSV
    BY DEF K!PendSV, KP!PendSV, K!Dispatch, KP!Dispatch
  <1>16. K!SysTick <=> KP!SysTick
    BY DEF K!SysTick, KP!SysTick
  <1>17. K!WakeUpTask <=> KP!WakeUpTask
    BY DEF K!WakeUpTask, KP!WakeUpTask, K!MustWake, KP!MustWake
  <1>18. K!SysTickReturn <=> KP!SysTickReturn
    BY DEF K!SysTickReturn, KP!SysTickReturn, K!MustWake, KP!MustWake,
           K!Dispatch, KP!Dispatch
  <1> QED BY <1>1, <1>2, <1>3, <1>4, <1>5, <1>6, <1>7, <1>9, <1>10, <1>11, <1>12,
             <1>13, <1>14, <1>15, <1>16, <1>17, <1>18

\* So the steps of Kernel are those that KernelProofs is about,
LEMMA SameSteps == K!Next <=> KP!Next
  <1>1. ASSUME NEW t \in Task PROVE K!TaskStep(t) <=> KP!TaskStep(t)
    BY SameActions, SameLevels DEF K!TaskStep, KP!TaskStep
  <1>2. K!Handler <=> KP!Handler
    BY SameActions DEF K!Handler, KP!Handler
  <1> QED BY <1>1, <1>2, SameActions DEF K!Next, KP!Next

\* and they leave the same state alone.
LEMMA SameVars == UNCHANGED K!vars <=> UNCHANGED KP!vars
  BY DEF K!vars, KP!vars, K!taskVars, KP!taskVars, K!resVars, KP!resVars

-----------------------------------------------------------------------------
(* What the links have to do with the lists.                               *)

Group == [first : MaybeTask, last : MaybeTask]

LinksType == [next : [Task -> MaybeTask], groups : [Level -> Group]]

\* The first pointer of each run queue leads along it, and the last one is at
\* its end.
RunLinked(links, rq) ==
  \A p \in Level :
    /\ IsChain(links.groups[p].first, links.next, NULL, rq[p])
    /\ links.groups[p].last = IF rq[p] = <<>> THEN NULL ELSE rq[p][Len(rq[p])]

PointersOK ==
  /\ next_task \in [Task -> MaybeTask]
  /\ task_prio_groups \in [Level -> Group]
  /\ sleepqueue_head \in MaybeTask
  /\ first_waiting \in [Resource -> MaybeTask]

\* The pointers lead along lists that end.
Linked ==
  /\ PointersOK
  /\ RunLinked(Links, runq)
  /\ IsChain(sleepqueue_head, next_task, NULL, sleepqueue)
  /\ \A r \in Resource : IsChain(first_waiting[r], next_task, NULL, waiting[r])

LInv == KP!IInv /\ Linked

\* The run queues of KernelProofs, said in this module's words.
LEMMA RunQueuesAre ==
  ASSUME NEW rq, NEW st, NEW prio
  PROVE  KP!RunQueues(rq, st, prio) <=>
           /\ rq \in [Level -> Seq(Task)]
           /\ \A p \in Level :
                /\ IsInjective(rq[p])
                /\ Range(rq[p]) = {t \in Task : st[t] = "RUNNABLE" /\ prio[t] = p}
  BY SameOperators, SameLevels DEF KP!RunQueues

\* The lists of the invariant.
LEMMA ListsAre ==
  ASSUME KP!IInv
  PROVE  /\ runq \in [Level -> Seq(Task)]
         /\ \A p \in Level :
              /\ IsInjective(runq[p])
              /\ Range(runq[p]) = {t \in Task : state[t] = "RUNNABLE" /\ priority[t] = p}
         /\ sleepqueue \in Seq(Task)
         /\ IsInjective(sleepqueue)
         /\ Range(sleepqueue) = {t \in Task : state[t] = "SLEEPING"}
         /\ Ordered(sleepqueue, sleep_left)
         /\ waiting \in [Resource -> Seq(Task)]
         /\ \A r \in Resource :
              /\ IsInjective(waiting[r])
              /\ Range(waiting[r]) =
                   {t \in Task : state[t] = "WAITING_FOR_RESOURCE" /\ wanted[t] = r}
              /\ Ordered(waiting[r], priority)
  BY SameOperators, RunQueuesAre DEF KP!IInv, KP!SleepQueue, KP!WaitingLists

\* The types of the variables that are no lists.
LEMMA TypesAre ==
  ASSUME KP!IInv
  PROVE  /\ state \in [Task -> KP!TaskState]
         /\ priority \in [Task -> Level]
         /\ sleep_left \in [Task -> -1 .. MaxSleep]
         /\ current_task \in MaybeTask
         /\ highest_prio_level \in Level
  BY SameLevels DEF KP!IInv, KP!TypeOK, MaybeTask

\* A chain of different tasks is what Chain finds.
LEMMA ChainIs ==
  ASSUME NEW s \in Seq(Task), IsInjective(s), NEW first, NEW next,
         IsChain(first, next, NULL, s)
  PROVE  Chain(first, next) = s
  <1>1. IsFiniteSet(Task) /\ NULL \notin Task
    BY ListsAssumption
  <1>2. Len(s) <= Cardinality(Task) /\ Cardinality(Task) \in Nat
    BY <1>1, InjectiveIsShort, FS_CardinalityType
  <1> QED BY <1>1, <1>2, WalkIs DEF Chain

\* If a step links the lists rq, sq and wl then those are the lists after it.
LEMMA Relinked ==
  ASSUME PointersOK',
         NEW rq \in [Level -> Seq(Task)], \A p \in Level : IsInjective(rq[p]),
         RunLinked(Links', rq),
         NEW sq \in Seq(Task), IsInjective(sq),
         IsChain(sleepqueue_head', next_task', NULL, sq),
         NEW wl \in [Resource -> Seq(Task)], \A r \in Resource : IsInjective(wl[r]),
         \A r \in Resource : IsChain(first_waiting'[r], next_task', NULL, wl[r])
  PROVE  runq' = rq /\ sleepqueue' = sq /\ waiting' = wl /\ Linked'
  <1>1. runq' = rq
    <2>1. ASSUME NEW p \in Level
          PROVE  Chain(task_prio_groups'[p].first, next_task') = rq[p]
      BY ChainIs DEF RunLinked, Links
    <2>2. rq = [p \in Level |-> rq[p]]
      OBVIOUS
    <2> QED BY <2>1, <2>2 DEF runq
  <1>2. sleepqueue' = sq
    BY ChainIs DEF sleepqueue
  <1>3. waiting' = wl
    <2>1. ASSUME NEW r \in Resource
          PROVE  Chain(first_waiting'[r], next_task') = wl[r]
      BY ChainIs
    <2>2. wl = [r \in Resource |-> wl[r]]
      OBVIOUS
    <2> QED BY <2>1, <2>2 DEF waiting
  <1> QED BY <1>1, <1>2, <1>3 DEF Linked

\* The links after t has been put in at position i of the run queue of level p,
\* which q is then.
PutIn(links, links2, rq, p, q, i, t) ==
  /\ Inserted(Task, rq[p], q, i, t)
  /\ links2.groups[p].first = IF i = 1 THEN t ELSE links.groups[p].first
  /\ links2.groups[p].last = q[Len(q)]
  /\ \A p2 \in Level \ {p} : links2.groups[p2] = links.groups[p2]
  /\ links2.next[t] = IF i = Len(rq[p]) + 1 THEN NULL ELSE rq[p][i]
  /\ \A j \in 1 .. Len(rq[p]) :
       links2.next[rq[p][j]] = IF j = i - 1 THEN t ELSE links.next[rq[p][j]]
  /\ \A x \in Task : x # t /\ x \notin Range(rq[p]) => links2.next[x] = links.next[x]

\* They lead along the run queues, if t was on none of them.
LEMMA GroupInserted ==
  ASSUME NEW st, NEW prio, NEW rq, KP!RunQueues(rq, st, prio),
         NEW links, NEW links2, RunLinked(links, rq),
         NEW t \in Task, st[t] # "RUNNABLE", NEW p \in Level, NEW q, NEW i,
         PutIn(links, links2, rq, p, q, i, t)
  PROVE  RunLinked(links2, [rq EXCEPT ![p] = q])
  <1>1. /\ rq \in [Level -> Seq(Task)]
        /\ \A p2 \in Level :
             /\ IsInjective(rq[p2])
             /\ Range(rq[p2]) = {x \in Task : st[x] = "RUNNABLE" /\ prio[x] = p2}
    BY RunQueuesAre
  <1>2. rq[p] \in Seq(Task) /\ IsInjective(rq[p]) /\ t \notin Range(rq[p])
    BY <1>1
  <1>3. IsChain(links2.groups[p].first, links2.next, NULL, q)
    <2>1. IsChain(links.groups[p].first, links.next, NULL, rq[p])
      BY DEF RunLinked
    <2> DEFINE s      == rq[p]
               first  == links.groups[p].first
               first2 == links2.groups[p].first
               next   == links.next
               next2  == links2.next
    <2>2. /\ s \in Seq(Task) /\ IsInjective(s) /\ t \notin Range(s)
          /\ Inserted(Task, s, q, i, t)
          /\ IsChain(first, next, NULL, s)
          /\ first2 = IF i = 1 THEN t ELSE first
          /\ next2[t] = IF i = Len(s) + 1 THEN NULL ELSE s[i]
          /\ \A j \in 1 .. Len(s) : next2[s[j]] = IF j = i - 1 THEN t ELSE next[s[j]]
      BY <1>2, <2>1 DEF PutIn
    <2> HIDE DEF s, first, first2, next, next2
    <2>3. IsChain(first2, next2, NULL, q)
      BY <2>2, ChainInserted
    <2> QED BY <2>3 DEF first2, next2
  <1>4. q # <<>>
    <2>1. q \in Seq(Task) /\ Len(q) = Len(rq[p]) + 1 /\ Len(rq[p]) \in Nat
      BY <1>2, LenProperties DEF Inserted, PutIn
    <2> QED BY <2>1
  <1>5. ASSUME NEW p2 \in Level \ {p}
        PROVE  IsChain(links2.groups[p2].first, links2.next, NULL, rq[p2])
    <2>1. IsChain(links2.groups[p2].first, links.next, NULL, rq[p2])
      BY DEF RunLinked, PutIn
    <2>2. \A x \in Range(rq[p2]) : links2.next[x] = links.next[x]
      BY <1>1 DEF PutIn
    <2>3. rq[p2] \in Seq(Task)
      BY <1>1
    <2> QED BY <2>1, <2>2, <2>3, ChainFrame
  <1>6. \A p2 \in Level : [rq EXCEPT ![p] = q][p2] = IF p2 = p THEN q ELSE rq[p2]
    BY <1>1
  <1>7. ASSUME NEW p2 \in Level
        PROVE  /\ IsChain(links2.groups[p2].first, links2.next, NULL, [rq EXCEPT ![p] = q][p2])
               /\ links2.groups[p2].last =
                    LET s == [rq EXCEPT ![p] = q][p2]
                    IN IF s = <<>> THEN NULL ELSE s[Len(s)]
    <2>1. CASE p2 = p
      BY <1>3, <1>4, <1>6, <2>1 DEF PutIn
    <2>2. CASE p2 # p
      BY <1>5, <1>6, <2>2 DEF RunLinked, PutIn
    <2> QED BY <2>1, <2>2
  <1> QED BY <1>7 DEF RunLinked

\* sched_add_to_runqueue_head links a task that is on no list, and whose next
\* pointer is NULL, in front of its run queue.
LEMMA HeadLinked ==
  ASSUME NEW st, priority \in [Task -> Level], NEW rq, KP!RunQueues(rq, st, priority),
         NEW links \in LinksType, RunLinked(links, rq),
         NEW t \in Task, st[t] # "RUNNABLE", links.next[t] = NULL
  PROVE  /\ AddToHead(links, t) \in LinksType
         /\ RunLinked(AddToHead(links, t), KP!AddToHead(rq, t))
         /\ \A x \in Task : x # t => AddToHead(links, t).next[x] = links.next[x]
  <1> DEFINE links2 == AddToHead(links, t)
             p      == priority[t]
             s      == rq[p]
             q      == <<t>> \o s
  <1>1. /\ p \in Level /\ NULL \notin Task
        /\ links.next \in [Task -> MaybeTask] /\ links.groups \in [Level -> Group]
        /\ links.groups[p].first \in MaybeTask
    BY ListsAssumption DEF LinksType, Group
  <1>2. /\ s \in Seq(Task) /\ IsInjective(s) /\ t \notin Range(s)
        /\ rq \in [Level -> Seq(Task)]
    BY <1>1, RunQueuesAre
  <1>3. Inserted(Task, s, q, 1, t)
    BY <1>2, ConsInserts
  <1>4. /\ links.groups[p].first = IF s = <<>> THEN NULL ELSE s[1]
        /\ links.groups[p].last = IF s = <<>> THEN NULL ELSE s[Len(s)]
    BY <1>1 DEF RunLinked, IsChain
  <1>5. /\ Len(s) \in Nat /\ (s = <<>> <=> Len(s) = 0)
        /\ \A j \in 1 .. Len(s) : s[j] \in Task /\ s[j] # t
        /\ s # <<>> => s[1] # NULL
    BY <1>1, <1>2, LenProperties, EmptySeq, ElementOfSeq, RangeEquality
  <1> HIDE DEF s, q
  <1>6. /\ links2.groups[p].first = t
        /\ links2.groups[p].last = IF s = <<>> THEN t ELSE links.groups[p].last
        /\ \A p2 \in Level \ {p} : links2.groups[p2] = links.groups[p2]
        /\ links2.next[t] = IF s = <<>> THEN NULL ELSE s[1]
        /\ \A x \in Task : x # t => links2.next[x] = links.next[x]
        /\ links2 \in LinksType
    <2>1. CASE s = <<>>
      <3>1. links2 = [links EXCEPT !.groups[p] = OnlyOne(t)]
        BY <1>4, <2>1 DEF AddToHead
      <3> HIDE DEF links2
      <3> QED BY <1>1, <2>1, <3>1 DEF OnlyOne, LinksType, Group, MaybeTask
    <2>2. CASE s # <<>>
      <3>1. links2 = [links EXCEPT !.next[t] = links.groups[p].first,
                                   !.groups[p].first = t]
        BY <1>4, <1>5, <2>2 DEF AddToHead
      <3> HIDE DEF links2
      <3>2. links2.next = [links.next EXCEPT ![t] = s[1]]
        BY <1>1, <1>4, <2>2, <3>1 DEF LinksType
      <3>3. links2.groups = [links.groups EXCEPT ![p] = [first |-> t, last |-> @.last]]
        BY <1>1, <3>1 DEF LinksType, Group
      <3>4. links2 = [next |-> links2.next, groups |-> links2.groups]
        BY <3>1 DEF LinksType
      <3>5. s[1] \in Task
        BY <1>5, <2>2
      <3> HIDE DEF p
      <3>6. links2 \in LinksType
        <4>1. links2.next \in [Task -> MaybeTask]
          BY <1>1, <3>2, <3>5 DEF MaybeTask
        <4>2. [first |-> t, last |-> links.groups[p].last] \in Group
          BY <1>1 DEF Group, MaybeTask
        <4>3. links2.groups \in [Level -> Group]
          BY <1>1, <3>3, <4>2
        <4> QED BY <3>4, <4>1, <4>3 DEF LinksType
      <3> QED BY <1>1, <2>2, <3>2, <3>3, <3>6
    <2> QED BY <2>1, <2>2
  <1>7. links2.groups[p].last = q[Len(q)]
    <2>1. Len(q) = Len(s) + 1 /\ q[1] = t
          /\ \A j \in 2 .. Len(s) + 1 : q[j] = s[j - 1]
      BY <1>3 DEF Inserted
    <2>2. CASE s = <<>>
      BY <1>5, <1>6, <2>1, <2>2
    <2>3. CASE s # <<>>
      <3>1. Len(s) + 1 \in 2 .. Len(s) + 1 /\ (Len(s) + 1) - 1 = Len(s)
        BY <1>5, <2>3
      <3> QED BY <1>4, <1>6, <2>1, <2>3, <3>1
    <2> QED BY <2>2, <2>3
  <1>8. links2.next[t] = IF 1 = Len(s) + 1 THEN NULL ELSE s[1]
    BY <1>5, <1>6
  <1>9. \A j \in 1 .. Len(s) :
          links2.next[s[j]] = IF j = 1 - 1 THEN t ELSE links.next[s[j]]
    BY <1>5, <1>6
  <1> HIDE DEF links2
  <1>10. RunLinked(links2, [rq EXCEPT ![p] = q])
    <2>1. PutIn(links, links2, rq, p, q, 1, t)
      BY <1>3, <1>6, <1>7, <1>8, <1>9 DEF PutIn, s
    <2> HIDE DEF p
    <2> QED BY <1>1, <2>1, GroupInserted
  <1>11. KP!AddToHead(rq, t) = [rq EXCEPT ![p] = q]
    BY DEF KP!AddToHead, q, s
  <1> QED BY <1>6, <1>10, <1>11 DEF links2

\* sched_add_to_runqueue_tail links it to the end, wherever it pointed before.
LEMMA TailLinked ==
  ASSUME NEW st, priority \in [Task -> Level], NEW rq, KP!RunQueues(rq, st, priority),
         NEW links \in LinksType, RunLinked(links, rq),
         NEW t \in Task, st[t] # "RUNNABLE"
  PROVE  /\ AddToTail(links, t) \in LinksType
         /\ RunLinked(AddToTail(links, t), KP!AddToTail(rq, t))
         /\ \A x \in Task : x # t /\ st[x] # "RUNNABLE"
                              => AddToTail(links, t).next[x] = links.next[x]
  <1> DEFINE links2 == AddToTail(links, t)
             p      == priority[t]
             s      == rq[p]
             q      == Append(s, t)
             last   == links.groups[p].last
  <1>1. /\ p \in Level /\ NULL \notin Task
        /\ links.next \in [Task -> MaybeTask] /\ links.groups \in [Level -> Group]
        /\ links.groups[p].first \in MaybeTask /\ last \in MaybeTask
    BY ListsAssumption DEF LinksType, Group
  <1>2. /\ s \in Seq(Task) /\ IsInjective(s) /\ t \notin Range(s)
        /\ rq \in [Level -> Seq(Task)]
        /\ \A x \in Range(s) : st[x] = "RUNNABLE"
    BY <1>1, RunQueuesAre
  <1>3. Inserted(Task, s, q, Len(s) + 1, t)
    BY <1>2, AppendInserts
  <1>4. /\ links.groups[p].first = IF s = <<>> THEN NULL ELSE s[1]
        /\ last = IF s = <<>> THEN NULL ELSE s[Len(s)]
    BY <1>1 DEF RunLinked, IsChain
  <1>5. /\ Len(s) \in Nat /\ (s = <<>> <=> Len(s) = 0)
        /\ \A j \in 1 .. Len(s) : s[j] \in Task /\ s[j] # t /\ s[j] \in Range(s)
        /\ s # <<>> => s[1] # NULL /\ Len(s) \in 1 .. Len(s)
        /\ \A i, j \in 1 .. Len(s) : s[i] = s[j] => i = j
    BY <1>1, <1>2, LenProperties, EmptySeq, ElementOfSeq, RangeEquality DEF IsInjective
  <1> HIDE DEF s, q, last
  <1>6. /\ links2.groups[p].first = IF s = <<>> THEN t ELSE links.groups[p].first
        /\ links2.groups[p].last = t
        /\ \A p2 \in Level \ {p} : links2.groups[p2] = links.groups[p2]
        /\ links2.next[t] = NULL
        /\ \A x \in Task : x # t => links2.next[x] = IF s # <<>> /\ x = last THEN t
                                                      ELSE links.next[x]
        /\ links2 \in LinksType
    <2>1. CASE s = <<>>
      <3>1. links2 = [links EXCEPT !.groups[p] = OnlyOne(t), !.next[t] = NULL]
        BY <1>4, <2>1 DEF AddToTail
      <3> HIDE DEF links2
      <3> QED BY <1>1, <2>1, <3>1 DEF OnlyOne, LinksType, Group, MaybeTask
    <2>2. CASE s # <<>>
      <3>1. links2 = [links EXCEPT !.next = [links.next EXCEPT ![last] = t, ![t] = NULL],
                                   !.groups[p].last = t]
        BY <1>4, <1>5, <2>2 DEF AddToTail, last
      <3>2. last \in Task /\ last # t
        BY <1>4, <1>5, <2>2
      <3> HIDE DEF links2
      <3>3. links2.next = [links.next EXCEPT ![last] = t, ![t] = NULL]
        BY <1>1, <3>1 DEF LinksType
      <3>4. links2.groups = [links.groups EXCEPT ![p] = [first |-> @.first, last |-> t]]
        BY <1>1, <3>1 DEF LinksType, Group
      <3>5. links2 = [next |-> links2.next, groups |-> links2.groups]
        BY <3>1 DEF LinksType
      <3> HIDE DEF p
      <3>6. links2 \in LinksType
        <4>1. links2.next \in [Task -> MaybeTask]
          BY <1>1, <3>3 DEF MaybeTask
        <4>2. [first |-> links.groups[p].first, last |-> t] \in Group
          BY <1>1 DEF Group, MaybeTask
        <4>3. links2.groups \in [Level -> Group]
          BY <1>1, <3>4, <4>2
        <4> QED BY <3>5, <4>1, <4>3 DEF LinksType
      <3> QED BY <1>1, <2>2, <3>2, <3>3, <3>4, <3>6
    <2> QED BY <2>1, <2>2
  <1>7. links2.groups[p].last = q[Len(q)]
    BY <1>3, <1>6 DEF Inserted
  <1>8. links2.groups[p].first = IF Len(s) + 1 = 1 THEN t ELSE links.groups[p].first
    BY <1>5, <1>6
  <1>9. ASSUME NEW j \in 1 .. Len(s)
        PROVE  links2.next[s[j]] = IF j = (Len(s) + 1) - 1 THEN t ELSE links.next[s[j]]
    <2>1. s # <<>> /\ (s[j] = last <=> j = Len(s)) /\ (Len(s) + 1) - 1 = Len(s)
      BY <1>4, <1>5
    <2> QED BY <1>5, <1>6, <2>1
  <1>10. \A x \in Task : x # t /\ x \notin Range(s) => links2.next[x] = links.next[x]
    BY <1>4, <1>5, <1>6
  <1> HIDE DEF links2
  <1>11. RunLinked(links2, [rq EXCEPT ![p] = q])
    <2>1. PutIn(links, links2, rq, p, q, Len(s) + 1, t)
      BY <1>3, <1>6, <1>7, <1>8, <1>9, <1>10 DEF PutIn, s
    <2> HIDE DEF p
    <2> QED BY <1>1, <2>1, GroupInserted
  <1>12. KP!AddToTail(rq, t) = [rq EXCEPT ![p] = q]
    BY DEF KP!AddToTail, q, s
  <1> QED BY <1>2, <1>6, <1>10, <1>11, <1>12 DEF links2

\* take_highest_prio_task unlinks the first task of the first queue that has one,
\* and its last pointer when it was the only one.
LEMMA DispatchLinked ==
  ASSUME NEW st, NEW prio, NEW rq, KP!RunQueues(rq, st, prio),
         NEW links \in LinksType, RunLinked(links, rq),
         NEW hint \in Level, Dispatch(links, hint, st)
  PROVE  /\ next_task' = links.next
         /\ task_prio_groups' \in [Level -> Group]
         /\ \E rq2 \in [Level -> Seq(Task)] :
              /\ \A p \in Level : IsInjective(rq2[p])
              /\ RunLinked(Links', rq2)
              /\ runq' = rq2 => KP!Dispatch(rq, hint, st)
  <1>1. PICK level \in hint .. NUM_PRIO_LEVELS - 1 :
          LET task == links.groups[level].first
              rest == links.next[task]
          IN /\ task # NULL
             /\ \A p \in hint .. level - 1 : links.groups[p].first = NULL
             /\ SetLinks([links EXCEPT
                  !.groups[level] = [first |-> rest,
                                     last  |-> IF rest = NULL THEN NULL ELSE @.last]])
             /\ highest_prio_level' = level
             /\ current_task' = task
             /\ state' = [st EXCEPT ![task] = "RUNNING"]
    BY Zenon DEF Dispatch
  <1> DEFINE task == links.groups[level].first
             rest == links.next[task]
             s    == rq[level]
             q    == Tail(s)
             rq2  == [p \in Level |-> IF p = level THEN Tail(rq[p]) ELSE rq[p]]
  <1>2. /\ NUM_PRIO_LEVELS \in Nat /\ level \in Level /\ hint \in Int /\ NULL \notin Task
        /\ \A p \in hint .. level - 1 : p \in Level
    BY ListsAssumption DEF Level
  <1>3. /\ rq \in [Level -> Seq(Task)]
        /\ \A p \in Level : IsInjective(rq[p])
    BY RunQueuesAre
  <1>4. /\ links.next \in [Task -> MaybeTask] /\ links.groups \in [Level -> Group]
        /\ task \in MaybeTask
    BY <1>2 DEF LinksType, Group
  <1>5. \A p \in Level : links.groups[p].first = NULL <=> rq[p] = <<>>
    <2> SUFFICES ASSUME NEW p \in Level
                 PROVE  links.groups[p].first = NULL <=> rq[p] = <<>>
      OBVIOUS
    <2>1. links.groups[p].first = IF rq[p] = <<>> THEN NULL ELSE rq[p][1]
      BY DEF RunLinked, IsChain
    <2>2. rq[p] # <<>> => rq[p][1] \in Task
      <3>1. rq[p] \in Seq(Task)
        BY <1>3
      <3> QED BY <3>1, EmptySeq, LenProperties, ElementOfSeq
    <2> QED BY <1>2, <2>1, <2>2
  <1>6. s \in Seq(Task) /\ s # <<>> /\ IsInjective(s)
    BY <1>1, <1>2, <1>3, <1>5
  <1>7. task = Head(s) /\ IsChain(rest, links.next, NULL, q)
    <2>1. IsChain(task, links.next, NULL, s)
      BY <1>2 DEF RunLinked
    <2> HIDE DEF s, task
    <2> QED BY <1>6, <2>1, ChainTail
  <1>8. q \in Seq(Task) /\ IsInjective(q)
    BY <1>6, TailRemoves
  <1>9. /\ rest = NULL <=> q = <<>>
        /\ q # <<>> => q[Len(q)] = s[Len(s)]
        /\ rest \in MaybeTask
    <2>1. q # <<>> => Len(q) \in 1 .. Len(q) /\ 1 \in 1 .. Len(q)
      BY <1>8, EmptySeq, LenProperties
    <2>2. q # <<>> => q[1] \in Task
      BY <1>8, <2>1, ElementOfSeq
    <2>3. rest = IF q = <<>> THEN NULL ELSE q[1]
      BY <1>7 DEF IsChain
    <2>4. /\ Len(s) \in Nat /\ Len(q) = Len(s) - 1
          /\ \A j \in 1 .. Len(s) - 1 : q[j] = s[j + 1]
      BY <1>6, HeadTailProperties, LenProperties
    <2>5. q # <<>> => q[Len(q)] = s[Len(s)]
      <3> HIDE DEF q, s
      <3> QED BY <2>1, <2>4
    <2> HIDE DEF q, rest
    <2> QED BY <1>2, <2>2, <2>3, <2>5 DEF MaybeTask
  <1>10. /\ next_task' = links.next
         /\ task_prio_groups' = [links.groups EXCEPT ![level] =
              [first |-> rest, last |-> IF rest = NULL THEN NULL ELSE @.last]]
    BY <1>1, <1>2, <1>4 DEF SetLinks, LinksType
  <1>11. task_prio_groups' \in [Level -> Group]
    <2>1. [first |-> rest, last |-> IF rest = NULL THEN NULL ELSE links.groups[level].last]
            \in Group
      BY <1>2, <1>4, <1>9 DEF Group, MaybeTask
    <2> HIDE DEF rest
    <2> QED BY <1>2, <1>4, <1>10, <2>1
  <1>12. rq2 \in [Level -> Seq(Task)] /\ \A p \in Level : IsInjective(rq2[p])
    BY <1>3, <1>8
  <1>13. RunLinked(Links', rq2)
    <2> SUFFICES ASSUME NEW p \in Level
                 PROVE  /\ IsChain(task_prio_groups'[p].first, next_task', NULL, rq2[p])
                        /\ task_prio_groups'[p].last =
                             IF rq2[p] = <<>> THEN NULL ELSE rq2[p][Len(rq2[p])]
      BY DEF RunLinked, Links
    <2>1. /\ IsChain(links.groups[p].first, links.next, NULL, rq[p])
          /\ links.groups[p].last = IF rq[p] = <<>> THEN NULL ELSE rq[p][Len(rq[p])]
      BY DEF RunLinked
    <2>2. CASE p = level
      <3>1. rq2[p] = q
        BY <2>2
      <3>2. /\ task_prio_groups'[p].first = rest
            /\ task_prio_groups'[p].last = IF rest = NULL THEN NULL ELSE links.groups[p].last
        BY <1>4, <1>10, <2>2
      <3> HIDE DEF q, rq2, rest
      <3> QED BY <1>6, <1>7, <1>9, <1>10, <2>1, <2>2, <3>1, <3>2
    <2>3. CASE p # level
      <3>1. rq2[p] = rq[p] /\ task_prio_groups'[p] = links.groups[p]
        BY <1>4, <1>10, <2>3
      <3> HIDE DEF rq2
      <3> QED BY <1>10, <2>1, <3>1
    <2> QED BY <2>2, <2>3
  <1>14. ASSUME runq' = rq2 PROVE KP!Dispatch(rq, hint, st)
    <2>1. /\ rq[level] # <<>>
          /\ \A p \in hint .. level - 1 : rq[p] = <<>>
          /\ runq' = [p \in Level |-> IF p = level THEN Tail(rq[p]) ELSE rq[p]]
          /\ highest_prio_level' = level
          /\ current_task' = Head(rq[level])
          /\ state' = [st EXCEPT ![Head(rq[level])] = "RUNNING"]
      BY <1>1, <1>2, <1>5, <1>6, <1>7, <1>14
    <2> HIDE DEF rq2
    <2> QED BY <2>1, SameLevels, Zenon DEF KP!Dispatch
  <1> HIDE DEF rq2
  <1> QED BY <1>10, <1>11, <1>12, <1>13, <1>14

\* The function that InsertByKey walks a list with.
StopAt(next, key, t) ==
  LET stop[s \in Task] ==
        IF next[s] = NULL \/ key[next[s]] > key[t] THEN s ELSE stop[next[s]]
  IN stop

\* There is one that satisfies its recursive definition, also if some of the
\* pointers lead round in circles.
LEMMA StopAtIs ==
  ASSUME NEW next \in [Task -> MaybeTask], NEW key, NEW t, NEW s \in Task
  PROVE  StopAt(next, key, t)[s] =
           IF next[s] = NULL \/ key[next[s]] > key[t] THEN s
           ELSE StopAt(next, key, t)[next[s]]
  <1> DEFINE Stops(x)  == next[x] = NULL \/ key[next[x]] > key[t]
             Closed(C) == \A x \in C : ~Stops(x) => next[x] \in C
             Reach(x)  == {u \in Task : /\ Stops(u)
                                        /\ \A C \in SUBSET Task :
                                             x \in C /\ Closed(C) => u \in C}
             F(f)      == [x \in Task |-> IF Stops(x) THEN x ELSE f[next[x]]]
             g         == [x \in Task |-> CHOOSE u : u \in Reach(x)]
  <1>1. \A x \in Task : ~Stops(x) => next[x] \in Task
    BY DEF MaybeTask
  <1> HIDE DEF Stops
  <1>2. ASSUME NEW x \in Task, Stops(x) PROVE Reach(x) = {x}
    <2>1. {x} \in SUBSET Task /\ Closed({x})
      BY <1>2
    <2>2. x \in Reach(x)
      BY <1>2
    <2>3. \A u \in Reach(x) : u = x
      BY <2>1
    <2> HIDE DEF Reach
    <2> QED BY <2>2, <2>3
  <1>3. ASSUME NEW x \in Task, ~Stops(x) PROVE Reach(x) = Reach(next[x])
    <2>1. ASSUME NEW u \in Reach(next[x]) PROVE u \in Reach(x)
      BY <1>3
    <2>2. ASSUME NEW u \in Reach(x) PROVE u \in Reach(next[x])
      <3> SUFFICES ASSUME NEW C \in SUBSET Task, next[x] \in C, Closed(C)
                   PROVE  u \in C
        OBVIOUS
      <3>1. C \cup {x} \in SUBSET Task /\ Closed(C \cup {x})
        BY <1>3
      <3>2. u \in C \cup {x} /\ Stops(u)
        BY <3>1
      <3> QED BY <1>3, <3>2
    <2> HIDE DEF Reach
    <2> QED BY <2>1, <2>2
  <1> HIDE DEF Reach
  <1>4. ASSUME NEW x \in Task PROVE g[x] = IF Stops(x) THEN x ELSE g[next[x]]
    <2>1. g[x] = CHOOSE u : u \in Reach(x)
      OBVIOUS
    <2>2. CASE Stops(x)
      <3>1. (CHOOSE u : u \in {x}) = x
        OBVIOUS
      <3> QED BY <1>2, <2>1, <2>2, <3>1
    <2>3. CASE ~Stops(x)
      <3>1. g[next[x]] = CHOOSE u : u \in Reach(next[x])
        BY <1>1, <2>3
      <3> QED BY <1>3, <2>1, <2>3, <3>1
    <2> QED BY <2>2, <2>3
  <1>5. g = F(g)
    <2>1. g = [x \in Task |-> g[x]]
      OBVIOUS
    <2> HIDE DEF g
    <2> QED BY <1>4, <2>1
  <1> DEFINE f == CHOOSE f : f = F(f)
  <1>6. f = F(f)
    <2> HIDE DEF F, g
    <2> QED BY <1>5
  <1>7. StopAt(next, key, t) = f
    BY DEF StopAt, Stops
  <1>8. F(f)[s] = IF Stops(s) THEN s ELSE f[next[s]]
    OBVIOUS
  <1> HIDE DEF f, F
  <1>9. f[s] = IF Stops(s) THEN s ELSE f[next[s]]
    BY <1>6, <1>8
  <1> QED BY <1>7, <1>9 DEF Stops

\* sched_add_to_sleepqueue and insert_waiting_task link a task into a list in
\* front of the first one with a larger key.
LEMMA InsertedByKey ==
  ASSUME NEW s \in Seq(Task), IsInjective(s), NEW head, NEW next \in [Task -> MaybeTask],
         IsChain(head, next, NULL, s), NEW t \in Task, t \notin Range(s),
         NEW key, \A x \in Task : key[x] \in Int
  PROVE  /\ InsertByKey(head, next, key, t).head \in Task
         /\ InsertByKey(head, next, key, t).next \in [Task -> MaybeTask]
         /\ \A x \in Task : x # t /\ x \notin Range(s)
                              => InsertByKey(head, next, key, t).next[x] = next[x]
         /\ \E i \in 1 .. Len(s) + 1 :
              /\ \A j \in 1 .. i - 1 : key[s[j]] <= key[t]
              /\ i <= Len(s) => key[s[i]] > key[t]
              /\ IsChain(InsertByKey(head, next, key, t).head,
                         InsertByKey(head, next, key, t).next, NULL, InsertAt(s, i, t))
  <1> DEFINE n      == Len(s)
             result == InsertByKey(head, next, key, t)
             D      == {j \in 1 .. n + 1 : j <= n => key[s[j]] > key[t]}
  <1>1. /\ n \in Nat /\ NULL \notin Task
        /\ \A j \in 1 .. n : s[j] \in Task /\ s[j] # t /\ s[j] # NULL /\ s[j] \in Range(s)
        /\ \A i, j \in 1 .. n : s[i] = s[j] => i = j
        /\ s = <<>> <=> n = 0
    BY ListsAssumption, LenProperties, ElementOfSeq, RangeEquality, EmptySeq DEF IsInjective
  <1>2. /\ head = IF n = 0 THEN NULL ELSE s[1]
        /\ \A j \in 1 .. n : next[s[j]] = IF j = n THEN NULL ELSE s[j + 1]
    BY <1>1 DEF IsChain
  <1>3. PICK i \in D : \A j \in D : i <= j
    <2>1. D \subseteq Nat /\ n + 1 \in D
      BY <1>1
    <2> HIDE DEF D
    <2> QED BY <2>1, Least
  <1>4. /\ i \in 1 .. n + 1
        /\ \A j \in 1 .. i - 1 : j \in 1 .. n /\ key[s[j]] <= key[t]
        /\ i <= n => key[s[i]] > key[t]
    <2>1. i \in 1 .. n + 1 /\ (i <= n => key[s[i]] > key[t])
      BY <1>3
    <2>2. ASSUME NEW j \in 1 .. i - 1 PROVE j \in 1 .. n /\ key[s[j]] <= key[t]
      <3>1. j \in 1 .. n /\ j \in 1 .. n + 1 /\ ~(i <= j) /\ j <= n
        BY <1>1, <2>1
      <3>2. j \notin D
        BY <1>3, <3>1
      <3>3. ~(key[s[j]] > key[t]) /\ key[s[j]] \in Int /\ key[t] \in Int
        BY <1>1, <3>1, <3>2
      <3> QED BY <3>1, <3>3
    <2> QED BY <2>1, <2>2
  <1>5. Inserted(Task, s, InsertAt(s, i, t), i, t)
    BY <1>4, InsertAtInserts
  <1> HIDE DEF D, n
  <1>6. /\ result.head = IF i = 1 THEN t ELSE head
        /\ result.next[t] = IF i = n + 1 THEN NULL ELSE s[i]
        /\ i # 1 => i - 1 \in 1 .. n /\ result.next[s[i - 1]] = t
        /\ \A x \in Task : x # t /\ (i # 1 => x # s[i - 1]) => result.next[x] = next[x]
        /\ result.next \in [Task -> MaybeTask]
    <2>1. CASE i = 1
      <3>1. head = NULL \/ key[head] > key[t]
        BY <1>1, <1>2, <1>4, <2>1
      <3>2. result = [head |-> t, next |-> [next EXCEPT ![t] = head]]
        BY <3>1 DEF InsertByKey
      <3>3. head = IF i = n + 1 THEN NULL ELSE s[i]
        BY <1>1, <1>2, <2>1
      <3>4. head \in MaybeTask
        BY <1>1, <1>2 DEF MaybeTask
      <3> HIDE DEF result
      <3> QED BY <2>1, <3>2, <3>3, <3>4
    <2>2. CASE i # 1
      <3> DEFINE stop  == StopAt(next, key, t)
                 k0    == i - 2
                 Steps == {k \in Nat : k <= k0 => stop[s[i - 1 - k]] = s[i - 1]}
      <3>1. /\ n # 0 /\ head = s[1] /\ head \in Task /\ head # NULL
            /\ ~(key[head] > key[t]) /\ i - 1 \in 1 .. n /\ k0 \in Nat
            /\ i - 1 - k0 = 1
        BY <1>1, <1>2, <1>4, <2>2
      <3>2. \A x \in Task :
              stop[x] = IF next[x] = NULL \/ key[next[x]] > key[t] THEN x ELSE stop[next[x]]
        BY StopAtIs
      <3> HIDE DEF stop
      <3>3. 0 \in Steps
        <4>1. i - 1 - 0 = i - 1 /\ s[i - 1] \in Task
          BY <1>1, <3>1
        <4>2. next[s[i - 1]] = NULL \/ key[next[s[i - 1]]] > key[t]
          <5>1. CASE i - 1 = n
            BY <1>2, <3>1, <5>1
          <5>2. CASE i - 1 # n
            <6>1. i <= n /\ (i - 1) + 1 = i
              BY <1>1, <1>4, <5>2
            <6> QED BY <1>2, <1>4, <3>1, <5>2, <6>1
          <5> QED BY <5>1, <5>2
        <4> QED BY <3>2, <4>1, <4>2
      <3>4. ASSUME NEW k \in Nat, k \in Steps PROVE k + 1 \in Steps
        <4> SUFFICES ASSUME k + 1 <= k0 PROVE stop[s[i - 1 - (k + 1)]] = s[i - 1]
          OBVIOUS
        <4>1. PICK m \in Int : m = i - 1 - (k + 1)
          BY <1>4
        <4>2. /\ m \in 1 .. n /\ m + 1 \in 1 .. n /\ m # n
              /\ m + 1 \in 1 .. i - 1 /\ m + 1 = i - 1 - k
          BY <1>1, <1>4, <3>1, <4>1
        <4>3. next[s[m]] = s[m + 1]
          BY <1>2, <4>2
        <4>4. s[m + 1] # NULL /\ key[s[m + 1]] <= key[t] /\ s[m + 1] \in Task /\ s[m] \in Task
          BY <1>1, <1>4, <4>2
        <4>5. ~(key[s[m + 1]] > key[t])
          BY <4>4
        <4>6. stop[s[m]] = stop[s[m + 1]]
          BY <3>2, <4>3, <4>4, <4>5
        <4>7. stop[s[m + 1]] = s[i - 1]
          BY <3>1, <3>4, <4>2
        <4> QED BY <4>1, <4>6, <4>7
      <3>5. k0 \in Steps
        <4> HIDE DEF Steps, k0
        <4> QED BY <3>1, <3>3, <3>4, Induction
      <3>6. stop[head] = s[i - 1]
        BY <3>1, <3>5
      <3>7. result = [head |-> head,
                      next |-> [next EXCEPT ![s[i - 1]] = t, ![t] = next[s[i - 1]]]]
        <4>1. ~(head = NULL \/ key[head] > key[t])
          BY <3>1
        <4>2. result = [head |-> head, next |-> [next EXCEPT ![stop[head]] = t,
                                                             ![t] = next[stop[head]]]]
          BY <4>1 DEF InsertByKey, StopAt, stop
        <4> QED BY <3>6, <4>2
      <3>8. next[s[i - 1]] = IF i = n + 1 THEN NULL ELSE s[i]
        <4>1. (i - 1) + 1 = i /\ (i - 1 = n <=> i = n + 1)
          BY <1>1, <1>4
        <4> QED BY <1>2, <3>1, <4>1
      <3>9. s[i - 1] \in Task /\ s[i - 1] # t
        BY <1>1, <3>1
      <3> HIDE DEF result
      <3> QED BY <2>2, <3>1, <3>7, <3>8, <3>9 DEF MaybeTask
    <2> QED BY <2>1, <2>2
  <1> HIDE DEF result
  <1>7. \A j \in 1 .. n : result.next[s[j]] = IF j = i - 1 THEN t ELSE next[s[j]]
    <2> SUFFICES ASSUME NEW j \in 1 .. n
                 PROVE  result.next[s[j]] = IF j = i - 1 THEN t ELSE next[s[j]]
      OBVIOUS
    <2>1. CASE j = i - 1
      <3>1. i # 1
        BY <1>1, <1>4, <2>1
      <3> QED BY <1>6, <2>1, <3>1
    <2>2. CASE j # i - 1
      BY <1>1, <1>6, <2>2
    <2> QED BY <2>1, <2>2
  <1>8. IsChain(result.head, result.next, NULL, InsertAt(s, i, t))
    BY <1>5, <1>6, <1>7, ChainInserted DEF n
  <1>9. \A x \in Task : x # t /\ x \notin Range(s) => result.next[x] = next[x]
    BY <1>1, <1>6
  <1>10. result.head \in Task
    BY <1>1, <1>2, <1>4, <1>6
  <1> QED BY <1>4, <1>6, <1>8, <1>9, <1>10 DEF result, n

-----------------------------------------------------------------------------
(* Every step of the linked lists is a step of Kernel.                     *)

\* The conditions of Kernel, and its hint, are those of KernelProofs.
LEMMA SameConditions ==
  ASSUME NEW t, NEW x
  PROVE  /\ K!App(t) <=> KP!App(t)
         /\ K!Caller <=> KP!Caller
         /\ K!Acquires(t, x) <=> KP!Acquires(t, x)
         /\ K!Raise(x, t) = KP!Raise(x, t)
  BY DEF K!App, KP!App, K!Caller, KP!Caller, K!Acquires, KP!Acquires, K!Raise,
         KP!Raise, K!Thread, KP!Thread

\* Links that are changed of RUNNABLE tasks and of tasks on no list only leave
\* the sleepqueue alone.
LEMMA SleepersStay ==
  ASSUME LInv, NEW next,
         \A x \in Task : state[x] = "SLEEPING" => next[x] = next_task[x]
  PROVE  IsChain(sleepqueue_head, next, NULL, sleepqueue)
  <1>1. /\ sleepqueue \in Seq(Task)
        /\ \A x \in Range(sleepqueue) : next[x] = next_task[x]
    BY ListsAre DEF LInv
  <1> QED BY <1>1, ChainFrame DEF LInv, Linked

\* Links that are changed of other tasks than its waiters leave a waiting list
\* alone.
LEMMA WaitersStay ==
  ASSUME LInv, NEW next, NEW r \in Resource,
         \A x \in Task : state[x] = "WAITING_FOR_RESOURCE" /\ wanted[x] = r
                           => next[x] = next_task[x]
  PROVE  IsChain(first_waiting[r], next, NULL, waiting[r])
  <1>1. /\ waiting[r] \in Seq(Task)
        /\ \A x \in Range(waiting[r]) : next[x] = next_task[x]
    BY ListsAre DEF LInv
  <1> QED BY <1>1, ChainFrame DEF LInv, Linked

\* Links that are changed of tasks that are not RUNNABLE only leave the run
\* queues alone.
LEMMA RunnersStay ==
  ASSUME LInv, NEW next,
         \A x \in Task : state[x] = "RUNNABLE" => next[x] = next_task[x]
  PROVE  RunLinked([next |-> next, groups |-> task_prio_groups], runq)
  <1> SUFFICES ASSUME NEW p \in Level
               PROVE  IsChain(task_prio_groups[p].first, next, NULL, runq[p])
    BY DEF RunLinked, LInv, Linked, Links
  <1>1. /\ runq[p] \in Seq(Task)
        /\ \A x \in Range(runq[p]) : next[x] = next_task[x]
    BY ListsAre DEF LInv
  <1>2. IsChain(task_prio_groups[p].first, next_task, NULL, runq[p])
    BY DEF LInv, Linked, RunLinked, Links
  <1> QED BY <1>1, <1>2, ChainFrame

\* Links is of its type.
LEMMA LinksAre ==
  ASSUME LInv
  PROVE  /\ Links \in LinksType /\ Links.next = next_task /\ Links.groups = task_prio_groups
         /\ RunLinked(Links, runq)
  BY DEF LInv, Linked, PointersOK, Links, LinksType

\* A step that leaves the pointers alone leaves the lists alone.
LEMMA NothingRelinked ==
  ASSUME LInv, UNCHANGED listVars
  PROVE  UNCHANGED <<runq, sleepqueue, waiting>> /\ Linked'
  <1>1. /\ next_task' = next_task /\ task_prio_groups' = task_prio_groups
        /\ sleepqueue_head' = sleepqueue_head /\ first_waiting' = first_waiting
    BY DEF listVars
  <1>2. runq' = runq /\ sleepqueue' = sleepqueue /\ waiting' = waiting
    BY <1>1 DEF runq, sleepqueue, waiting
  <1>3. PointersOK' /\ Links' = Links
    BY <1>1 DEF LInv, Linked, PointersOK, Links
  <1>4. RunLinked(Links, runq)'
    BY <1>1, <1>2 DEF LInv, Linked, RunLinked, Links
  <1> QED BY <1>1, <1>2, <1>3, <1>4 DEF LInv, Linked

\* os_task_init resets the pointer of a task that is on no list.
LEMMA TaskInitStep ==
  ASSUME LInv, NEW t \in Task, NEW prio \in Level, TaskInit(t, prio)
  PROVE  KP!TaskInit(t, prio) /\ Linked'
  <1>1. /\ next_task' = [next_task EXCEPT ![t] = NULL] /\ state[t] = "STOPPED"
        /\ task_prio_groups' = task_prio_groups
        /\ sleepqueue_head' = sleepqueue_head /\ first_waiting' = first_waiting
    BY DEF TaskInit
  <1>2. /\ PointersOK'
        /\ \A x \in Task : x # t => next_task'[x] = next_task[x]
    BY <1>1 DEF LInv, Linked, PointersOK, MaybeTask
  <1>3. /\ IsChain(sleepqueue_head', next_task', NULL, sleepqueue)
        /\ \A r \in Resource : IsChain(first_waiting'[r], next_task', NULL, waiting[r])
        /\ RunLinked(Links', runq)
    BY <1>1, <1>2, SleepersStay, WaitersStay, RunnersStay DEF Links
  <1>4. runq' = runq /\ sleepqueue' = sleepqueue /\ waiting' = waiting /\ Linked'
    BY <1>2, <1>3, ListsAre, Relinked DEF LInv
  <1> QED BY <1>4, SameConditions DEF TaskInit, KP!TaskInit, KP!resVars

\* os_task_add and os_task_unsuspend link a task that is on no list to the end
\* of its run queue.
LEMMA TailStep ==
  ASSUME LInv, NEW t \in Task, state[t] \in {"STOPPED", "SUSPENDED"},
         SetLinks(AddToTail(Links, t)), UNCHANGED <<sleepqueue_head, first_waiting>>
  PROVE  /\ runq' = KP!AddToTail(runq, t)
         /\ UNCHANGED <<sleepqueue, waiting>>
         /\ Linked'
  <1> DEFINE links2 == AddToTail(Links, t)
             rq2    == KP!AddToTail(runq, t)
  <1>1. /\ priority \in [Task -> Level] /\ KP!RunQueues(runq, state, priority)
        /\ state[t] # "RUNNABLE"
    BY TypesAre DEF LInv, KP!IInv
  <1>2. /\ links2 \in LinksType
        /\ RunLinked(links2, rq2)
        /\ \A x \in Task : x # t /\ state[x] # "RUNNABLE"
                             => links2.next[x] = next_task[x]
    BY <1>1, LinksAre, TailLinked
  <1> HIDE DEF links2
  <1>3. next_task' = links2.next /\ task_prio_groups' = links2.groups /\ Links' = links2
    BY <1>2 DEF SetLinks, links2, Links, LinksType
  <1>4. PointersOK'
    BY <1>2, <1>3 DEF LInv, Linked, PointersOK, LinksType
  <1>5. /\ IsChain(sleepqueue_head', next_task', NULL, sleepqueue)
        /\ \A r \in Resource : IsChain(first_waiting'[r], next_task', NULL, waiting[r])
    BY <1>2, <1>3, SleepersStay, WaitersStay
  <1>6. rq2 \in [Level -> Seq(Task)] /\ \A p \in Level : IsInjective(rq2[p])
    <2>1. /\ KP!KernelAssumption /\ state \in [Task -> KP!TaskState]
          /\ KP!HintSound(runq, highest_prio_level)
      BY KernelAssumed, TypesAre DEF LInv, KP!IInv
    <2>2. KP!RunQueues(rq2, [state EXCEPT ![t] = "RUNNABLE"], priority)
      BY <1>1, <2>1, SameLevels, KP!Enqueued
    <2> QED BY <2>2, RunQueuesAre
  <1> HIDE DEF rq2
  <1>7. runq' = rq2 /\ sleepqueue' = sleepqueue /\ waiting' = waiting /\ Linked'
    BY <1>2, <1>3, <1>4, <1>5, <1>6, ListsAre, Relinked DEF LInv
  <1> QED BY <1>7 DEF rq2

\* os_task_add,
LEMMA TaskAddStep ==
  ASSUME LInv, NEW t \in Task, TaskAdd(t)
  PROVE  KP!TaskAdd(t) /\ Linked'
  <1>1. /\ runq' = KP!AddToTail(runq, t) /\ UNCHANGED <<sleepqueue, waiting>> /\ Linked'
    BY TailStep DEF TaskAdd
  <1> QED BY <1>1, SameConditions DEF TaskAdd, KP!TaskAdd, KP!resVars

\* and os_task_unsuspend, of a task and of an interrupt handler.
LEMMA UnsuspendStep ==
  ASSUME LInv, NEW other \in Task, Unsuspend(other)
  PROVE  KP!Unsuspend(other) /\ Linked'
  <1>1. runq' = KP!AddToTail(runq, other) /\ UNCHANGED <<sleepqueue, waiting>> /\ Linked'
    BY TailStep DEF Unsuspend
  <1> QED BY <1>1, SameConditions DEF Unsuspend, KP!Unsuspend, KP!resVars

\* A dispatch from run queues rq, which the links lead along, takes the first
\* task off one of them.
LEMMA DispatchStep ==
  ASSUME LInv, NEW st, NEW rq, KP!RunQueues(rq, st, priority),
         NEW links \in LinksType, RunLinked(links, rq),
         \A x \in Task : state[x] \in {"SLEEPING", "WAITING_FOR_RESOURCE"}
                           => links.next[x] = next_task[x],
         NEW hint \in Level, Dispatch(links, hint, st),
         UNCHANGED <<sleepqueue_head, first_waiting>>
  PROVE  KP!Dispatch(rq, hint, st) /\ UNCHANGED <<sleepqueue, waiting>> /\ Linked'
  <1>1. /\ next_task' = links.next
        /\ task_prio_groups' \in [Level -> Group]
        /\ \E rq2 \in [Level -> Seq(Task)] :
             /\ \A p \in Level : IsInjective(rq2[p])
             /\ RunLinked(Links', rq2)
             /\ runq' = rq2 => KP!Dispatch(rq, hint, st)
    BY DispatchLinked
  <1>2. PICK rq2 \in [Level -> Seq(Task)] :
             /\ \A p \in Level : IsInjective(rq2[p])
             /\ RunLinked(Links', rq2)
             /\ runq' = rq2 => KP!Dispatch(rq, hint, st)
    BY <1>1
  <1>3. PointersOK'
    BY <1>1 DEF LInv, Linked, PointersOK, LinksType
  <1>4. /\ IsChain(sleepqueue_head', next_task', NULL, sleepqueue)
        /\ \A r \in Resource : IsChain(first_waiting'[r], next_task', NULL, waiting[r])
    BY <1>1, SleepersStay, WaitersStay
  <1>5. runq' = rq2 /\ sleepqueue' = sleepqueue /\ waiting' = waiting /\ Linked'
    BY <1>2, <1>3, <1>4, ListsAre, Relinked DEF LInv
  <1> QED BY <1>2, <1>5

\* The same when the current task has been requeued.
LEMMA RequeueStep ==
  ASSUME LInv, current_task # NULL,
         state[current_task] \notin {"RUNNABLE", "SLEEPING", "WAITING_FOR_RESOURCE"},
         Dispatch(AddToTail(Links, current_task),
                  KP!Raise(highest_prio_level, current_task),
                  [state EXCEPT ![current_task] = "RUNNABLE"]),
         UNCHANGED <<sleepqueue_head, first_waiting>>
  PROVE  /\ KP!Dispatch(KP!AddToTail(runq, current_task),
                        KP!Raise(highest_prio_level, current_task),
                        [state EXCEPT ![current_task] = "RUNNABLE"])
         /\ UNCHANGED <<sleepqueue, waiting>>
         /\ Linked'
  <1> DEFINE t    == current_task
             st   == [state EXCEPT ![t] = "RUNNABLE"]
             rq   == KP!AddToTail(runq, t)
             ls   == AddToTail(Links, t)
             hint == KP!Raise(highest_prio_level, t)
  <1>1. /\ t \in Task /\ priority \in [Task -> Level] /\ KP!RunQueues(runq, state, priority)
        /\ state[t] # "RUNNABLE"
    BY TypesAre DEF LInv, KP!IInv, MaybeTask
  <1>2. KP!RunQueues(rq, st, priority) /\ KP!HintSound(rq, hint)
    BY KernelAssumed, KP!Requeued DEF LInv
  <1>3. hint \in Level
    BY <1>2, SameLevels DEF KP!HintSound
  <1>4. /\ ls \in LinksType
        /\ RunLinked(ls, rq)
        /\ \A x \in Task : x # t /\ state[x] # "RUNNABLE" => ls.next[x] = next_task[x]
    BY <1>1, LinksAre, TailLinked
  <1>5. Dispatch(ls, hint, st)
    OBVIOUS
  <1> HIDE DEF st, rq, ls, hint
  <1>6. \A x \in Task : state[x] \in {"SLEEPING", "WAITING_FOR_RESOURCE"}
                          => ls.next[x] = next_task[x]
    BY <1>4
  <1>7. KP!Dispatch(rq, hint, st) /\ UNCHANGED <<sleepqueue, waiting>> /\ Linked'
    BY <1>2, <1>3, <1>4, <1>5, <1>6, DispatchStep
  <1> QED BY <1>7 DEF st, rq, hint

\* os_tasks_start,
LEMMA TasksStartStep ==
  ASSUME LInv, TasksStart
  PROVE  KP!TasksStart /\ Linked'
  <1>1. /\ KP!RunQueues(runq, state, priority) /\ highest_prio_level \in Level
        /\ Dispatch(Links, highest_prio_level, state)
        /\ UNCHANGED <<sleepqueue_head, first_waiting>>
    BY TypesAre DEF LInv, KP!IInv, TasksStart
  <1>2. /\ KP!Dispatch(runq, highest_prio_level, state)
        /\ UNCHANGED <<sleepqueue, waiting>> /\ Linked'
    BY <1>1, LinksAre, DispatchStep
  <1> QED BY <1>2 DEF TasksStart, KP!TasksStart, KP!resVars

\* pend_sv_handler
LEMMA PendSVStep ==
  ASSUME LInv, PendSV
  PROVE  KP!PendSV /\ Linked'
  <1>1. current_task # NULL /\ UNCHANGED <<sleepqueue_head, first_waiting>>
    BY DEF LInv, KP!IInv, KP!CurrentOwnsCPU, PendSV
  <1>2. CASE state[current_task] = "RUNNING"
    <2>1. Dispatch(AddToTail(Links, current_task),
                   KP!Raise(highest_prio_level, current_task),
                   [state EXCEPT ![current_task] = "RUNNABLE"])
      BY <1>2, SameConditions DEF PendSV
    <2>2. /\ KP!Dispatch(KP!AddToTail(runq, current_task),
                         KP!Raise(highest_prio_level, current_task),
                         [state EXCEPT ![current_task] = "RUNNABLE"])
          /\ UNCHANGED <<sleepqueue, waiting>>
          /\ Linked'
      BY <1>1, <1>2, <2>1, RequeueStep
    <2> QED BY <1>2, <2>2 DEF PendSV, KP!PendSV, KP!resVars
  <1>3. CASE state[current_task] # "RUNNING"
    <2>1. /\ KP!RunQueues(runq, state, priority) /\ highest_prio_level \in Level
          /\ Dispatch(Links, highest_prio_level, state)
      BY <1>3, TypesAre DEF LInv, KP!IInv, PendSV
    <2>2. /\ KP!Dispatch(runq, highest_prio_level, state)
          /\ UNCHANGED <<sleepqueue, waiting>> /\ Linked'
      BY <1>1, <2>1, LinksAre, DispatchStep
    <2> QED BY <1>3, <2>2 DEF PendSV, KP!PendSV, KP!resVars
  <1> QED BY <1>2, <1>3

\* The first sleeper of the two modules is the same.
LEMMA FirstSleeper ==
  ASSUME LInv
  PROVE  /\ sleepqueue \in Seq(Task)
         /\ sleepqueue_head = NULL <=> sleepqueue = <<>>
         /\ sleepqueue # <<>> =>
              /\ sleepqueue_head = Head(sleepqueue)
              /\ IsChain(next_task[sleepqueue_head], next_task, NULL, Tail(sleepqueue))
         /\ MustWake <=> KP!MustWake
  <1>1. sleepqueue \in Seq(Task) /\ IsChain(sleepqueue_head, next_task, NULL, sleepqueue)
    BY ListsAre DEF LInv, Linked
  <1>2. sleepqueue # <<>> => sleepqueue[1] \in Task
    BY <1>1, EmptySeq, LenProperties, ElementOfSeq
  <1>3. sleepqueue_head = NULL <=> sleepqueue = <<>>
    BY <1>1, <1>2, ListsAssumption DEF IsChain
  <1>4. sleepqueue # <<>> =>
          /\ sleepqueue_head = Head(sleepqueue)
          /\ IsChain(next_task[sleepqueue_head], next_task, NULL, Tail(sleepqueue))
    BY <1>1, ChainTail
  <1> QED BY <1>1, <1>3, <1>4 DEF MustWake, KP!MustWake

\* The end of sys_tick_handler
LEMMA SysTickReturnStep ==
  ASSUME LInv, SysTickReturn
  PROVE  KP!SysTickReturn /\ Linked'
  <1>1. /\ current_task # NULL /\ UNCHANGED <<sleepqueue_head, first_waiting>>
        /\ state[current_task] \notin {"RUNNABLE", "SLEEPING", "WAITING_FOR_RESOURCE"}
    BY DEF LInv, KP!IInv, KP!CurrentOwnsCPU, SysTickReturn
  <1>2. Dispatch(AddToTail(Links, current_task),
                 KP!Raise(highest_prio_level, current_task),
                 [state EXCEPT ![current_task] = "RUNNABLE"])
    BY SameConditions DEF SysTickReturn
  <1>3. /\ KP!Dispatch(KP!AddToTail(runq, current_task),
                       KP!Raise(highest_prio_level, current_task),
                       [state EXCEPT ![current_task] = "RUNNABLE"])
        /\ UNCHANGED <<sleepqueue, waiting>>
        /\ Linked'
    BY <1>1, <1>2, RequeueStep
  <1> QED BY <1>3, FirstSleeper DEF SysTickReturn, KP!SysTickReturn, KP!resVars

\* A task that was taken off the list it waited in is linked in front of its run
\* queue; no other link changes.
LEMMA HeadStep ==
  ASSUME LInv, NEW t \in Task, state[t] \in {"SLEEPING", "WAITING_FOR_RESOURCE"},
         SetLinks(AddToHead([Links EXCEPT !.next[t] = NULL], t))
  PROVE  /\ next_task' \in [Task -> MaybeTask]
         /\ task_prio_groups' \in [Level -> Group]
         /\ KP!AddToHead(runq, t) \in [Level -> Seq(Task)]
         /\ \A p \in Level : IsInjective(KP!AddToHead(runq, t)[p])
         /\ RunLinked(Links', KP!AddToHead(runq, t))
         /\ \A x \in Task : x # t => next_task'[x] = next_task[x]
  <1> DEFINE links  == [Links EXCEPT !.next[t] = NULL]
             links2 == AddToHead(links, t)
             rq2    == KP!AddToHead(runq, t)
  <1>1. /\ priority \in [Task -> Level] /\ KP!RunQueues(runq, state, priority)
        /\ state[t] # "RUNNABLE"
    BY TypesAre DEF LInv, KP!IInv
  <1>2. /\ links = [next |-> [next_task EXCEPT ![t] = NULL], groups |-> task_prio_groups]
        /\ next_task \in [Task -> MaybeTask] /\ task_prio_groups \in [Level -> Group]
    BY DEF Links, LInv, Linked, PointersOK
  <1> HIDE DEF links
  <1>3. links \in LinksType /\ links.next[t] = NULL
        /\ \A x \in Task : x # t => links.next[x] = next_task[x]
    BY <1>2 DEF LinksType, MaybeTask
  <1>4. RunLinked(links, runq)
    <2>1. \A x \in Task : state[x] = "RUNNABLE"
                            => [next_task EXCEPT ![t] = NULL][x] = next_task[x]
      BY <1>1, <1>2
    <2> DEFINE next == [next_task EXCEPT ![t] = NULL]
    <2>2. \A x \in Task : state[x] = "RUNNABLE" => next[x] = next_task[x]
      BY <2>1
    <2>3. links = [next |-> next, groups |-> task_prio_groups]
      BY <1>2
    <2> HIDE DEF next
    <2> QED BY <2>2, <2>3, RunnersStay
  <1>5. /\ links2 \in LinksType
        /\ RunLinked(links2, rq2)
        /\ \A x \in Task : x # t => links2.next[x] = links.next[x]
    BY <1>1, <1>3, <1>4, HeadLinked
  <1>6. SetLinks(links2)
    BY DEF links
  <1> HIDE DEF links2
  <1>7. next_task' = links2.next /\ task_prio_groups' = links2.groups /\ Links' = links2
    BY <1>5, <1>6 DEF SetLinks, Links, LinksType
  <1>8. rq2 \in [Level -> Seq(Task)] /\ \A p \in Level : IsInjective(rq2[p])
    <2>1. /\ KP!KernelAssumption /\ state \in [Task -> KP!TaskState]
          /\ KP!HintSound(runq, highest_prio_level)
      BY KernelAssumed, TypesAre DEF LInv, KP!IInv
    <2>2. KP!RunQueues(rq2, [state EXCEPT ![t] = "RUNNABLE"], priority)
      BY <1>1, <2>1, SameLevels, KP!Enqueued
    <2> QED BY <2>2, RunQueuesAre
  <1> HIDE DEF rq2
  <1> QED BY <1>3, <1>5, <1>7, <1>8 DEF LinksType, rq2

\* One iteration of wakeup_tasks
LEMMA WakeUpTaskStep ==
  ASSUME LInv, WakeUpTask
  PROVE  KP!WakeUpTask /\ Linked'
  <1> DEFINE t   == sleepqueue_head
             rq2 == KP!AddToHead(runq, t)
             sq  == Tail(sleepqueue)
  <1>1. /\ t # NULL /\ sleepqueue \in Seq(Task) /\ sleepqueue # <<>>
        /\ t = Head(sleepqueue)
        /\ IsChain(next_task[t], next_task, NULL, sq)
        /\ KP!MustWake
    BY FirstSleeper DEF WakeUpTask, MustWake
  <1>2. /\ IsInjective(sleepqueue)
        /\ Range(sleepqueue) = {x \in Task : state[x] = "SLEEPING"}
    BY ListsAre DEF LInv
  <1>3. /\ t \in Range(sleepqueue) /\ sq \in Seq(Task) /\ IsInjective(sq)
        /\ Range(sq) = Range(sleepqueue) \ {t}
    BY <1>1, <1>2, TailRemoves
  <1>4. t \in Task /\ state[t] = "SLEEPING"
    BY <1>2, <1>3
  <1>5. /\ sleepqueue_head' = next_task[t] /\ first_waiting' = first_waiting
        /\ SetLinks(AddToHead([Links EXCEPT !.next[t] = NULL], t))
    BY DEF WakeUpTask
  <1>6. /\ next_task' \in [Task -> MaybeTask]
        /\ task_prio_groups' \in [Level -> Group]
        /\ rq2 \in [Level -> Seq(Task)]
        /\ \A p \in Level : IsInjective(rq2[p])
        /\ RunLinked(Links', rq2)
        /\ \A x \in Task : x # t => next_task'[x] = next_task[x]
    BY <1>4, <1>5, HeadStep
  <1> HIDE DEF rq2, sq
  <1>7. PointersOK'
    BY <1>4, <1>5, <1>6 DEF LInv, Linked, PointersOK
  <1>8. IsChain(sleepqueue_head', next_task', NULL, sq)
    BY <1>1, <1>3, <1>5, <1>6, <1>2, ChainFrame
  <1>9. \A r \in Resource : IsChain(first_waiting'[r], next_task', NULL, waiting[r])
    BY <1>4, <1>5, <1>6, WaitersStay
  <1>10. runq' = rq2 /\ sleepqueue' = sq /\ waiting' = waiting /\ Linked'
    BY <1>3, <1>6, <1>7, <1>8, <1>9, ListsAre, Relinked DEF LInv
  <1> QED BY <1>1, <1>10, SameConditions DEF WakeUpTask, KP!WakeUpTask, KP!resVars, rq2, sq

\* os_resource_release
LEMMA ResourceReleaseStep ==
  ASSUME LInv, NEW t \in Task, NEW r \in Resource, ResourceRelease(t, r)
  PROVE  KP!ResourceRelease(t, r) /\ Linked'
  <1> DEFINE first == first_waiting[r]
  <1>1. /\ waiting \in [Resource -> Seq(Task)]
        /\ waiting[r] \in Seq(Task) /\ IsInjective(waiting[r])
        /\ Range(waiting[r]) = {x \in Task : state[x] = "WAITING_FOR_RESOURCE" /\ wanted[x] = r}
        /\ IsChain(first, next_task, NULL, waiting[r])
    BY ListsAre DEF LInv, Linked
  <1>2. waiting[r] # <<>> => waiting[r][1] \in Task
    BY <1>1, EmptySeq, LenProperties, ElementOfSeq
  <1>3. first = NULL <=> waiting[r] = <<>>
    BY <1>1, <1>2, ListsAssumption DEF IsChain
  <1>4. /\ KP!App(t) /\ acquired_by[r] = t
        /\ acquired_by' = [acquired_by EXCEPT ![r] = NULL]
        /\ UNCHANGED <<priority, pc, wanted, sleep_left, current_task, handler,
                       sleepqueue_head>>
    BY SameConditions DEF ResourceRelease
  <1>5. CASE first = NULL
    <2>1. UNCHANGED <<state, runVars, next_task, first_waiting, pendsv>>
      BY <1>5 DEF ResourceRelease
    <2>2. UNCHANGED listVars /\ highest_prio_level' = highest_prio_level
      BY <1>4, <2>1 DEF listVars, runVars
    <2>3. UNCHANGED <<runq, sleepqueue, waiting>> /\ Linked'
      BY <2>2, NothingRelinked
    <2> QED BY <1>3, <1>4, <1>5, <2>1, <2>2, <2>3 DEF KP!ResourceRelease
  <1>6. CASE first # NULL
    <2> DEFINE rq2 == KP!AddToHead(runq, first)
               q   == Tail(waiting[r])
               wl  == [waiting EXCEPT ![r] = q]
    <2>1. /\ first_waiting' = [first_waiting EXCEPT ![r] = next_task[first]]
          /\ state' = [state EXCEPT ![first] = "RUNNABLE"]
          /\ SetLinks(AddToHead([Links EXCEPT !.next[first] = NULL], first))
          /\ highest_prio_level' = KP!Raise(highest_prio_level, first)
          /\ pendsv' = (priority[t] > priority[first])
      BY <1>6, SameConditions DEF ResourceRelease
    <2>2. /\ first = Head(waiting[r]) /\ waiting[r] # <<>>
          /\ IsChain(next_task[first], next_task, NULL, q)
      BY <1>1, <1>3, <1>6, ChainTail
    <2>3. /\ first \in Range(waiting[r]) /\ q \in Seq(Task) /\ IsInjective(q)
          /\ Range(q) = Range(waiting[r]) \ {first}
      BY <1>1, <2>2, TailRemoves
    <2>4. first \in Task /\ state[first] = "WAITING_FOR_RESOURCE" /\ wanted[first] = r
      BY <1>1, <2>3
    <2>5. /\ next_task' \in [Task -> MaybeTask]
          /\ task_prio_groups' \in [Level -> Group]
          /\ rq2 \in [Level -> Seq(Task)]
          /\ \A p \in Level : IsInjective(rq2[p])
          /\ RunLinked(Links', rq2)
          /\ \A x \in Task : x # first => next_task'[x] = next_task[x]
      BY <2>1, <2>4, HeadStep
    <2> HIDE DEF rq2, q
    <2>6. /\ PointersOK'
          /\ \A r2 \in Resource : first_waiting'[r2] = IF r2 = r THEN next_task[first]
                                                         ELSE first_waiting[r2]
      BY <1>4, <2>1, <2>4, <2>5 DEF LInv, Linked, PointersOK
    <2>7. IsChain(sleepqueue_head', next_task', NULL, sleepqueue)
      BY <1>4, <2>4, <2>5, SleepersStay
    <2>8. /\ wl \in [Resource -> Seq(Task)]
          /\ \A r2 \in Resource : wl[r2] = IF r2 = r THEN q ELSE waiting[r2]
      BY <1>1, <2>3
    <2> HIDE DEF wl
    <2>9. ASSUME NEW r2 \in Resource
          PROVE  IsChain(first_waiting'[r2], next_task', NULL, wl[r2]) /\ IsInjective(wl[r2])
      <3>1. CASE r2 = r
        <4>1. \A x \in Range(q) : next_task'[x] = next_task[x]
          BY <1>1, <2>3, <2>5
        <4>2. IsChain(next_task[first], next_task', NULL, q)
          BY <2>2, <2>3, <4>1, ChainFrame
        <4> QED BY <2>3, <2>6, <2>8, <3>1, <4>2
      <3>2. CASE r2 # r
        <4>1. IsChain(first_waiting[r2], next_task', NULL, waiting[r2])
          BY <2>4, <2>5, <3>2, WaitersStay
        <4>2. IsInjective(waiting[r2])
          BY ListsAre DEF LInv
        <4> QED BY <2>6, <2>8, <3>2, <4>1, <4>2
      <3> QED BY <3>1, <3>2
    <2>10. runq' = rq2 /\ sleepqueue' = sleepqueue /\ waiting' = wl /\ Linked'
      BY <2>5, <2>6, <2>7, <2>8, <2>9, ListsAre, Relinked DEF LInv
    <2>11. /\ runq' = KP!AddToHead(runq, Head(waiting[r]))
           /\ waiting' = [waiting EXCEPT ![r] = Tail(@)]
      BY <2>2, <2>10 DEF rq2, wl, q
    <2> QED BY <1>4, <2>1, <2>2, <2>10, <2>11, Zenon DEF KP!ResourceRelease
  <1> QED BY <1>5, <1>6

\* os_task_sleep links the caller into the sleepqueue by its wake-up time
LEMMA TaskSleepStep ==
  ASSUME LInv, NEW t \in Task, NEW n \in 0 .. MaxSleep, TaskSleep(t, n)
  PROVE  KP!TaskSleep(t, n) /\ Linked'
  <1> DEFINE list == InsertByKey(sleepqueue_head, next_task, sleep_left', t)
  <1>1. /\ KP!App(t) /\ state[t] = "RUNNING"
        /\ sleep_left' = [sleep_left EXCEPT ![t] = n]
        /\ state' = [state EXCEPT ![t] = "SLEEPING"]
        /\ sleepqueue_head' = list.head /\ next_task' = list.next
        /\ pendsv' = TRUE
        /\ UNCHANGED <<priority, pc, wanted, acquired_by, current_task, handler,
                       first_waiting, task_prio_groups, highest_prio_level>>
    BY KernelAssumed, SameConditions, KP!CallerRuns DEF TaskSleep, LInv, runVars
  <1>2. /\ sleepqueue \in Seq(Task) /\ IsInjective(sleepqueue)
        /\ Range(sleepqueue) = {x \in Task : state[x] = "SLEEPING"}
        /\ IsChain(sleepqueue_head, next_task, NULL, sleepqueue)
        /\ next_task \in [Task -> MaybeTask]
    BY ListsAre DEF LInv, Linked, PointersOK
  <1>3. /\ t \notin Range(sleepqueue)
        /\ sleep_left \in [Task -> -1 .. MaxSleep] /\ MaxSleep \in Nat
        /\ \A x \in Task : sleep_left'[x] = IF x = t THEN n ELSE sleep_left[x]
        /\ \A x \in Task : sleep_left'[x] \in Int
    BY <1>1, <1>2, TypesAre, ListsAssumption DEF LInv
  <1> HIDE DEF list
  <1>4. /\ list.head \in Task
        /\ list.next \in [Task -> MaybeTask]
        /\ \A x \in Task : x # t /\ x \notin Range(sleepqueue) => list.next[x] = next_task[x]
        /\ \E i \in 1 .. Len(sleepqueue) + 1 :
             /\ \A j \in 1 .. i - 1 : sleep_left'[sleepqueue[j]] <= sleep_left'[t]
             /\ i <= Len(sleepqueue) => sleep_left'[sleepqueue[i]] > sleep_left'[t]
             /\ IsChain(list.head, list.next, NULL, InsertAt(sleepqueue, i, t))
    BY <1>2, <1>3, InsertedByKey DEF list
  <1>5. PICK i \in 1 .. Len(sleepqueue) + 1 :
             /\ \A j \in 1 .. i - 1 : sleep_left'[sleepqueue[j]] <= sleep_left'[t]
             /\ i <= Len(sleepqueue) => sleep_left'[sleepqueue[i]] > sleep_left'[t]
             /\ IsChain(list.head, list.next, NULL, InsertAt(sleepqueue, i, t))
    BY <1>4
  <1>6. i \in KP!InsertPoints(sleepqueue, sleep_left, n)
    <2>1. /\ Len(sleepqueue) \in Nat
          /\ \A j \in 1 .. Len(sleepqueue) :
               /\ sleepqueue[j] \in Task
               /\ sleep_left'[sleepqueue[j]] = sleep_left[sleepqueue[j]]
      BY <1>2, <1>3, LenProperties, ElementOfSeq, RangeEquality
    <2>2. \A j \in 1 .. i - 1 : j \in 1 .. Len(sleepqueue)
      BY <2>1
    <2>3. \A j \in 1 .. i - 1 : sleep_left[sleepqueue[j]] <= n
      BY <1>3, <1>5, <2>1, <2>2
    <2>4. i <= Len(sleepqueue) => sleep_left[sleepqueue[i]] > n
      BY <1>3, <1>5, <2>1
    <2> QED BY <2>3, <2>4 DEF KP!InsertPoints
  <1> DEFINE sq == InsertAt(sleepqueue, i, t)
  <1>7. sq \in Seq(Task) /\ IsInjective(sq)
    <2>1. Inserted(Task, sleepqueue, sq, i, t)
      BY <1>2, InsertAtInserts
    <2> QED BY <1>2, <1>3, <2>1, InsertedRange DEF Inserted
  <1>8. IsChain(sleepqueue_head', next_task', NULL, sq)
    BY <1>1, <1>5
  <1> HIDE DEF sq
  <1>9. \A x \in Task : state[x] \in {"RUNNABLE", "WAITING_FOR_RESOURCE"}
                          => next_task'[x] = next_task[x]
    BY <1>1, <1>2, <1>4
  <1>10. PointersOK'
    BY <1>1, <1>4 DEF LInv, Linked, PointersOK, MaybeTask
  <1>11. /\ RunLinked(Links', runq)
         /\ \A r \in Resource : IsChain(first_waiting'[r], next_task', NULL, waiting[r])
    BY <1>1, <1>9, RunnersStay, WaitersStay DEF Links
  <1>12. runq' = runq /\ sleepqueue' = sq /\ waiting' = waiting /\ Linked'
    BY <1>7, <1>8, <1>10, <1>11, ListsAre, Relinked DEF LInv
  <1>13. \E j \in KP!InsertPoints(sleepqueue, sleep_left, n) :
           sleepqueue' = KP!InsertAt(sleepqueue, j, t)
    BY <1>6, <1>12, SameOperators DEF sq
  <1> QED BY <1>1, <1>12, <1>13 DEF KP!TaskSleep, KP!resVars

\* and os_resource_acquire into the list of the resource by its priority.
LEMMA ResourceWaitStep ==
  ASSUME LInv, NEW t \in Task, NEW r \in Resource, ResourceWait(t, r)
  PROVE  KP!ResourceWait(t, r) /\ Linked'
  <1> DEFINE s    == waiting[r]
             list == InsertByKey(first_waiting[r], next_task, priority, t)
  <1>1. /\ KP!Acquires(t, r) /\ state[t] = "RUNNING" /\ acquired_by[r] \notin {NULL, t}
        /\ state' = [state EXCEPT ![t] = "WAITING_FOR_RESOURCE"]
        /\ wanted' = [wanted EXCEPT ![t] = r]
        /\ first_waiting' = [first_waiting EXCEPT ![r] = list.head]
        /\ next_task' = list.next
        /\ pendsv' = TRUE
        /\ UNCHANGED <<priority, pc, sleep_left, acquired_by, current_task, handler,
                       sleepqueue_head, task_prio_groups, highest_prio_level>>
    BY KernelAssumed, SameConditions, KP!CallerRuns DEF ResourceWait, LInv, runVars
  <1>2. /\ waiting \in [Resource -> Seq(Task)] /\ s \in Seq(Task) /\ IsInjective(s)
        /\ Range(s) = {x \in Task : state[x] = "WAITING_FOR_RESOURCE" /\ wanted[x] = r}
        /\ IsChain(first_waiting[r], next_task, NULL, s)
        /\ next_task \in [Task -> MaybeTask]
    BY ListsAre DEF LInv, Linked, PointersOK
  <1>3. t \notin Range(s) /\ \A x \in Task : priority[x] \in Int
    BY <1>1, <1>2, TypesAre, ListsAssumption DEF LInv, Level
  <1> HIDE DEF list, s
  <1>4. /\ list.head \in Task
        /\ list.next \in [Task -> MaybeTask]
        /\ \A x \in Task : x # t /\ x \notin Range(s) => list.next[x] = next_task[x]
        /\ \E i \in 1 .. Len(s) + 1 :
             /\ \A j \in 1 .. i - 1 : priority[s[j]] <= priority[t]
             /\ i <= Len(s) => priority[s[i]] > priority[t]
             /\ IsChain(list.head, list.next, NULL, InsertAt(s, i, t))
    BY <1>2, <1>3, InsertedByKey DEF list
  <1>5. PICK i \in 1 .. Len(s) + 1 :
             /\ \A j \in 1 .. i - 1 : priority[s[j]] <= priority[t]
             /\ i <= Len(s) => priority[s[i]] > priority[t]
             /\ IsChain(list.head, list.next, NULL, InsertAt(s, i, t))
    BY <1>4
  <1>6. i \in KP!InsertPoints(s, priority, priority[t])
    BY <1>5 DEF KP!InsertPoints
  <1> DEFINE q  == InsertAt(s, i, t)
             wl == [waiting EXCEPT ![r] = q]
  <1>7. q \in Seq(Task) /\ IsInjective(q)
    <2>1. Inserted(Task, s, q, i, t)
      BY <1>2, InsertAtInserts
    <2> QED BY <1>2, <1>3, <2>1, InsertedRange DEF Inserted
  <1>8. IsChain(list.head, next_task', NULL, q)
    BY <1>1, <1>5
  <1> HIDE DEF q
  <1>9. /\ wl \in [Resource -> Seq(Task)]
        /\ \A r2 \in Resource : wl[r2] = IF r2 = r THEN q ELSE waiting[r2]
    BY <1>2, <1>7
  <1> HIDE DEF wl
  <1>10. \A x \in Task : x # t /\ ~(state[x] = "WAITING_FOR_RESOURCE" /\ wanted[x] = r)
                           => next_task'[x] = next_task[x]
    BY <1>1, <1>2, <1>4
  <1>11. /\ PointersOK'
         /\ \A r2 \in Resource : first_waiting'[r2] = IF r2 = r THEN list.head
                                                        ELSE first_waiting[r2]
    BY <1>1, <1>4 DEF LInv, Linked, PointersOK, MaybeTask
  <1>12. ASSUME NEW r2 \in Resource
         PROVE  IsChain(first_waiting'[r2], next_task', NULL, wl[r2]) /\ IsInjective(wl[r2])
    <2>1. CASE r2 = r
      BY <1>7, <1>8, <1>9, <1>11, <2>1
    <2>2. CASE r2 # r
      <3>1. IsChain(first_waiting[r2], next_task', NULL, waiting[r2])
        BY <1>1, <1>10, <2>2, WaitersStay
      <3>2. IsInjective(waiting[r2])
        BY ListsAre DEF LInv
      <3> QED BY <1>9, <1>11, <2>2, <3>1, <3>2
    <2> QED BY <2>1, <2>2
  <1>13. /\ RunLinked(Links', runq)
         /\ IsChain(sleepqueue_head', next_task', NULL, sleepqueue)
    BY <1>1, <1>10, RunnersStay, SleepersStay DEF Links
  <1>14. runq' = runq /\ sleepqueue' = sleepqueue /\ waiting' = wl /\ Linked'
    BY <1>9, <1>11, <1>12, <1>13, ListsAre, Relinked DEF LInv
  <1>15. \E j \in KP!InsertPoints(waiting[r], priority, priority[t]) :
           waiting' = [waiting EXCEPT ![r] = KP!InsertAt(@, j, t)]
    <2>1. KP!InsertAt(s, i, t) = q
      BY SameOperators DEF q
    <2> QED BY <1>6, <1>14, <2>1 DEF s, wl
  <1> QED BY <1>1, <1>14, <1>15 DEF KP!ResourceWait

\* Every step of the linked lists is a step of Kernel, and keeps them linked.
LEMMA ListsStep ==
  ASSUME LInv, [Next]_vars
  PROVE  [KP!Next]_KP!vars /\ LInv'
  <1> SUFFICES [KP!Next]_KP!vars /\ Linked'
    BY KernelAssumed, KP!NextInv DEF LInv
  <1>1. CASE TasksStart
    BY <1>1, TasksStartStep DEF KP!Next
  <1>2. CASE PendSV
    BY <1>2, PendSVStep DEF KP!Next, KP!Handler
  <1>3. CASE WakeUpTask
    BY <1>3, WakeUpTaskStep DEF KP!Next, KP!Handler
  <1>4. CASE SysTickReturn
    BY <1>4, SysTickReturnStep DEF KP!Next, KP!Handler
  <1>5. CASE Other
    <2>1. Linked'
      BY <1>5, NothingRelinked DEF Other
    <2>2. CASE K!SysTick
      BY <2>1, <2>2, SameActions DEF KP!Next, KP!Handler
    <2>3. ASSUME NEW t \in Task,
                 \/ K!TaskYield(t) \/ K!SuspendSelfMark(t) \/ K!SuspendSelfYield(t)
                 \/ \E r \in Resource : K!ResourceAcquire(t, r)
          PROVE  KP!Next
      BY <2>3, SameActions DEF KP!Next, KP!TaskStep
    <2> QED BY <1>5, <2>1, <2>2, <2>3 DEF Other
  <1>6. ASSUME NEW t \in Task,
               \/ \E p \in Level : TaskInit(t, p)
               \/ TaskAdd(t)
               \/ TaskReturn(t)
               \/ \E other \in Task : TaskUnsuspend(t, other)
               \/ IsrUnsuspend(t)
               \/ \E n \in 0 .. MaxSleep : TaskSleep(t, n)
               \/ \E r \in Resource : ResourceWait(t, r) \/ ResourceRelease(t, r)
        PROVE  KP!Next /\ Linked'
    <2>1. ASSUME NEW p \in Level, TaskInit(t, p) PROVE KP!Next /\ Linked'
      BY <2>1, TaskInitStep, SameLevels DEF KP!Next, KP!TaskStep
    <2>2. CASE TaskAdd(t)
      BY <2>2, TaskAddStep DEF KP!Next, KP!TaskStep
    <2>3. CASE TaskReturn(t)
      <3>1. KP!TaskReturn(t) /\ Linked'
        BY <2>3, NothingRelinked, SameActions DEF TaskReturn
      <3> QED BY <3>1 DEF KP!Next, KP!TaskStep
    <2>4. ASSUME NEW other \in Task, TaskUnsuspend(t, other) PROVE KP!Next /\ Linked'
      <3>1. KP!TaskUnsuspend(t, other) /\ Linked'
        BY <2>4, UnsuspendStep, SameConditions DEF TaskUnsuspend, KP!TaskUnsuspend
      <3> QED BY <3>1 DEF KP!Next, KP!TaskStep
    <2>5. CASE IsrUnsuspend(t)
      <3>1. KP!IsrUnsuspend(t) /\ Linked'
        BY <2>5, UnsuspendStep DEF IsrUnsuspend, KP!IsrUnsuspend
      <3> QED BY <3>1 DEF KP!Next, KP!Handler
    <2>6. ASSUME NEW n \in 0 .. MaxSleep, TaskSleep(t, n) PROVE KP!Next /\ Linked'
      BY <2>6, TaskSleepStep DEF KP!Next, KP!TaskStep
    <2>7. ASSUME NEW r \in Resource, ResourceWait(t, r) PROVE KP!Next /\ Linked'
      BY <2>7, ResourceWaitStep DEF KP!Next, KP!TaskStep
    <2>8. ASSUME NEW r \in Resource, ResourceRelease(t, r) PROVE KP!Next /\ Linked'
      BY <2>8, ResourceReleaseStep DEF KP!Next, KP!TaskStep
    <2> QED BY <1>6, <2>1, <2>2, <2>3, <2>4, <2>5, <2>6, <2>7, <2>8
  <1>7. CASE UNCHANGED vars
    <2>1. UNCHANGED listVars /\ UNCHANGED <<state, priority, pc, wanted, sleep_left,
            highest_prio_level, acquired_by, current_task, pendsv, handler>>
      BY <1>7 DEF vars
    <2>2. UNCHANGED <<runq, sleepqueue, waiting>> /\ Linked'
      BY <2>1, NothingRelinked
    <2>3. UNCHANGED KP!vars
      BY <2>1, <2>2 DEF KP!vars, KP!taskVars, KP!resVars
    <2> QED BY <2>2, <2>3
  <1> QED BY <1>1, <1>2, <1>3, <1>4, <1>5, <1>6, <1>7 DEF Next

\* os_init and os_task_init leave the lists linked.
LEMMA InitLinked ==
  ASSUME Init
  PROVE  LInv
  <1>1. K!Init
    BY DEF Init
  <1>2. KP!Init
    BY <1>1, SameLevels DEF K!Init, KP!Init
  <1>3. KP!IInv
    BY <1>2, KernelAssumed, KP!InitInv
  <1>4. /\ next_task = [t \in Task |-> NULL]
        /\ task_prio_groups = [p \in Level |-> OnlyOne(IF p = NUM_PRIO_LEVELS - 1
                                                        THEN Idle ELSE NULL)]
        /\ sleepqueue_head = NULL
        /\ first_waiting = [r \in Resource |-> NULL]
    BY DEF Init
  <1>5. PointersOK
    BY <1>4, ListsAssumption DEF PointersOK, Group, MaybeTask, OnlyOne
  <1>6. /\ sleepqueue = <<>>
        /\ \A r \in Resource : waiting[r] = <<>>
        /\ \A p \in Level : runq[p] = IF p = NUM_PRIO_LEVELS - 1 THEN <<Idle>> ELSE <<>>
    BY <1>2, SameLevels DEF KP!Init
  <1>7. /\ <<Idle>> # <<>> /\ Len(<<Idle>>) = 1 /\ <<Idle>>[1] = Idle
        /\ \A f : Len(f) = 0 => \A j \in 1 .. Len(f) : FALSE
        /\ Len(<<>>) = 0
    OBVIOUS
  <1>8. \A next : IsChain(NULL, next, NULL, <<>>)
    BY DEF IsChain
  <1>9. IsChain(Idle, next_task, NULL, <<Idle>>)
    BY <1>4, ListsAssumption DEF IsChain
  <1>10. RunLinked(Links, runq)
    <2> SUFFICES ASSUME NEW p \in Level
                 PROVE  /\ IsChain(task_prio_groups[p].first, next_task, NULL, runq[p])
                        /\ task_prio_groups[p].last =
                             IF runq[p] = <<>> THEN NULL ELSE runq[p][Len(runq[p])]
      BY DEF RunLinked, Links
    <2>1. CASE p = NUM_PRIO_LEVELS - 1
      <3>1. task_prio_groups[p].first = Idle /\ task_prio_groups[p].last = Idle
        BY <1>4, <2>1 DEF OnlyOne
      <3> QED BY <1>6, <1>7, <1>9, <2>1, <3>1
    <2>2. CASE p # NUM_PRIO_LEVELS - 1
      <3>1. task_prio_groups[p].first = NULL /\ task_prio_groups[p].last = NULL
        BY <1>4, <2>2 DEF OnlyOne
      <3> QED BY <1>6, <1>8, <2>2, <3>1
    <2> QED BY <2>1, <2>2
  <1>11. \A r \in Resource : first_waiting[r] = NULL
    BY <1>4
  <1> QED BY <1>3, <1>4, <1>5, <1>6, <1>8, <1>10, <1>11 DEF LInv, Linked

\* The pointers always lead along lists.
THEOREM Invariance == Spec => []LInv
  <1>1. Init => LInv
    BY InitLinked
  <1>2. LInv /\ [Next]_vars => LInv'
    BY ListsStep
  <1> QED BY <1>1, <1>2, PTL DEF Spec

\* The linked lists do what the sequences of Kernel do: what is proved of Kernel
\* holds of the pointers.
THEOREM ImplementsTheKernel == Spec => ImplementsKernel
  <1>1. Init => K!Init
    BY DEF Init
  <1>2. LInv /\ [Next]_vars => [K!Next]_K!vars
    BY ListsStep, SameSteps, SameVars
  <1> QED BY <1>1, <1>2, Invariance, PTL DEF Spec, ImplementsKernel, K!Spec

\* So whatever KernelProofs proves of its behaviours holds of these.
LEMMA IsAKernel == Spec => KP!Spec
  <1>1. Init => KP!Init
    BY InitLinked, KernelAssumed DEF LInv, Init, K!Init, KP!Init, K!Level, KP!Level
  <1>2. LInv /\ [Next]_vars => [KP!Next]_KP!vars
    BY ListsStep
  <1> QED BY <1>1, <1>2, Invariance, PTL DEF Spec, KP!Spec

\* The lists that the pointers make hold exactly the tasks in their states, the
\* search of take_highest_prio_task ends, and no wake-up is lost.
THEOREM PointersAreSafe ==
  Spec => []KP!QueuesMatchStates /\ []KP!AlwaysATaskToRun /\ []KP!NoLostWakeup
  BY IsAKernel, KernelAssumed, KP!ListsAreRight, KP!SchedulerFindsATask,
     KP!NoWakeupIsLost, PTL

\* No step wakes a sleeper early or late, serves the waiters of a resource out
\* of order, takes a resource from its owner, ends a suspension by itself or puts
\* a task before another that it does not come before, and only os_task_add leaves
\* a more urgent task waiting: on the pointers, too.
THEOREM PointersKeepTheOrder ==
  Spec => /\ KP!SleepersWakeOnTime /\ KP!HighestWaiterFirst /\ KP!OnlyUrgentBarge
          /\ KP!SuspendedStays /\ KP!OnlyAddDelaysPriority
          /\ KP!OnlyWokenOvertake /\ KP!WaitersKeepTheirTurn
  BY IsAKernel, KernelAssumed, KP!SleepIsExact, KP!ReleaseServesByPriority,
     KP!RaceIsByPriority, KP!SuspensionHolds, KP!PriorityHolds, KP!TurnsAreKept,
     KP!WaitersAreServedInTurn, PTL

\* The last pointer of a run queue is at the end of what the first leads to.
THEOREM LastIsAlwaysLast == Spec => []LastIsLast
  <1>1. LInv => LastIsLast
    <2> SUFFICES ASSUME LInv, NEW p \in Level
                 PROVE  task_prio_groups[p].last =
                          LET queue == Chain(task_prio_groups[p].first, next_task)
                          IN IF queue = <<>> THEN NULL ELSE queue[Len(queue)]
      BY DEF LastIsLast
    <2>1. runq[p] = Chain(task_prio_groups[p].first, next_task)
      BY DEF runq
    <2>2. task_prio_groups[p].last = IF runq[p] = <<>> THEN NULL ELSE runq[p][Len(runq[p])]
      BY DEF LInv, Linked, RunLinked, Links
    <2> QED BY <2>1, <2>2
  <1> QED BY <1>1, Invariance, PTL

-----------------------------------------------------------------------------
(* The list of all tasks.                                                  *)

\* ends, next and prev link the tasks of s in both directions.
BothWays(s, ends, next, prev) ==
  /\ ends.first = IF s = <<>> THEN NULL ELSE s[1]
  /\ ends.last = IF s = <<>> THEN NULL ELSE s[Len(s)]
  /\ \A i \in 1 .. Len(s) : /\ next[s[i]] = IF i = Len(s) THEN NULL ELSE s[i + 1]
                            /\ prev[s[i]] = IF i = 1 THEN NULL ELSE s[i - 1]

AllTypes ==
  /\ all_tasks \in Group
  /\ tasklist_next \in [Task -> MaybeTask]
  /\ tasklist_prev \in [Task -> MaybeTask]

\* The tasks in use, each once.
InUse(s, st) ==
  s \in Seq(Task) /\ IsInjective(s) /\ Range(s) = {t \in Task : st[t] # "STOPPED"}

AllLinked ==
  AllTypes /\ \E s : InUse(s, state) /\ BothWays(s, all_tasks, tasklist_next, tasklist_prev)

AInv == LInv /\ AllLinked

\* What is known of the indices of a list of different tasks.
LEMMA Indices ==
  ASSUME NEW s \in Seq(Task), IsInjective(s)
  PROVE  /\ Len(s) \in Nat /\ (s = <<>> <=> Len(s) = 0)
         /\ \A i \in 1 .. Len(s) : s[i] \in Task /\ s[i] # NULL /\ s[i] \in Range(s)
         /\ \A i, j \in 1 .. Len(s) : s[i] = s[j] => i = j
         /\ \A x \in Range(s) : \E i \in 1 .. Len(s) : s[i] = x
  <1>1. NULL \notin Task
    BY ListsAssumption
  <1> QED BY <1>1, LenProperties, ElementOfSeq, RangeEquality, EmptySeq DEF IsInjective

\* Read from its end, such a list is the list reversed.
LEMMA ReadsBack ==
  ASSUME NEW s \in Seq(Task), IsInjective(s), NEW ends, NEW next, NEW prev,
         BothWays(s, ends, next, prev)
  PROVE  /\ Chain(ends.first, next) = s
         /\ Len(Chain(ends.last, prev)) = Len(s)
         /\ \A i \in DOMAIN s : Chain(ends.last, prev)[Len(s) + 1 - i] = s[i]
  <1> DEFINE n == Len(s)
             q == [i \in 1 .. n |-> s[n + 1 - i]]
  <1>1. /\ n \in Nat /\ (s = <<>> <=> n = 0)
        /\ \A i \in 1 .. n : s[i] \in Task /\ s[i] # NULL
        /\ \A i, j \in 1 .. n : s[i] = s[j] => i = j
        /\ DOMAIN s = 1 .. n
    BY Indices, LenProperties
  <1> HIDE DEF n
  <1>2. \A i \in 1 .. n : n + 1 - i \in 1 .. n /\ n + 1 - (n + 1 - i) = i
    BY <1>1
  <1>3. q \in Seq(Task) /\ Len(q) = n /\ (q = <<>> <=> n = 0) /\ DOMAIN q = 1 .. n
        /\ \A i \in 1 .. n : q[i] = s[n + 1 - i]
    <2>1. \A i \in 1 .. n : s[n + 1 - i] \in Task
      BY <1>1, <1>2
    <2>2. q \in [1 .. n -> Task]
      BY <2>1
    <2>3. q \in Seq(Task) /\ Len(q) = n /\ DOMAIN q = 1 .. n
      BY <1>1, <2>2, LenProperties, SeqDef
    <2> HIDE DEF q
    <2>4. q = <<>> <=> n = 0
      BY <2>3, EmptySeq
    <2> QED BY <2>3, <2>4 DEF q
  <1> HIDE DEF q
  <1>4. IsInjective(q)
    <2> SUFFICES ASSUME NEW i \in 1 .. n, NEW j \in 1 .. n, q[i] = q[j]
                 PROVE  i = j
      BY <1>3 DEF IsInjective
    <2>1. n + 1 - i = n + 1 - j
      BY <1>1, <1>2, <1>3
    <2> QED BY <1>2, <2>1
  <1>5. /\ ends.first = IF s = <<>> THEN NULL ELSE s[1]
        /\ ends.last = IF s = <<>> THEN NULL ELSE s[n]
        /\ \A i \in 1 .. n : /\ next[s[i]] = IF i = n THEN NULL ELSE s[i + 1]
                             /\ prev[s[i]] = IF i = 1 THEN NULL ELSE s[i - 1]
    BY DEF BothWays, n
  <1>6. IsChain(ends.first, next, NULL, s)
    BY <1>5 DEF IsChain, n
  <1>7. IsChain(ends.last, prev, NULL, q)
    <2>1. ends.last = IF q = <<>> THEN NULL ELSE q[1]
      <3>1. n # 0 => 1 \in 1 .. n /\ n + 1 - 1 = n
        BY <1>1
      <3> QED BY <1>1, <1>3, <1>5, <3>1
    <2>2. ASSUME NEW i \in 1 .. n
          PROVE  prev[q[i]] = IF i = n THEN NULL ELSE q[i + 1]
      <3>1. PICK k \in 1 .. n : k = n + 1 - i
        BY <1>2
      <3>2. q[i] = s[k] /\ prev[s[k]] = IF k = 1 THEN NULL ELSE s[k - 1]
        BY <1>3, <1>5, <3>1
      <3>3. CASE i = n
        BY <1>1, <3>1, <3>2, <3>3
      <3>4. CASE i # n
        <4>1. k # 1 /\ i + 1 \in 1 .. n /\ n + 1 - (i + 1) = k - 1
          BY <1>1, <3>1, <3>4
        <4> QED BY <1>3, <3>2, <3>4, <4>1
      <3> QED BY <3>3, <3>4
    <2> QED BY <1>3, <2>1, <2>2 DEF IsChain
  <1>8. Chain(ends.first, next) = s
    BY <1>6, ChainIs
  <1>9. Chain(ends.last, prev) = q
    BY <1>3, <1>4, <1>7, ChainIs
  <1>10. ASSUME NEW i \in DOMAIN s PROVE q[n + 1 - i] = s[i]
    BY <1>1, <1>2, <1>3
  <1> QED BY <1>3, <1>8, <1>9, <1>10 DEF n

\* os_task_add links a task to the end,
LEMMA Appended ==
  ASSUME NEW s \in Seq(Task), IsInjective(s),
         AllTypes, BothWays(s, all_tasks, tasklist_next, tasklist_prev),
         NEW t \in Task, t \notin Range(s), JoinAllTasks(t)
  PROVE  /\ AllTypes'
         /\ BothWays(Append(s, t), all_tasks', tasklist_next', tasklist_prev')
  <1> DEFINE n == Len(s)
             q == Append(s, t)
  <1>1. /\ n \in Nat /\ (s = <<>> <=> n = 0)
        /\ \A i \in 1 .. n : s[i] \in Task /\ s[i] # NULL /\ s[i] # t
        /\ \A i, j \in 1 .. n : s[i] = s[j] => i = j
    BY Indices
  <1>2. /\ Len(q) = n + 1 /\ q # <<>> /\ q[n + 1] = t
        /\ \A i \in 1 .. n : q[i] = s[i]
    BY AppendProperties
  <1>3. /\ all_tasks.first = IF s = <<>> THEN NULL ELSE s[1]
        /\ all_tasks.last = IF s = <<>> THEN NULL ELSE s[n]
        /\ \A i \in 1 .. n : /\ tasklist_next[s[i]] = IF i = n THEN NULL ELSE s[i + 1]
                             /\ tasklist_prev[s[i]] = IF i = 1 THEN NULL ELSE s[i - 1]
    BY DEF BothWays
  <1> HIDE DEF n, q
  <1>4. CASE s = <<>>
    <2>1. /\ all_tasks' = OnlyOne(t)
          /\ tasklist_next' = [tasklist_next EXCEPT ![t] = NULL]
          /\ tasklist_prev' = [tasklist_prev EXCEPT ![t] = NULL]
      BY <1>3, <1>4 DEF JoinAllTasks
    <2>2. AllTypes'
      BY <2>1 DEF AllTypes, Group, OnlyOne, MaybeTask
    <2>3. \A i \in 1 .. n + 1 : i = 1 /\ i = n + 1 /\ q[i] = t
      BY <1>1, <1>2, <1>4
    <2>4. q[1] = t /\ n + 1 = 1
      BY <1>1, <1>2, <1>4
    <2> QED BY <1>2, <2>1, <2>2, <2>3, <2>4 DEF BothWays, OnlyOne, AllTypes, q
  <1>5. CASE s # <<>>
    <2>0. n \in 1 .. n /\ 1 \in 1 .. n
      BY <1>1, <1>5
    <2>1. /\ all_tasks' = [all_tasks EXCEPT !.last = t]
          /\ tasklist_next' = [tasklist_next EXCEPT ![s[n]] = t, ![t] = NULL]
          /\ tasklist_prev' = [tasklist_prev EXCEPT ![t] = s[n]]
      BY <1>1, <1>3, <1>5, <2>0 DEF JoinAllTasks
    <2>2. s[n] \in Task /\ s[n] # t
      BY <1>1, <2>0
    <2>3. AllTypes'
      BY <2>1, <2>2 DEF AllTypes, Group, MaybeTask
    <2>4. all_tasks'.first = q[1] /\ all_tasks'.last = q[n + 1]
      BY <1>2, <1>3, <1>5, <2>0, <2>1 DEF AllTypes, Group
    <2>5. /\ tasklist_next'[t] = NULL /\ tasklist_prev'[t] = s[n]
          /\ tasklist_next'[s[n]] = t
          /\ \A x \in Task : x # t => /\ x # s[n] => tasklist_next'[x] = tasklist_next[x]
                                      /\ tasklist_prev'[x] = tasklist_prev[x]
      BY <2>1, <2>2 DEF AllTypes
    <2>6. ASSUME NEW i \in 1 .. n + 1
          PROVE  /\ tasklist_next'[q[i]] = IF i = n + 1 THEN NULL ELSE q[i + 1]
                 /\ tasklist_prev'[q[i]] = IF i = 1 THEN NULL ELSE q[i - 1]
      <3>1. CASE i = n + 1
        <4>1. i # 1 /\ i - 1 = n
          BY <1>1, <2>0, <3>1
        <4> QED BY <1>2, <2>0, <2>5, <3>1, <4>1
      <3>2. CASE i = n /\ i # n + 1
        <4>1. i # 1 => i - 1 \in 1 .. n
          BY <1>1, <2>0, <3>2
        <4> QED BY <1>2, <1>3, <2>0, <2>2, <2>5, <3>2, <4>1
      <3>3. CASE i # n /\ i # n + 1
        <4>1. i \in 1 .. n /\ i + 1 \in 1 .. n /\ (i # 1 => i - 1 \in 1 .. n)
          BY <1>1, <3>3
        <4>2. s[i] # s[n] /\ s[i] \in Task /\ s[i] # t
          BY <1>1, <2>0, <3>3, <4>1
        <4> QED BY <1>2, <1>3, <2>5, <3>3, <4>1, <4>2
      <3> QED BY <3>1, <3>2, <3>3
    <2>7. BothWays(q, all_tasks', tasklist_next', tasklist_prev')
      BY <1>2, <2>4, <2>6 DEF BothWays
    <2> QED BY <2>3, <2>7 DEF q
  <1> QED BY <1>4, <1>5

\* s without its task at position k.
Without(s, k) == [j \in 1 .. Len(s) - 1 |-> IF j < k THEN s[j] ELSE s[j + 1]]

\* It is a list of the others, each once.
LEMMA WithoutOne ==
  ASSUME NEW s \in Seq(Task), IsInjective(s), NEW k \in 1 .. Len(s)
  PROVE  /\ Without(s, k) \in Seq(Task)
         /\ Len(Without(s, k)) = Len(s) - 1
         /\ IsInjective(Without(s, k))
         /\ Range(Without(s, k)) = Range(s) \ {s[k]}
  <1> DEFINE n == Len(s)
             q == Without(s, k)
  <1>1. /\ n \in Nat /\ (s = <<>> <=> n = 0)
        /\ \A i \in 1 .. n : s[i] \in Task /\ s[i] \in Range(s)
        /\ \A i, j \in 1 .. n : s[i] = s[j] => i = j
        /\ \A x \in Range(s) : \E i \in 1 .. n : s[i] = x
    BY Indices
  <1> HIDE DEF n
  <1>2. n - 1 \in Nat /\ k \in 1 .. n /\ q = [j \in 1 .. n - 1 |-> IF j < k THEN s[j] ELSE s[j + 1]]
    BY <1>1 DEF n, Without
  <1> HIDE DEF q
  <1>3. q \in [1 .. n - 1 -> Task]
    <2>1. ASSUME NEW j \in 1 .. n - 1 PROVE (IF j < k THEN s[j] ELSE s[j + 1]) \in Task
      BY <1>1, <1>2
    <2> QED BY <1>2, <2>1
  <1>4. q \in Seq(Task) /\ Len(q) = n - 1 /\ DOMAIN q = 1 .. n - 1
    <2>1. PICK m \in Nat : m = n - 1
      BY <1>2
    <2>2. q \in [1 .. m -> Task]
      BY <1>3, <2>1
    <2>3. q \in Seq(Task) /\ Len(q) = m /\ DOMAIN q = 1 .. m
      BY <2>1, <2>2, LenProperties, SeqDef
    <2> QED BY <2>1, <2>3
  <1>5. \A j \in 1 .. n - 1 : q[j] = IF j < k THEN s[j] ELSE s[j + 1]
    BY <1>2
  <1>6. IsInjective(q)
    <2> SUFFICES ASSUME NEW i \in 1 .. n - 1, NEW j \in 1 .. n - 1, q[i] = q[j]
                 PROVE  i = j
      BY <1>4 DEF IsInjective
    <2>1. i \in 1 .. n /\ j \in 1 .. n /\ i + 1 \in 1 .. n /\ j + 1 \in 1 .. n
      BY <1>1
    <2> QED BY <1>1, <1>2, <1>5, <2>1
  <1>7. Range(q) = Range(s) \ {s[k]}
    <2>1. Range(q) = {q[j] : j \in 1 .. n - 1}
      BY <1>4, RangeEquality
    <2>2. ASSUME NEW j \in 1 .. n - 1 PROVE q[j] \in Range(s) /\ q[j] # s[k]
      <3>1. j \in 1 .. n /\ j + 1 \in 1 .. n
        BY <1>1
      <3> QED BY <1>1, <1>2, <1>5, <3>1
    <2>3. ASSUME NEW x \in Range(s), x # s[k] PROVE \E j \in 1 .. n - 1 : q[j] = x
      <3>1. PICK i \in 1 .. n : s[i] = x
        BY <1>1
      <3>2. i # k
        BY <2>3, <3>1
      <3>3. CASE i < k
        BY <1>1, <1>2, <1>5, <3>1, <3>3
      <3>4. CASE ~(i < k)
        <4>1. i - 1 \in 1 .. n - 1 /\ ~(i - 1 < k) /\ (i - 1) + 1 = i
          BY <1>1, <1>2, <3>2, <3>4
        <4> QED BY <1>5, <3>1, <4>1
      <3> QED BY <3>3, <3>4
    <2> QED BY <2>1, <2>2, <2>3
  <1> QED BY <1>4, <1>6, <1>7 DEF q, n

\* and __task_runner unlinks it from wherever it is.
LEMMA Unlinked ==
  ASSUME NEW s \in Seq(Task), IsInjective(s),
         AllTypes, BothWays(s, all_tasks, tasklist_next, tasklist_prev),
         NEW k \in 1 .. Len(s), LeaveAllTasks(s[k])
  PROVE  /\ AllTypes'
         /\ BothWays(Without(s, k), all_tasks', tasklist_next', tasklist_prev')
  <1> DEFINE n    == Len(s)
             q    == Without(s, k)
             t    == s[k]
             prev == tasklist_prev[t]
             next == tasklist_next[t]
  <1>1. /\ n \in Nat /\ n # 0 /\ s # <<>> /\ k \in 1 .. n
        /\ \A i \in 1 .. n : s[i] \in Task /\ s[i] # NULL
        /\ \A i, j \in 1 .. n : s[i] = s[j] => i = j
    BY Indices
  <1>2. /\ all_tasks.first = s[1]
        /\ all_tasks.last = s[n]
        /\ \A i \in 1 .. n : /\ tasklist_next[s[i]] = IF i = n THEN NULL ELSE s[i + 1]
                             /\ tasklist_prev[s[i]] = IF i = 1 THEN NULL ELSE s[i - 1]
    BY <1>1 DEF BothWays
  <1>3. /\ Len(q) = n - 1 /\ q \in Seq(Task)
        /\ \A j \in 1 .. n - 1 : q[j] = IF j < k THEN s[j] ELSE s[j + 1]
    BY WithoutOne DEF Without
  <1>4. /\ all_tasks' = [first |-> IF prev = NULL THEN next ELSE all_tasks.first,
                         last  |-> IF next = NULL THEN prev ELSE all_tasks.last]
        /\ tasklist_prev' = [u \in Task |-> IF u = t THEN NULL
                                              ELSE IF u = next THEN prev
                                              ELSE tasklist_prev[u]]
        /\ tasklist_next' = [u \in Task |-> IF u = t THEN NULL
                                              ELSE IF u = prev THEN next
                                              ELSE tasklist_next[u]]
    BY DEF LeaveAllTasks
  <1>5. t \in Task /\ next \in MaybeTask /\ prev \in MaybeTask
    BY <1>1 DEF AllTypes
  <1>6. next = (IF k = n THEN NULL ELSE s[k + 1]) /\ prev = (IF k = 1 THEN NULL ELSE s[k - 1])
    BY <1>2
  <1> HIDE DEF n, q, prev, next
  <1>7. AllTypes'
    <2>1. all_tasks' \in Group
      BY <1>4, <1>5 DEF AllTypes, Group
    <2>2. tasklist_prev' \in [Task -> MaybeTask] /\ tasklist_next' \in [Task -> MaybeTask]
      BY <1>4, <1>5 DEF AllTypes, MaybeTask
    <2> QED BY <2>1, <2>2 DEF AllTypes
  <1>8. q = <<>> <=> n = 1
    BY <1>1, <1>3, EmptySeq
  <1>9. /\ next = NULL <=> k = n
        /\ prev = NULL <=> k = 1
    <2>1. k # n => k + 1 \in 1 .. n
      BY <1>1
    <2>2. k # 1 => k - 1 \in 1 .. n
      BY <1>1
    <2> QED BY <1>1, <1>6, <2>1, <2>2
  <1>10. all_tasks'.first = IF q = <<>> THEN NULL ELSE q[1]
    <2>1. all_tasks'.first = IF k = 1 THEN next ELSE s[1]
      BY <1>2, <1>4, <1>9
    <2>2. CASE n = 1
      BY <1>1, <1>6, <1>8, <2>1, <2>2
    <2>3. CASE n # 1
      <3>1. 1 \in 1 .. n - 1 /\ (1 < k <=> k # 1) /\ (k = 1 => k # n /\ k + 1 = 1 + 1)
        BY <1>1, <2>3
      <3> QED BY <1>3, <1>6, <1>8, <2>1, <2>3, <3>1
    <2> QED BY <2>2, <2>3
  <1>11. all_tasks'.last = IF q = <<>> THEN NULL ELSE q[n - 1]
    <2>1. all_tasks'.last = IF k = n THEN prev ELSE s[n]
      BY <1>2, <1>4, <1>9
    <2>2. CASE n = 1
      BY <1>1, <1>6, <1>8, <2>1, <2>2
    <2>3. CASE n # 1
      <3>1. n - 1 \in 1 .. n - 1 /\ (n - 1 < k <=> k = n) /\ (n - 1) + 1 = n
            /\ (k = n => k # 1)
        BY <1>1, <2>3
      <3> QED BY <1>3, <1>6, <1>8, <2>1, <2>3, <3>1
    <2> QED BY <2>2, <2>3
  <1>12. ASSUME NEW i \in 1 .. n, i # k
         PROVE  /\ tasklist_next'[s[i]] = IF i = n THEN NULL
                                          ELSE IF i = k - 1 THEN next ELSE s[i + 1]
                /\ tasklist_prev'[s[i]] = IF i = 1 THEN NULL
                                          ELSE IF i = k + 1 THEN prev ELSE s[i - 1]
    <2>1. s[i] \in Task /\ s[i] # t /\ s[i] # NULL
      BY <1>1, <1>12
    <2>2. s[i] = next <=> i = k + 1
      <3>1. k # n => k + 1 \in 1 .. n
        BY <1>1
      <3> QED BY <1>1, <1>6, <2>1, <3>1
    <2>3. s[i] = prev <=> i = k - 1
      <3>1. k # 1 => k - 1 \in 1 .. n
        BY <1>1
      <3> QED BY <1>1, <1>6, <2>1, <3>1
    <2>4. (i = k - 1 => i # n) /\ (i = k + 1 => i # 1)
      BY <1>1
    <2> QED BY <1>2, <1>4, <2>1, <2>2, <2>3, <2>4
  <1>13. ASSUME NEW j \in 1 .. n - 1
         PROVE  /\ tasklist_next'[q[j]] = IF j = n - 1 THEN NULL ELSE q[j + 1]
                /\ tasklist_prev'[q[j]] = IF j = 1 THEN NULL ELSE q[j - 1]
    <2>1. PICK i \in 1 .. n : i = IF j < k THEN j ELSE j + 1
      BY <1>1
    <2>2. q[j] = s[i] /\ i # k
      BY <1>1, <1>3, <2>1
    <2>3. tasklist_next'[s[i]] = IF j = n - 1 THEN NULL ELSE q[j + 1]
      <3>1. CASE i = n
        <4>1. j = n - 1
          BY <1>1, <2>1, <2>2, <3>1
        <4> QED BY <1>12, <2>2, <3>1, <4>1
      <3>2. CASE i # n /\ i = k - 1
        <4>1. CASE k = n
          <5>1. j = n - 1
            BY <1>1, <2>1, <3>2, <4>1
          <5> QED BY <1>6, <1>12, <2>2, <3>2, <4>1, <5>1
        <4>2. CASE k # n
          <5>1. /\ j # n - 1 /\ j + 1 \in 1 .. n - 1 /\ ~(j + 1 < k)
                /\ (j + 1) + 1 = k + 1
            BY <1>1, <2>1, <3>2, <4>2
          <5>2. q[j + 1] = s[k + 1]
            BY <1>3, <5>1
          <5> QED BY <1>6, <1>12, <2>2, <3>2, <4>2, <5>1, <5>2
        <4> QED BY <4>1, <4>2
      <3>3. CASE i # n /\ i # k - 1
        <4>1. /\ j # n - 1 /\ j + 1 \in 1 .. n - 1
              /\ (IF j + 1 < k THEN j + 1 ELSE (j + 1) + 1) = i + 1
          BY <1>1, <2>1, <2>2, <3>3
        <4>2. q[j + 1] = s[i + 1]
          BY <1>3, <4>1
        <4> QED BY <1>12, <2>2, <3>3, <4>1, <4>2
      <3> QED BY <3>1, <3>2, <3>3
    <2>4. tasklist_prev'[s[i]] = IF j = 1 THEN NULL ELSE q[j - 1]
      <3>1. CASE i = 1
        <4>1. j = 1
          BY <1>1, <2>1, <3>1
        <4> QED BY <1>12, <2>2, <3>1, <4>1
      <3>2. CASE i # 1 /\ i = k + 1
        <4>1. CASE k = 1
          <5>1. j = 1
            BY <1>1, <2>1, <3>2, <4>1
          <5> QED BY <1>6, <1>12, <2>2, <3>2, <4>1, <5>1
        <4>2. CASE k # 1
          <5>1. j # 1 /\ j - 1 \in 1 .. n - 1 /\ j - 1 < k /\ j - 1 = k - 1
            BY <1>1, <2>1, <3>2, <4>2
          <5>2. q[j - 1] = s[k - 1]
            BY <1>3, <5>1
          <5> QED BY <1>6, <1>12, <2>2, <3>2, <4>2, <5>1, <5>2
        <4> QED BY <4>1, <4>2
      <3>3. CASE i # 1 /\ i # k + 1
        <4>1. /\ j # 1 /\ j - 1 \in 1 .. n - 1
              /\ (IF j - 1 < k THEN j - 1 ELSE (j - 1) + 1) = i - 1
          BY <1>1, <2>1, <2>2, <3>3
        <4>2. q[j - 1] = s[i - 1]
          BY <1>3, <4>1
        <4> QED BY <1>12, <2>2, <3>3, <4>1, <4>2
      <3> QED BY <3>1, <3>2, <3>3
    <2> QED BY <2>2, <2>3, <2>4
  <1>14. BothWays(q, all_tasks', tasklist_next', tasklist_prev')
    BY <1>3, <1>10, <1>11, <1>13 DEF BothWays
  <1> QED BY <1>7, <1>14 DEF q

\* The same tasks are in use after a step as before it.
SameTasks == \A x \in Task : state'[x] = "STOPPED" <=> state[x] = "STOPPED"

\* A dispatch makes a task RUNNING that was RUNNABLE, or was requeued.
LEMMA SwitchKeepsTasks ==
  ASSUME LInv, TasksStart \/ PendSV \/ SysTickReturn
  PROVE  SameTasks
  <1>1. KP!IInv /\ KP!KernelAssumption /\ state \in [Task -> KP!TaskState]
    BY KernelAssumed, TypesAre DEF LInv
  <1>2. CASE TasksStart
    <2>1. KP!TasksStart
      BY <1>2, TasksStartStep
    <2>2. \E u \in Task : state[u] = "RUNNABLE" /\ state' = [state EXCEPT ![u] = "RUNNING"]
      BY <1>1, <2>1, KP!Dispatched DEF KP!TasksStart, KP!IInv, KP!TypeOK
    <2> QED BY <1>1, <2>2 DEF SameTasks
  <1>3. CASE PendSV
    <2>1. KP!PendSV
      BY <1>3, PendSVStep
    <2> QED BY <1>1, <2>1, KP!PendSVSwitches DEF KP!Switched, SameTasks
  <1>4. CASE SysTickReturn
    <2>1. KP!SysTickReturn
      BY <1>4, SysTickReturnStep
    <2>2. state[current_task] \in {"RUNNING", "SUSPENDED"}
      BY <1>1, <2>1 DEF KP!IInv, KP!CurrentOwnsCPU, KP!SysTickReturn
    <2> QED BY <1>1, <2>1, <2>2, KP!SysTickSwitches DEF KP!Switched, SameTasks
  <1> QED BY <1>2, <1>3, <1>4

\* Only os_task_add and the return of a task function put a task in use and take
\* it out, and nothing else but os_task_init touches the list.
LEMMA WhoseTasks ==
  ASSUME LInv, [Next]_vars
  PROVE  \/ \E t \in Task : TaskAdd(t) \/ TaskReturn(t) \/ \E p \in Level : TaskInit(t, p)
         \/ SameTasks /\ UNCHANGED allTasksVars
  <1>1. KP!IInv /\ KP!KernelAssumption /\ state \in [Task -> KP!TaskState]
    BY KernelAssumed, TypesAre DEF LInv
  <1>2. CASE TasksStart \/ PendSV \/ SysTickReturn
    BY <1>2, SwitchKeepsTasks DEF TasksStart, PendSV, SysTickReturn
  <1>3. CASE WakeUpTask
    <2>1. /\ state' = [state EXCEPT ![sleepqueue_head] = "RUNNABLE"]
          /\ UNCHANGED allTasksVars
      BY <1>3 DEF WakeUpTask
    <2>2. sleepqueue_head = Head(sleepqueue) /\ sleepqueue # <<>> /\ sleepqueue \in Seq(Task)
      BY <1>3, FirstSleeper DEF WakeUpTask, MustWake
    <2>3. Head(sleepqueue) \in Range(sleepqueue)
      BY <2>2, ListsAre, TailRemoves DEF LInv
    <2>4. state[sleepqueue_head] = "SLEEPING"
      BY <2>2, <2>3, ListsAre DEF LInv
    <2> QED BY <1>1, <2>1, <2>4 DEF SameTasks
  <1>4. CASE Other
    <2>1. CASE K!SysTick
      BY <1>4, <2>1 DEF Other, K!SysTick, SameTasks
    <2>2. ASSUME NEW t \in Task, K!TaskYield(t) \/ K!SuspendSelfYield(t)
          PROVE  SameTasks
      BY <2>2 DEF K!TaskYield, K!SuspendSelfYield, K!taskVars, SameTasks
    <2>3. ASSUME NEW t \in Task, K!SuspendSelfMark(t)
          PROVE  SameTasks
      <3>1. state[t] = "RUNNING" /\ state' = [state EXCEPT ![t] = "SUSPENDED"]
        BY <1>1, <2>3, SameConditions, KP!CallerRuns DEF K!SuspendSelfMark
      <3> QED BY <1>1, <3>1 DEF SameTasks
    <2>4. ASSUME NEW t \in Task, NEW r \in Resource, K!ResourceAcquire(t, r)
          PROVE  SameTasks
      BY <2>4 DEF K!ResourceAcquire, SameTasks
    <2> QED BY <1>4, <2>1, <2>2, <2>3, <2>4 DEF Other
  <1>5. ASSUME NEW other \in Task, Unsuspend(other)
        PROVE  SameTasks /\ UNCHANGED allTasksVars
    BY <1>1, <1>5 DEF Unsuspend, SameTasks
  <1>6. ASSUME NEW t \in Task, NEW n \in 0 .. MaxSleep, TaskSleep(t, n)
        PROVE  SameTasks /\ UNCHANGED allTasksVars
    <2>1. /\ state[t] = "RUNNING" /\ state' = [state EXCEPT ![t] = "SLEEPING"]
          /\ UNCHANGED allTasksVars
      BY <1>1, <1>6, SameConditions, KP!CallerRuns DEF TaskSleep
    <2> QED BY <1>1, <2>1 DEF SameTasks
  <1>7. ASSUME NEW t \in Task, NEW r \in Resource, ResourceWait(t, r)
        PROVE  SameTasks /\ UNCHANGED allTasksVars
    <2>1. /\ state[t] = "RUNNING" /\ state' = [state EXCEPT ![t] = "WAITING_FOR_RESOURCE"]
          /\ UNCHANGED allTasksVars
      BY <1>1, <1>7, SameConditions, KP!CallerRuns DEF ResourceWait
    <2> QED BY <1>1, <2>1 DEF SameTasks
  <1>8. ASSUME NEW t \in Task, NEW r \in Resource, ResourceRelease(t, r)
        PROVE  SameTasks /\ UNCHANGED allTasksVars
    <2>1. KP!ResourceRelease(t, r) /\ UNCHANGED allTasksVars
      BY <1>8, ResourceReleaseStep DEF ResourceRelease
    <2>2. CASE waiting[r] = <<>>
      BY <2>1, <2>2 DEF KP!ResourceRelease, SameTasks
    <2>3. CASE waiting[r] # <<>>
      <3>1. state' = [state EXCEPT ![Head(waiting[r])] = "RUNNABLE"]
        BY <2>1, <2>3 DEF KP!ResourceRelease
      <3>2. /\ waiting[r] \in Seq(Task) /\ IsInjective(waiting[r])
            /\ \A x \in Range(waiting[r]) : state[x] = "WAITING_FOR_RESOURCE"
        BY ListsAre DEF LInv
      <3>3. Head(waiting[r]) \in Range(waiting[r])
        BY <2>3, <3>2, TailRemoves
      <3> QED BY <1>1, <2>1, <3>1, <3>2, <3>3 DEF SameTasks
    <2> QED BY <2>2, <2>3
  <1>9. CASE UNCHANGED vars
    <2>1. state' = state /\ UNCHANGED allTasksVars
      BY <1>9 DEF vars
    <2> QED BY <2>1 DEF SameTasks
  <1>10. ASSUME NEW t \in Task,
                \/ \E other \in Task : TaskUnsuspend(t, other)
                \/ IsrUnsuspend(t)
         PROVE  SameTasks /\ UNCHANGED allTasksVars
    BY <1>5, <1>10 DEF TaskUnsuspend, IsrUnsuspend
  <1> QED BY <1>2, <1>3, <1>4, <1>6, <1>7, <1>8, <1>9, <1>10 DEF Next, Other

\* Every step keeps the list of all tasks linked in both directions.
LEMMA AllStep ==
  ASSUME AInv, [Next]_vars
  PROVE  AInv'
  <1>1. LInv'
    BY ListsStep DEF AInv
  <1>2. PICK s : InUse(s, state) /\ BothWays(s, all_tasks, tasklist_next, tasklist_prev)
    BY DEF AInv, AllLinked
  <1>3. /\ s \in Seq(Task) /\ IsInjective(s) /\ AllTypes
        /\ Range(s) = {t \in Task : state[t] # "STOPPED"}
        /\ state \in [Task -> KP!TaskState]
    BY <1>2, TypesAre DEF AInv, LInv, AllLinked, InUse
  <1>4. ASSUME NEW t \in Task, TaskAdd(t)
        PROVE  AllLinked'
    <2>1. /\ state[t] = "STOPPED" /\ state' = [state EXCEPT ![t] = "RUNNABLE"]
          /\ JoinAllTasks(t)
      BY <1>4 DEF TaskAdd
    <2>2. t \notin Range(s)
      BY <1>3, <2>1
    <2>3. AllTypes' /\ BothWays(Append(s, t), all_tasks', tasklist_next', tasklist_prev')
      BY <1>2, <1>3, <2>1, <2>2, Appended
    <2> DEFINE q == Append(s, t)
    <2>4. Inserted(Task, s, q, Len(s) + 1, t)
      BY <1>3, AppendInserts
    <2> HIDE DEF q
    <2>5. q \in Seq(Task) /\ IsInjective(q) /\ Range(q) = Range(s) \cup {t}
      BY <1>3, <2>2, <2>4, InsertedRange DEF Inserted
    <2>6. InUse(q, state')
      BY <1>3, <2>1, <2>5 DEF InUse
    <2> QED BY <2>3, <2>6 DEF AllLinked, q
  <1>5. ASSUME NEW t \in Task, TaskReturn(t)
        PROVE  AllLinked'
    <2>1. /\ state[t] = "RUNNING" /\ state' = [state EXCEPT ![t] = "STOPPED"]
          /\ LeaveAllTasks(t)
      BY <1>5, KernelAssumed, SameConditions, KP!CallerRuns
         DEF TaskReturn, K!TaskReturn, AInv, LInv
    <2>2. t \in Range(s)
      BY <1>3, <2>1
    <2>3. PICK k \in 1 .. Len(s) : s[k] = t
      BY <1>3, <2>2, Indices
    <2>4. AllTypes' /\ BothWays(Without(s, k), all_tasks', tasklist_next', tasklist_prev')
      BY <1>2, <1>3, <2>1, <2>3, Unlinked
    <2>5. InUse(Without(s, k), state')
      <3>1. /\ Without(s, k) \in Seq(Task) /\ IsInjective(Without(s, k))
            /\ Range(Without(s, k)) = Range(s) \ {t}
        BY <1>3, <2>3, WithoutOne
      <3> QED BY <1>3, <2>1, <3>1 DEF InUse
    <2> QED BY <2>4, <2>5 DEF AllLinked
  <1>6. ASSUME NEW t \in Task, NEW p \in Level, TaskInit(t, p)
        PROVE  AllLinked'
    <2>1. /\ state[t] = "STOPPED" /\ state' = state /\ all_tasks' = all_tasks
          /\ tasklist_prev' = [tasklist_prev EXCEPT ![t] = NULL]
          /\ tasklist_next' = [tasklist_next EXCEPT ![t] = NULL]
      BY <1>6 DEF TaskInit
    <2>2. AllTypes'
      BY <1>3, <2>1 DEF AllTypes, MaybeTask
    <2>3. \A i \in 1 .. Len(s) : s[i] \in Task /\ s[i] # t
      BY <1>3, <2>1, Indices
    <2>4. \A i \in 1 .. Len(s) : /\ tasklist_next'[s[i]] = tasklist_next[s[i]]
                                 /\ tasklist_prev'[s[i]] = tasklist_prev[s[i]]
      BY <1>3, <2>1, <2>3 DEF AllTypes
    <2>5. BothWays(s, all_tasks', tasklist_next', tasklist_prev')
      BY <1>2, <2>1, <2>4 DEF BothWays
    <2> QED BY <1>2, <2>1, <2>2, <2>5 DEF AllLinked
  <1>7. ASSUME SameTasks /\ UNCHANGED allTasksVars
        PROVE  AllLinked'
    <2>1. AllTypes' /\ BothWays(s, all_tasks', tasklist_next', tasklist_prev')
      BY <1>2, <1>3, <1>7 DEF allTasksVars, AllTypes
    <2>2. InUse(s, state')
      BY <1>3, <1>7 DEF SameTasks, InUse
    <2> QED BY <2>1, <2>2 DEF AllLinked
  <1>8. \/ \E t \in Task : TaskAdd(t) \/ TaskReturn(t) \/ \E p \in Level : TaskInit(t, p)
        \/ SameTasks /\ UNCHANGED allTasksVars
    BY WhoseTasks DEF AInv
  <1>9. AllLinked'
    BY <1>4, <1>5, <1>6, <1>7, <1>8
  <1> QED BY <1>1, <1>9 DEF AInv

\* Every task is in the list of all tasks from os_task_add to the end of its
\* function, once, and the list reads the same in both directions: __task_runner
\* can unlink a task from wherever it is.
THEOREM AllTasksAreLinked == Spec => []AllTasksLinked
  <1>1. Init => AInv
    <2> SUFFICES ASSUME Init PROVE AInv
      OBVIOUS
    <2>1. /\ all_tasks = OnlyOne(Idle)
          /\ tasklist_prev = [t \in Task |-> NULL]
          /\ tasklist_next = [t \in Task |-> NULL]
          /\ state = [t \in Task |-> IF t = Idle THEN "RUNNABLE" ELSE "STOPPED"]
          /\ Idle \in Task
      BY ListsAssumption DEF Init, K!Init
    <2>2. AllTypes
      BY <2>1 DEF AllTypes, Group, OnlyOne, MaybeTask
    <2>3. InUse(<<Idle>>, state)
      <3>1. <<Idle>> \in Seq(Task) /\ IsInjective(<<Idle>>) /\ Range(<<Idle>>) = {Idle}
        BY <2>1, SingletonList
      <3> QED BY <2>1, <3>1 DEF InUse
    <2>4. BothWays(<<Idle>>, all_tasks, tasklist_next, tasklist_prev)
      BY <2>1 DEF BothWays, OnlyOne
    <2> QED BY <2>2, <2>3, <2>4, InitLinked DEF AInv, AllLinked
  <1>2. AInv /\ [Next]_vars => AInv'
    BY AllStep
  <1>3. AInv => AllTasksLinked
    <2> SUFFICES ASSUME AInv PROVE AllTasksLinked
      OBVIOUS
    <2>1. PICK s : InUse(s, state) /\ BothWays(s, all_tasks, tasklist_next, tasklist_prev)
      BY DEF AInv, AllLinked
    <2>2. s \in Seq(Task) /\ IsInjective(s) /\ Range(s) = {t \in Task : state[t] # "STOPPED"}
      BY <2>1 DEF InUse
    <2>3. /\ Chain(all_tasks.first, tasklist_next) = s
          /\ Len(Chain(all_tasks.last, tasklist_prev)) = Len(s)
          /\ \A i \in DOMAIN s : Chain(all_tasks.last, tasklist_prev)[Len(s) + 1 - i] = s[i]
      BY <2>1, <2>2, ReadsBack
    <2> QED BY <2>2, <2>3 DEF AllTasksLinked
  <1> QED BY <1>1, <1>2, <1>3, PTL DEF Spec
=============================================================================
