---------------------------- MODULE NewlibProofs ----------------------------
(***************************************************************************)
(* Theorems about the context switch and the system calls under newlib,    *)
(* for any number of tasks, any depth of their stacks and any size of the  *)
(* heap.  The first part is about Context alone.                           *)
(***************************************************************************)
EXTENDS Newlib, SequenceTheorems, TLAPS

\* The frame of a task, in values.
FrameSize(t) == IF exc_ret[t] = "fpu" THEN 5 ELSE 3

\* The frame of a task that does not run: it is where its stack pointer says, of
\* the size that its exc_ret says, and before its first run as os_task_init left
\* it.
FrameOK(t) ==
  /\ stack[t] + FrameSize(t) \in StackTop - MaxOwn .. StackTop
  /\ IF exc_ret[t] = "fpu"
       THEN \A i \in {0, 1, 2, 4} : memory[t][stack[t] + i] \in Value
       ELSE \A i \in {0, 1} : memory[t][stack[t] + i] \in Value
  /\ life[t] = "created" => /\ stack[t] = StackTop - 3
                            /\ exc_ret[t] = "basic"
                            /\ memory[t][StackTop - 1] = t

\* Frames are as they must be, and only r0 ever points to a task_t by itself.
CInv ==
  /\ TypeOK
  /\ \A g \in {"lo", "hi", "fplo", "fphi"} : cpu[g] \in Value
  /\ core = "m0" => \A t \in Task : exc_ret[t] = "basic"
  /\ \A t \in Task : t # current_task /\ CanRun(t) => FrameOK(t)
  /\ current_task # NULL => life[current_task] # "created"
  /\ current_task = NULL => \A t \in Task : life[t] # "live"

-----------------------------------------------------------------------------
\* After os_init there is the frame of idle_task, and no other task.
LEMMA CInvInit == Init => CInv
  <1> SUFFICES ASSUME Init PROVE CInv
    OBVIOUS
  <1> USE ContextAssumption
  <1>1. StackTop \in Nat /\ StackTop = MaxOwn + 6 /\ Address = 1 .. StackTop + 4
    BY DEF StackTop, Address
  <1>2. \A a \in Address : NewStack(Idle)[a] = IF a = StackTop - 1 THEN Idle ELSE 0
    BY <1>1 DEF NewStack, NewFrame, Store, Empty
  <1>3. NewStack(Idle) \in [Address -> Value \cup Task]
    BY <1>1, <1>2 DEF NewStack, Store
  <1>4. TypeOK
    <2>1. cpu \in [Group -> Value \cup Task] /\ psp \in StackTop - MaxOwn .. StackTop
      BY <1>1 DEF Init
    <2>2. memory \in [Task -> [Address -> Value \cup Task]]
      BY <1>1, <1>3 DEF Init, Empty
    <2>3. fpca \in BOOLEAN /\ (fpca => core = "m4f")
      BY DEF Init
    <2> QED BY <1>1, <2>1, <2>2, <2>3 DEF Init, TypeOK
  <1>5. ASSUME NEW t \in Task, CanRun(t) PROVE FrameOK(t)
    <2>1. t = Idle /\ memory[t] = NewStack(Idle) /\ stack[t] = StackTop - 3 /\ exc_ret[t] = "basic"
      BY <1>5 DEF Init, CanRun
    <2> QED BY <1>1, <1>2, <2>1 DEF FrameOK, FrameSize
  <1> QED BY <1>4, <1>5 DEF Init, CInv, Group

\* A frame does not care what happens to other tasks.
LEMMA FrameKept ==
  ASSUME NEW t \in Task, FrameOK(t), memory'[t] = memory[t], stack'[t] = stack[t],
         exc_ret'[t] = exc_ret[t], life'[t] = life[t]
  PROVE  FrameOK(t)'
  BY DEF FrameOK, FrameSize

\* os_task_init makes a frame, and touches no other task.
LEMMA TaskInitInv ==
  ASSUME CInv, NEW t \in Task, TaskInit(t)
  PROVE  CInv'
  <1> USE ContextAssumption
  <1>1. StackTop \in Nat /\ StackTop = MaxOwn + 6 /\ Address = 1 .. StackTop + 4
    BY DEF StackTop, Address
  <1>2. \A a \in Address : NewStack(t)[a] = IF a = StackTop - 1 THEN t ELSE 0
    BY <1>1 DEF NewStack, NewFrame, Store, Empty
  <1>3. NewStack(t) \in [Address -> Value \cup Task]
    BY <1>1, <1>2 DEF NewStack, Store
  <1>4. TypeOK'
    BY <1>1, <1>3 DEF CInv, TypeOK, TaskInit
  <1>5. FrameOK(t)'
    <2>1. /\ memory'[t] = NewStack(t) /\ stack'[t] = StackTop - 3 /\ exc_ret'[t] = "basic"
      BY DEF CInv, TypeOK, TaskInit
    <2> QED BY <1>1, <1>2, <2>1 DEF FrameOK, FrameSize
  <1>6. ASSUME NEW u \in Task, u # t, u # current_task, CanRun(u)' PROVE FrameOK(u)'
    <2>1. /\ memory'[u] = memory[u] /\ stack'[u] = stack[u] /\ exc_ret'[u] = exc_ret[u]
          /\ life'[u] = life[u]
      BY <1>6 DEF CInv, TypeOK, TaskInit
    <2> QED BY <1>6, <2>1, FrameKept DEF CInv, CanRun
  <1> QED BY <1>4, <1>5, <1>6 DEF CInv, TypeOK, TaskInit, CanRun

\* sched_start_tasks finds the frame of a task that has not run.
LEMMA StartInv ==
  ASSUME CInv, NEW t \in Task, StartTasks(t)
  PROVE  CInv'
  <1> USE ContextAssumption
  <1>1. StackTop \in Nat /\ StackTop = MaxOwn + 6 /\ Address = 1 .. StackTop + 4
    BY DEF StackTop, Address
  <1>2. memory[t][StackTop - 1] = t /\ stack[t] + 2 = StackTop - 1
    BY <1>1 DEF CInv, StartTasks, CanRun, FrameOK
  <1>3. cpu' = [cpu EXCEPT !.hw = t]
    BY <1>2 DEF StartTasks
  <1>4. Drop(memory[t], StackTop) \in [Address -> Value \cup Task]
    BY DEF CInv, TypeOK, Drop
  <1>5. TypeOK'
    <2>1. cpu' \in [Group -> Value \cup Task]
      BY <1>3 DEF CInv, TypeOK, Group
    <2>2. fpca' = FALSE
      BY DEF StartTasks
    <2>3. psp' \in StackTop - MaxOwn .. StackTop /\ stack' \in [Task -> 1 .. StackTop]
      BY <1>1 DEF CInv, TypeOK, StartTasks
    <2>4. memory' \in [Task -> [Address -> Value \cup Task]]
      BY <1>4 DEF CInv, TypeOK, StartTasks
    <2> QED BY <2>1, <2>2, <2>3, <2>4 DEF CInv, TypeOK, StartTasks
  <1>6. ASSUME NEW u \in Task, u # t, CanRun(u)' PROVE FrameOK(u)'
    <2>1. /\ memory'[u] = memory[u] /\ stack'[u] = stack[u] /\ exc_ret'[u] = exc_ret[u]
          /\ life'[u] = life[u] /\ u # current_task
      BY <1>6 DEF CInv, TypeOK, StartTasks
    <2> QED BY <1>6, <2>1, FrameKept DEF CInv, CanRun
  <1>7. \A g \in {"lo", "hi", "fplo", "fphi"} : cpu'[g] = cpu[g]
    BY <1>3 DEF CInv, TypeOK, Group
  <1>8. /\ current_task' = t /\ life'[t] = "live" /\ t # NULL
        /\ core' = core /\ exc_ret' = exc_ret
    BY DEF CInv, TypeOK, StartTasks
  <1> QED BY <1>5, <1>6, <1>7, <1>8 DEF CInv

\* What a task does concerns its own registers and stack only.
LEMMA ComputesInv ==
  ASSUME CInv, Computes \/ \E t \in Task : Return(t)
  PROVE  CInv'
  <1> USE ContextAssumption
  <1>1. StackTop \in Nat /\ StackTop = MaxOwn + 6 /\ Address = 1 .. StackTop + 4
    BY DEF StackTop, Address
  <1>2. ASSUME NEW t \in Task, NEW g \in Group, NEW v \in Value,
               Compute(t, g, v) \/ ComputeFp(t, g, v)
        PROVE  CInv'
    <2>1. /\ cpu' = [cpu EXCEPT ![g] = v]
          /\ UNCHANGED <<core, psp, memory, stack, exc_ret, current_task, life>>
      BY <1>2 DEF Compute, ComputeFp
    <2>2. fpca' \in BOOLEAN /\ (fpca' => core = "m4f")
      <3>1. CASE Compute(t, g, v)
        BY <3>1 DEF Compute, CInv, TypeOK
      <3>2. CASE ComputeFp(t, g, v)
        BY <3>2 DEF ComputeFp
      <3> QED BY <1>2, <3>1, <3>2
    <2>3. TypeOK'
      BY <2>1, <2>2 DEF CInv, TypeOK
    <2>4. \A h \in {"lo", "hi", "fplo", "fphi"} : cpu'[h] \in Value
      BY <2>1 DEF CInv, TypeOK, Group
    <2> QED BY <2>1, <2>3, <2>4 DEF CInv, FrameOK, FrameSize, CanRun
  <1>3. ASSUME NEW t \in Task, NEW stk \in [Address -> Value \cup Task],
               Runs(t), memory' = [memory EXCEPT ![t] = stk],
               psp' \in StackTop - MaxOwn .. StackTop,
               UNCHANGED <<core, cpu, fpca, stack, exc_ret, current_task, life>>
        PROVE  CInv'
    <2>1. TypeOK'
      BY <1>3 DEF CInv, TypeOK
    <2>2. \A u \in Task : u # current_task => memory'[u] = memory[u]
      BY <1>3 DEF CInv, TypeOK, Runs
    <2> QED BY <1>3, <2>1, <2>2, FrameKept DEF CInv, CanRun
  <1>4. ASSUME NEW t \in Task, NEW v \in Value, Push(t, v) PROVE CInv'
    <2>1. Store(memory[t], psp - 1, <<v>>) \in [Address -> Value \cup Task]
      BY <1>1 DEF CInv, TypeOK, Store
    <2>2. psp' \in StackTop - MaxOwn .. StackTop
      BY <1>1, <1>4 DEF CInv, TypeOK, Push
    <2> QED BY <1>3, <1>4, <2>1, <2>2 DEF Push
  <1>5. ASSUME NEW t \in Task, Pop(t) PROVE CInv'
    <2>1. Drop(memory[t], psp + 1) \in [Address -> Value \cup Task]
      BY <1>1 DEF CInv, TypeOK, Drop
    <2>2. psp' \in StackTop - MaxOwn .. StackTop
      BY <1>1, <1>5 DEF CInv, TypeOK, Pop
    <2> QED BY <1>3, <1>5, <2>1, <2>2 DEF Pop
  <1>6. ASSUME NEW t \in Task, Return(t) PROVE CInv'
    <2>1. TypeOK'
      BY <1>6 DEF CInv, TypeOK, Return
    <2>2. /\ \A u \in Task : u # current_task => life'[u] = life[u]
          /\ t = current_task /\ life'[t] = "stopped"
      BY <1>6 DEF CInv, TypeOK, Return, Runs
    <2> QED BY <1>6, <2>1, <2>2, FrameKept DEF CInv, CanRun, Return
  <1> QED BY <1>2, <1>4, <1>5, <1>6 DEF Computes, Group

-----------------------------------------------------------------------------
(* The switch.                                                             *)

Size == IF fpca THEN 5 ELSE 3

\* The words a of the stack stk are the frame of the registers of the processor.
Holds(stk, sp) ==
  IF fpca
    THEN /\ stk[sp] = cpu.fphi /\ stk[sp + 1] = cpu.lo /\ stk[sp + 2] = cpu.hi
         /\ stk[sp + 3] = cpu.hw /\ stk[sp + 4] = cpu.fplo
    ELSE stk[sp] = cpu.lo /\ stk[sp + 1] = cpu.hi /\ stk[sp + 2] = cpu.hw

\* The processor gets its registers from the frame at the words from sp on.
Loads(stk, sp, ret) ==
  IF ret = "fpu"
    THEN cpu' = [fphi |-> stk[sp], lo |-> stk[sp + 1], hi |-> stk[sp + 2],
                 hw |-> stk[sp + 3], fplo |-> stk[sp + 4]]
    ELSE cpu' = [cpu EXCEPT !.lo = stk[sp], !.hi = stk[sp + 1], !.hw = stk[sp + 2]]

\* The frame that the current task leaves on its stack.
LEMMA PushedFrame ==
  ASSUME CInv, NEW stk \in [Address -> Value \cup Task]
  PROVE  LET new == Store(stk, psp - Size, Pushed) IN
         /\ Len(Pushed) = Size /\ psp - Size \in Address /\ psp - Size >= 1
         /\ new \in [Address -> Value \cup Task]
         /\ Holds(new, psp - Size)
         /\ \A a \in Address : a >= psp => new[a] = stk[a]
  <1> USE ContextAssumption
  <1> DEFINE new == Store(stk, psp - Size, Pushed)
  <1>1. StackTop \in Nat /\ StackTop = MaxOwn + 6 /\ Address = 1 .. StackTop + 4
    BY DEF StackTop, Address
  <1>2. psp \in Int /\ psp >= 6 /\ psp <= StackTop
    BY <1>1 DEF CInv, TypeOK
  <1>3. /\ cpu.lo \in Value \cup Task /\ cpu.hi \in Value \cup Task /\ cpu.hw \in Value \cup Task
        /\ cpu.fplo \in Value \cup Task /\ cpu.fphi \in Value \cup Task
    BY DEF CInv, TypeOK, Group
  <1>4. CASE fpca
    <2>1. Pushed = <<cpu.fphi, cpu.lo, cpu.hi, cpu.hw, cpu.fplo>> /\ Size = 5
      BY <1>4 DEF Pushed, PushM4F, Size, CInv, TypeOK
    <2>2. new = [a \in Address |-> IF a \in psp - 5 .. psp - 1 THEN Pushed[a - (psp - 5) + 1]
                                                               ELSE stk[a]]
      BY <1>2, <2>1 DEF Store
    <2>3. \A a \in psp - 5 .. psp - 1 : /\ a \in Address /\ a - (psp - 5) + 1 \in 1 .. 5
      BY <1>1, <1>2
    <2>4. new \in [Address -> Value \cup Task]
      BY <1>3, <2>1, <2>2, <2>3
    <2>5. Holds(new, psp - 5)
      <3>1. psp - 5 \in Address /\ psp - 4 \in Address /\ psp - 3 \in Address
            /\ psp - 2 \in Address /\ psp - 1 \in Address
        BY <1>1, <1>2
      <3>2. /\ new[psp - 5] = cpu.fphi /\ new[psp - 4] = cpu.lo /\ new[psp - 3] = cpu.hi
            /\ new[psp - 2] = cpu.hw /\ new[psp - 1] = cpu.fplo
        <4>1. /\ new[psp - 5] = Pushed[1] /\ new[psp - 4] = Pushed[2]
              /\ new[psp - 3] = Pushed[3] /\ new[psp - 2] = Pushed[4]
              /\ new[psp - 1] = Pushed[5]
          BY ONLY <1>2, <2>2, <3>1
        <4>2. /\ Pushed[1] = cpu.fphi /\ Pushed[2] = cpu.lo /\ Pushed[3] = cpu.hi
              /\ Pushed[4] = cpu.hw /\ Pushed[5] = cpu.fplo
          BY ONLY <2>1
        <4> QED BY <4>1, <4>2
      <3>3. psp - 5 + 1 = psp - 4 /\ psp - 5 + 2 = psp - 3 /\ psp - 5 + 3 = psp - 2
            /\ psp - 5 + 4 = psp - 1
        BY <1>2
      <3> QED BY <1>4, <3>2, <3>3 DEF Holds
    <2>6. \A a \in Address : a >= psp => new[a] = stk[a]
      BY <1>1, <1>2, <2>2
    <2>7. Len(Pushed) = Size /\ psp - Size \in Address /\ psp - Size >= 1
      BY <1>1, <1>2, <2>1
    <2>8. Holds(new, psp - Size)
      BY <2>1, <2>5
    <2> QED BY <2>4, <2>6, <2>7, <2>8
  <1>5. CASE ~fpca
    <2>1. Pushed = <<cpu.lo, cpu.hi, cpu.hw>> /\ Size = 3
      BY <1>5 DEF Pushed, PushM4F, PushM0, Size
    <2>2. new = [a \in Address |-> IF a \in psp - 3 .. psp - 1 THEN Pushed[a - (psp - 3) + 1]
                                                               ELSE stk[a]]
      BY <1>2, <2>1 DEF Store
    <2>3. \A a \in psp - 3 .. psp - 1 : /\ a \in Address /\ a - (psp - 3) + 1 \in 1 .. 3
      BY <1>1, <1>2
    <2>4. new \in [Address -> Value \cup Task]
      BY <1>3, <2>1, <2>2, <2>3
    <2>5. Holds(new, psp - 3)
      <3>1. psp - 3 \in Address /\ psp - 2 \in Address /\ psp - 1 \in Address
        BY <1>1, <1>2
      <3>2. /\ new[psp - 3] = Pushed[1] /\ new[psp - 2] = Pushed[2] /\ new[psp - 1] = Pushed[3]
        BY <1>2, <2>2, <3>1
      <3>3. psp - 3 + 1 = psp - 2 /\ psp - 3 + 2 = psp - 1
        BY <1>2
      <3> QED BY <1>5, <2>1, <3>2, <3>3 DEF Holds
    <2>6. \A a \in Address : a >= psp => new[a] = stk[a]
      BY <1>1, <1>2, <2>2
    <2>7. Len(Pushed) = Size /\ psp - Size \in Address /\ psp - Size >= 1
      BY <1>1, <1>2, <2>1
    <2>8. Holds(new, psp - Size)
      BY <2>1, <2>5
    <2> QED BY <2>4, <2>6, <2>7, <2>8
  <1> QED BY <1>4, <1>5 DEF CInv, TypeOK

\* What a switch does to the task that is switched out.
LEMMA SwitchOut ==
  ASSUME CInv, NEW next \in Task, Switch(next), next # current_task
  PROVE  /\ current_task \in Task
         /\ stack'[current_task] = psp - Size
         /\ exc_ret'[current_task] = IF fpca THEN "fpu" ELSE "basic"
         /\ Holds(memory'[current_task], psp - Size)
         /\ \A a \in Address : a >= psp => memory'[current_task][a] = memory[current_task][a]
         /\ memory'[current_task] \in [Address -> Value \cup Task]
  <1>1. current_task \in Task /\ memory[current_task] \in [Address -> Value \cup Task]
    BY DEF CInv, TypeOK, Switch
  <1>2. Len(Pushed) = Size
    BY <1>1, PushedFrame
  <1>3. memory'[current_task] = Store(memory[current_task], psp - Size, Pushed)
    BY <1>1, <1>2 DEF Switch, CInv, TypeOK
  <1>4. stack'[current_task] = psp - Size
    BY <1>1, <1>2 DEF Switch, CInv, TypeOK
  <1>5. exc_ret'[current_task] = IF fpca THEN "fpu" ELSE "basic"
    BY <1>1 DEF Switch, CInv, TypeOK
  <1> QED BY <1>1, <1>3, <1>4, <1>5, PushedFrame

\* What is popped from a frame.
LEMMA PoppedFrame ==
  ASSUME CInv, NEW stk, NEW sp \in Int, NEW ret \in {"basic", "fpu"},
         core = "m0" => ret = "basic", cpu' = Popped(Words(stk, sp), ret).regs
  PROVE  /\ Loads(stk, sp, ret)
         /\ Popped(Words(stk, sp), ret).size = IF ret = "fpu" THEN 5 ELSE 3
         /\ Popped(Words(stk, sp), ret).fpca = (ret = "fpu")
  <1> DEFINE w == Words(stk, sp)
  <1>1. w[1] = stk[sp] /\ w[2] = stk[sp + 1] /\ w[3] = stk[sp + 2]
        /\ w[4] = stk[sp + 3] /\ w[5] = stk[sp + 4]
    BY DEF Words
  <1>4. w = Words(stk, sp) /\ cpu' = Popped(w, ret).regs
    OBVIOUS
  <1> HIDE DEF w
  <1>2. CASE ret = "fpu"
    <2>1. Popped(w, ret) = [regs |-> [fphi |-> w[1], lo |-> w[2], hi |-> w[3],
                                      hw |-> w[4], fplo |-> w[5]],
                            size |-> 5, fpca |-> TRUE]
      BY <1>2 DEF Popped, PopM4F, CInv, TypeOK
    <2>2. cpu' = [fphi |-> w[1], lo |-> w[2], hi |-> w[3], hw |-> w[4], fplo |-> w[5]]
      BY <1>4, <2>1
    <2>3. Loads(stk, sp, ret)
      BY <1>1, <1>2, <2>2 DEF Loads
    <2>4. Popped(w, ret).size = 5 /\ Popped(w, ret).fpca = TRUE
      BY <2>1
    <2> QED BY <1>2, <1>4, <2>3, <2>4
  <1>3. CASE ret = "basic"
    <2>1. Popped(w, ret) = [regs |-> [cpu EXCEPT !.lo = w[1], !.hi = w[2], !.hw = w[3]],
                            size |-> 3, fpca |-> FALSE]
      BY <1>3 DEF Popped, PopM4F, PopM0
    <2>2. cpu' = [cpu EXCEPT !.lo = w[1], !.hi = w[2], !.hw = w[3]]
      BY <1>4, <2>1
    <2>3. Loads(stk, sp, ret)
      BY <1>1, <1>3, <2>2 DEF Loads
    <2>4. Popped(w, ret).size = 3 /\ Popped(w, ret).fpca = FALSE
      BY <2>1
    <2> QED BY <1>3, <1>4, <2>3, <2>4
  <1> QED BY <1>2, <1>3

\* What a switch does for the task that is switched in.
LEMMA SwitchIn ==
  ASSUME CInv, NEW next \in Task, Switch(next), next # current_task
  PROVE  /\ FrameOK(next)
         /\ Loads(memory[next], stack[next], exc_ret[next])
         /\ fpca' = (exc_ret[next] = "fpu")
         /\ psp' = stack[next] + FrameSize(next)
         /\ memory'[next] = Drop(memory[next], psp')
         /\ stack'[next] = stack[next] /\ exc_ret'[next] = exc_ret[next]
  <1> DEFINE sp   == psp - Len(Pushed)
             old  == [memory EXCEPT ![current_task] = Store(@, sp, Pushed)]
             stk  == [stack EXCEPT ![current_task] = sp]
             ret  == [exc_ret EXCEPT ![current_task] = IF fpca THEN "fpu" ELSE "basic"]
             load == Popped(Words(old[next], stk[next]), ret[next])
  <1>1. old[next] = memory[next] /\ stk[next] = stack[next] /\ ret[next] = exc_ret[next]
    BY DEF CInv, TypeOK
  <1>2. /\ cpu' = load.regs /\ fpca' = load.fpca /\ psp' = stk[next] + load.size
        /\ memory' = [old EXCEPT ![next] = Drop(@, stk[next] + load.size)]
        /\ stack' = stk /\ exc_ret' = ret
    BY DEF Switch
  <1>3. DOMAIN old = Task
    BY DEF CInv, TypeOK
  <1> HIDE DEF old, stk, ret
  <1>4. stack[next] \in Int /\ exc_ret[next] \in {"basic", "fpu"}
        /\ (core = "m0" => exc_ret[next] = "basic")
    BY DEF CInv, TypeOK
  <1>5. load = Popped(Words(memory[next], stack[next]), exc_ret[next])
    BY <1>1
  <1> HIDE DEF load
  <1>6. /\ Loads(memory[next], stack[next], exc_ret[next])
        /\ load.size = FrameSize(next)
        /\ load.fpca = (exc_ret[next] = "fpu")
    BY <1>2, <1>4, <1>5, PoppedFrame DEF FrameSize
  <1>7. FrameOK(next)
    BY DEF CInv, Switch
  <1> QED BY <1>1, <1>2, <1>3, <1>6, <1>7

\* A switch from a task to itself changes nothing but what is dead.
LEMMA SwitchSelf ==
  ASSUME CInv, NEW next \in Task, Switch(next), next = current_task
  PROVE  /\ UNCHANGED <<core, cpu, fpca, psp, current_task, life>>
         /\ life[next] = "live"
         /\ memory'[next] \in [Address -> Value \cup Task]
         /\ \A a \in Address : a >= psp => memory'[next][a] = memory[next][a]
         /\ stack'[next] = psp - Size
  <1> DEFINE sp   == psp - Len(Pushed)
             new  == Store(memory[next], sp, Pushed)
             ret  == IF fpca THEN "fpu" ELSE "basic"
             load == Popped(Words(new, sp), ret)
  <1>1. /\ Len(Pushed) = Size /\ sp = psp - Size /\ sp \in Int
        /\ new \in [Address -> Value \cup Task] /\ Holds(new, sp)
        /\ \A a \in Address : a >= psp => new[a] = memory[next][a]
    <2>1. memory[next] \in [Address -> Value \cup Task]
      BY DEF CInv, TypeOK
    <2>2. psp - Size \in Int
      BY ContextAssumption DEF CInv, TypeOK, Size, StackTop
    <2> QED BY <2>1, <2>2, PushedFrame
  <1>2. /\ cpu' = load.regs /\ fpca' = load.fpca /\ psp' = sp + load.size
        /\ memory'[next] = Drop(new, sp + load.size)
        /\ stack'[next] = sp /\ current_task' = next /\ core' = core
        /\ life' = [life EXCEPT ![next] = "live"]
    BY DEF Switch, CInv, TypeOK
  <1>3. ret \in {"basic", "fpu"} /\ (core = "m0" => ret = "basic") /\ (ret = "fpu" <=> fpca)
    BY DEF CInv, TypeOK
  <1> HIDE DEF sp, new, ret
  <1>4. /\ Loads(new, sp, ret)
        /\ load.size = IF ret = "fpu" THEN 5 ELSE 3
        /\ load.fpca = (ret = "fpu")
    BY <1>1, <1>2, <1>3, PoppedFrame
  <1> HIDE DEF load
  <1>5. psp' = psp
    BY <1>1, <1>2, <1>3, <1>4, ContextAssumption DEF Size, CInv, TypeOK, StackTop
  <1>6. fpca' = fpca
    BY <1>2, <1>3, <1>4 DEF CInv, TypeOK
  <1>7. cpu' = cpu
    <2>1. cpu \in [Group -> Value \cup Task] /\ Group = {"hw", "lo", "hi", "fplo", "fphi"}
      BY DEF CInv, TypeOK, Group
    <2>2. CASE fpca
      <3>1. cpu' = [fphi |-> cpu.fphi, lo |-> cpu.lo, hi |-> cpu.hi, hw |-> cpu.hw, fplo |-> cpu.fplo]
        BY <1>1, <1>3, <1>4, <2>2 DEF Loads, Holds
      <3> QED BY <2>1, <3>1
    <2>3. CASE ~fpca
      <3>1. cpu' = [cpu EXCEPT !.lo = cpu.lo, !.hi = cpu.hi, !.hw = cpu.hw]
        BY <1>1, <1>3, <1>4, <2>3 DEF Loads, Holds
      <3> QED BY <2>1, <3>1
    <2> QED BY <2>2, <2>3
  <1>8. life[next] = "live" /\ life' = life
    BY <1>2 DEF CInv, TypeOK, Switch, CanRun
  <1>9. memory'[next] = Drop(new, psp)
    BY <1>2, <1>5
  <1>10. memory'[next] \in [Address -> Value \cup Task]
    BY <1>1, <1>9, ContextAssumption DEF Drop
  <1>11. ASSUME NEW a \in Address, a >= psp PROVE memory'[next][a] = memory[next][a]
    <2>1. a \in Int /\ psp \in Int
      BY ContextAssumption DEF Address, StackTop, CInv, TypeOK
    <2> QED BY <1>1, <1>9, <1>11, <2>1 DEF Drop
  <1>12. UNCHANGED <<core, cpu, fpca, psp, current_task, life>>
    BY <1>2, <1>5, <1>6, <1>7, <1>8
  <1> QED BY <1>1, <1>2, <1>8, <1>10, <1>11, <1>12

\* A switch leaves the tasks alone that it is not about.
LEMMA SwitchOthers ==
  ASSUME CInv, NEW next \in Task, Switch(next)
  PROVE  /\ current_task \in Task /\ current_task' = next /\ core' = core
         /\ \A u \in Task : u # next /\ u # current_task =>
              memory'[u] = memory[u] /\ stack'[u] = stack[u] /\ exc_ret'[u] = exc_ret[u]
         /\ life' = [life EXCEPT ![next] = "live"]
         /\ DOMAIN memory' = Task /\ DOMAIN stack' = Task /\ DOMAIN exc_ret' = Task
         /\ memory' = [u \in Task |-> memory'[u]]
         /\ stack' = [u \in Task |-> stack'[u]]
         /\ exc_ret' = [u \in Task |-> exc_ret'[u]]
  <1>1. current_task \in Task /\ current_task' = next /\ core' = core
        /\ life' = [life EXCEPT ![next] = "live"]
    BY DEF CInv, TypeOK, Switch
  <1>2. PICK x, y :
          memory' = [[memory EXCEPT ![current_task] = x] EXCEPT ![next] = y]
    BY DEF Switch
  <1>3. PICK sp : stack' = [stack EXCEPT ![current_task] = sp]
    BY DEF Switch
  <1>4. PICK er : exc_ret' = [exc_ret EXCEPT ![current_task] = er]
    BY DEF Switch
  <1>5. DOMAIN memory = Task /\ DOMAIN stack = Task /\ DOMAIN exc_ret = Task
    BY DEF CInv, TypeOK
  <1> QED BY <1>1, <1>2, <1>3, <1>4, <1>5

\* The frame that is left, and the one that is used.
LEMMA SwitchInv ==
  ASSUME CInv, NEW next \in Task, Switch(next)
  PROVE  CInv'
  <1> USE ContextAssumption
  <1>1. StackTop \in Nat /\ StackTop = MaxOwn + 6 /\ Address = 1 .. StackTop + 4
    BY DEF StackTop, Address
  <1>2. psp \in StackTop - MaxOwn .. StackTop /\ psp - Size \in 1 .. StackTop
    BY <1>1 DEF CInv, TypeOK, Size
  <1>3. life' \in [Task -> {"stopped", "created", "live"}] /\ life'[next] = "live"
    <2>1. life' = [life EXCEPT ![next] = "live"]
      BY SwitchOthers
    <2> QED BY <2>1 DEF CInv, TypeOK
  <1>4. ASSUME NEW u \in Task, u # current_task, u # next, CanRun(u)' PROVE FrameOK(u)'
    <2>1. life'[u] = life[u]
      BY <1>4, SwitchOthers DEF CInv, TypeOK
    <2> QED BY <1>4, <2>1, SwitchOthers, FrameKept DEF CInv, CanRun
  <1>5. CASE next = current_task
    <2>1. stack' \in [Task -> 1 .. StackTop]
      BY <1>2, <1>5, SwitchOthers, SwitchSelf DEF CInv, TypeOK
    <2>2. memory' \in [Task -> [Address -> Value \cup Task]]
      BY <1>5, SwitchOthers, SwitchSelf DEF CInv, TypeOK
    <2>3. exc_ret' = [exc_ret EXCEPT ![next] = IF fpca THEN "fpu" ELSE "basic"]
      BY <1>5 DEF Switch
    <2>4. /\ exc_ret' \in [Task -> {"basic", "fpu"}]
          /\ core = "m0" => \A t \in Task : exc_ret'[t] = "basic"
      BY <2>3 DEF CInv, TypeOK
    <2>5. UNCHANGED <<core, cpu, fpca, psp, current_task, life>>
      BY <1>5, SwitchSelf
    <2>6. TypeOK'
      BY <2>1, <2>2, <2>4, <2>5 DEF CInv, TypeOK
    <2>7. \A g \in {"lo", "hi", "fplo", "fphi"} : cpu'[g] \in Value
      BY <2>5 DEF CInv
    <2> QED BY <1>3, <1>4, <1>5, <2>4, <2>5, <2>6, <2>7 DEF CInv
  <1>6. CASE next # current_task
    <2>1. FrameOK(next) /\ stack[next] \in 1 .. StackTop
      BY <1>6, SwitchIn DEF CInv, TypeOK
    <2>2. psp' \in StackTop - MaxOwn .. StackTop
      BY <1>6, <2>1, SwitchIn DEF FrameOK
    <2>3. stack' \in [Task -> 1 .. StackTop]
      <3>1. stack'[next] = stack[next] /\ stack'[current_task] = psp - Size
        BY <1>6, SwitchIn, SwitchOut
      <3>2. /\ stack' = [u \in Task |-> stack'[u]]
            /\ \A u \in Task : u # next /\ u # current_task => stack'[u] = stack[u]
        BY SwitchOthers
      <3>3. \A u \in Task : stack'[u] \in 1 .. StackTop
        BY <1>2, <2>1, <3>1, <3>2 DEF CInv, TypeOK
      <3> QED BY <3>2, <3>3
    <2>4. Drop(memory[next], psp') \in [Address -> Value \cup Task]
      BY DEF CInv, TypeOK, Drop
    <2>5. memory' \in [Task -> [Address -> Value \cup Task]]
      BY <1>6, <2>4, SwitchIn, SwitchOut, SwitchOthers DEF CInv, TypeOK
    <2>6. exc_ret'[current_task] \in {"basic", "fpu"} /\ (core = "m0" => exc_ret'[current_task] = "basic")
      BY <1>6, SwitchOut DEF CInv, TypeOK
    <2>7. /\ exc_ret' \in [Task -> {"basic", "fpu"}]
          /\ core' = "m0" => \A t \in Task : exc_ret'[t] = "basic"
      <3>1. exc_ret'[next] = exc_ret[next] /\ core' = core
        BY <1>6, SwitchIn, SwitchOthers
      <3>2. /\ exc_ret' = [u \in Task |-> exc_ret'[u]]
            /\ \A u \in Task : u # next /\ u # current_task => exc_ret'[u] = exc_ret[u]
        BY SwitchOthers
      <3>3. \A u \in Task : /\ exc_ret'[u] \in {"basic", "fpu"}
                            /\ core = "m0" => exc_ret'[u] = "basic"
        BY <2>6, <3>1, <3>2 DEF CInv, TypeOK
      <3> QED BY <3>1, <3>2, <3>3
    <2>8. /\ cpu' \in [Group -> Value \cup Task]
          /\ \A g \in {"lo", "hi", "fplo", "fphi"} : cpu'[g] \in Value
      <3> DEFINE w(i) == memory[next][stack[next] + i]
      <3>1. \A i \in 0 .. 4 : stack[next] + i \in Address
        BY <1>1, <2>1
      <3>2. w(0) \in Value \cup Task /\ w(1) \in Value \cup Task /\ w(2) \in Value \cup Task
            /\ w(3) \in Value \cup Task /\ w(4) \in Value \cup Task
        BY <3>1 DEF CInv, TypeOK
      <3>3. stack[next] = stack[next] + 0
        BY <2>1
      <3>4. CASE exc_ret[next] = "fpu"
        <4>1. cpu' = [fphi |-> w(0), lo |-> w(1), hi |-> w(2), hw |-> w(3), fplo |-> w(4)]
          BY <1>6, <3>3, <3>4, SwitchIn DEF Loads
        <4>2. w(0) \in Value /\ w(1) \in Value /\ w(2) \in Value /\ w(4) \in Value
          BY <2>1, <3>4 DEF FrameOK
        <4> HIDE DEF w
        <4> QED BY <3>2, <4>1, <4>2 DEF Group
      <3>5. CASE exc_ret[next] # "fpu"
        <4>1. cpu' = [cpu EXCEPT !.lo = w(0), !.hi = w(1), !.hw = w(2)]
          BY <1>6, <3>3, <3>5, SwitchIn DEF Loads
        <4>2. w(0) \in Value /\ w(1) \in Value
          BY <2>1, <3>5 DEF FrameOK
        <4> HIDE DEF w
        <4> QED BY <3>2, <4>1, <4>2 DEF Group, CInv, TypeOK
      <3> QED BY <3>4, <3>5
    <2>9. fpca' \in BOOLEAN /\ (fpca' => core' = "m4f")
      BY <1>6, SwitchIn, SwitchOthers DEF CInv, TypeOK
    <2>10. TypeOK'
      BY <1>3, <2>2, <2>3, <2>5, <2>7, <2>8, <2>9, SwitchOthers DEF CInv, TypeOK
    <2>11. ASSUME NEW c \in Task, c = current_task PROVE FrameOK(c)'
      <3>1. /\ c \in Task /\ stack'[c] = psp - Size /\ Holds(memory'[c], psp - Size)
            /\ exc_ret'[c] = IF fpca THEN "fpu" ELSE "basic"
            /\ life'[c] = life[c] /\ life[c] # "created"
        <4>1. life' = [life EXCEPT ![next] = "live"] /\ c \in Task /\ c # NULL
          BY <1>6, <2>11, SwitchOthers
        <4>2. life'[c] = life[c] /\ life[c] # "created"
          BY <1>6, <2>11, <4>1 DEF CInv, TypeOK
        <4> QED BY <1>6, <2>11, <4>2, SwitchOut
      <3>2. cpu.lo \in Value /\ cpu.hi \in Value /\ cpu.fplo \in Value /\ cpu.fphi \in Value
        BY DEF CInv
      <3>3. psp - Size = psp - Size + 0 /\ psp - Size + Size = psp
        BY <1>2 DEF Size
      <3>4. stack'[c] + FrameSize(c)' \in StackTop - MaxOwn .. StackTop
        <4>1. (FrameSize(c))' = Size
          BY <3>1 DEF FrameSize, Size
        <4> QED BY <1>2, <3>1, <3>3, <4>1
      <3>5. IF exc_ret'[c] = "fpu"
              THEN \A i \in {0, 1, 2, 4} : memory'[c][stack'[c] + i] \in Value
              ELSE \A i \in {0, 1} : memory'[c][stack'[c] + i] \in Value
        BY <1>2, <3>1, <3>2, <3>3 DEF Holds
      <3>6. life'[c] # "created"
        BY <3>1
      <3> QED BY <3>4, <3>5, <3>6 DEF FrameOK
    <2>12. current_task' = next /\ core' = core /\ next # NULL
      BY SwitchOthers
    <2>13. \A t \in Task : t # current_task' /\ CanRun(t)' => FrameOK(t)'
      BY <1>4, <2>11, <2>12
    <2> QED BY <1>3, <2>7, <2>8, <2>10, <2>12, <2>13 DEF CInv
  <1> QED BY <1>5, <1>6

\* The invariant is inductive.
LEMMA CInvInductive == CInv /\ [Next]_vars => CInv'
  <1> SUFFICES ASSUME CInv, [Next]_vars PROVE CInv'
    OBVIOUS
  <1>1. CASE UNCHANGED vars
    BY <1>1 DEF vars, CInv, TypeOK, FrameOK, FrameSize, CanRun
  <1> QED BY <1>1, TaskInitInv, StartInv, ComputesInv, SwitchInv DEF Next

\* A task that does not run has its frame where its stack pointer says, and of
\* the size that its exc_ret says.
THEOREM FramesInvariance == Spec => []CInv
  BY CInvInit, CInvInductive, PTL DEF Spec

-----------------------------------------------------------------------------
(* Every task has a processor of its own.                                  *)

\* The registers of the task that runs, and those in a frame.
InCpu == [cpu EXCEPT !.fplo = IF fpca THEN @ ELSE NULL, !.fphi = IF fpca THEN @ ELSE NULL]

InFrame(stk, sp, ret) ==
  IF ret = "fpu"
    THEN [fphi |-> stk[sp], lo |-> stk[sp + 1], hi |-> stk[sp + 2], hw |-> stk[sp + 3],
          fplo |-> stk[sp + 4]]
    ELSE [lo |-> stk[sp], hi |-> stk[sp + 1], hw |-> stk[sp + 2],
          fplo |-> NULL, fphi |-> NULL]

Pushes(stk, sp) == SubSeq(stk, sp, StackTop - 1)

\* What the refinement mapping says of each task.
Mapping ==
  \A t \in Task :
    /\ RegistersOf[t] = IF life[t] # "live" THEN NULL
                        ELSE IF t = current_task THEN InCpu
                        ELSE InFrame(memory[t], stack[t], exc_ret[t])
    /\ OwnOf[t] = IF life[t] # "live" THEN <<>>
                  ELSE IF t = current_task THEN Pushes(memory[t], psp)
                  ELSE Pushes(memory[t], stack[t] + FrameSize(t))

\* The mapping, in terms of frames.
LEMMA Mapped == CInv => Mapping
  <1> SUFFICES ASSUME CInv, NEW t \in Task
               PROVE  /\ RegistersOf[t] = IF life[t] # "live" THEN NULL
                                          ELSE IF t = current_task THEN InCpu
                                          ELSE InFrame(memory[t], stack[t], exc_ret[t])
                      /\ OwnOf[t] = IF life[t] # "live" THEN <<>>
                                    ELSE IF t = current_task THEN Pushes(memory[t], psp)
                                    ELSE Pushes(memory[t], stack[t] + FrameSize(t))
    BY DEF Mapping
  <1>1. stack[t] \in Int /\ exc_ret[t] \in {"basic", "fpu"}
    BY ContextAssumption DEF CInv, TypeOK, StackTop
  <1>2. /\ Words(memory[t], stack[t])[1] = memory[t][stack[t]]
        /\ Words(memory[t], stack[t])[2] = memory[t][stack[t] + 1]
        /\ Words(memory[t], stack[t])[3] = memory[t][stack[t] + 2]
        /\ Words(memory[t], stack[t])[4] = memory[t][stack[t] + 3]
        /\ Words(memory[t], stack[t])[5] = memory[t][stack[t] + 4]
    BY <1>1 DEF Words
  <1>3. CASE t = current_task
    <2>1. Registers(t) = InCpu /\ StackPointer(t) = psp
      BY <1>3 DEF Registers, InCpu, StackPointer
    <2> QED BY <1>3, <2>1 DEF RegistersOf, OwnOf, Pushes
  <1>4. CASE t # current_task
    <2>1. Registers(t) = InFrame(memory[t], stack[t], exc_ret[t])
      BY <1>1, <1>2, <1>4 DEF Registers, InFrame
    <2>2. StackPointer(t) = stack[t] + FrameSize(t)
      BY <1>4 DEF StackPointer, FrameSize
    <2> QED BY <1>4, <2>1, <2>2 DEF RegistersOf, OwnOf, Pushes
  <1> QED BY <1>3, <1>4

\* What lies below the stack pointer does not matter.
LEMMA SamePushes ==
  ASSUME NEW stk, NEW new, NEW sp \in Int, \A a \in Address : a >= sp => new[a] = stk[a],
         sp >= 1
  PROVE  Pushes(new, sp) = Pushes(stk, sp)
  <1>1. StackTop \in Int /\ \A a \in sp .. StackTop - 1 : a \in Address
    BY ContextAssumption DEF StackTop, Address
  <1>2. \A a \in sp .. StackTop - 1 : new[a] = stk[a]
    BY <1>1
  <1> QED BY <1>1, <1>2 DEF Pushes

\* A frame holds what the registers held, and the registers get what it holds.
LEMMA HoldsAll ==
  ASSUME CInv, NEW stk, NEW sp, Holds(stk, sp)
  PROVE  InFrame(stk, sp, IF fpca THEN "fpu" ELSE "basic") = InCpu
  <1>1. cpu \in [Group -> Value \cup Task] /\ Group = {"hw", "lo", "hi", "fplo", "fphi"}
    BY DEF CInv, TypeOK, Group
  <1>2. CASE fpca
    <2>1. InCpu = cpu
      BY <1>1, <1>2 DEF InCpu
    <2>2. InFrame(stk, sp, "fpu") = [fphi |-> cpu.fphi, lo |-> cpu.lo, hi |-> cpu.hi,
                                     hw |-> cpu.hw, fplo |-> cpu.fplo]
      BY <1>2 DEF InFrame, Holds
    <2> QED BY <1>1, <1>2, <2>1, <2>2
  <1>3. CASE ~fpca
    <2>1. InCpu = [cpu EXCEPT !.fplo = NULL, !.fphi = NULL]
      BY <1>1, <1>3 DEF InCpu
    <2>2. InFrame(stk, sp, "basic") = [lo |-> cpu.lo, hi |-> cpu.hi, hw |-> cpu.hw,
                                       fplo |-> NULL, fphi |-> NULL]
      BY <1>3 DEF InFrame, Holds
    <2>3. InCpu = [lo |-> cpu.lo, hi |-> cpu.hi, hw |-> cpu.hw, fplo |-> NULL, fphi |-> NULL]
      BY <1>1, <2>1
    <2> QED BY <1>3, <2>2, <2>3
  <1> QED BY <1>2, <1>3

\* And the other way.
LEMMA LoadsAll ==
  ASSUME CInv, NEW stk, NEW sp, NEW ret, Loads(stk, sp, ret), fpca' = (ret = "fpu")
  PROVE  InCpu' = InFrame(stk, sp, ret)
  <1>1. cpu \in [Group -> Value \cup Task] /\ Group = {"hw", "lo", "hi", "fplo", "fphi"}
    BY DEF CInv, TypeOK, Group
  <1>2. CASE ret = "fpu"
    <2>1. cpu' = [fphi |-> stk[sp], lo |-> stk[sp + 1], hi |-> stk[sp + 2],
                  hw |-> stk[sp + 3], fplo |-> stk[sp + 4]]
      BY <1>2 DEF Loads
    <2>2. InCpu' = [cpu' EXCEPT !.fplo = @, !.fphi = @]
      BY <1>2 DEF InCpu
    <2>3. InCpu' = cpu'
      BY <2>1, <2>2
    <2> QED BY <1>2, <2>1, <2>3 DEF InFrame
  <1>3. CASE ret # "fpu"
    <2>1. cpu' = [cpu EXCEPT !.lo = stk[sp], !.hi = stk[sp + 1], !.hw = stk[sp + 2]]
      BY <1>3 DEF Loads
    <2>2. InCpu' = [cpu' EXCEPT !.fplo = NULL, !.fphi = NULL]
      BY <1>3 DEF InCpu
    <2>3. InCpu' = [lo |-> stk[sp], hi |-> stk[sp + 1], hw |-> stk[sp + 2],
                    fplo |-> NULL, fphi |-> NULL]
      BY <1>1, <2>1, <2>2
    <2> QED BY <1>3, <2>3 DEF InFrame
  <1> QED BY <1>2, <1>3

\* And after a step.
LEMMA MappedNext == CInv' => Mapping'
  BY Mapped, PTL

\* A step leaves the virtual processor of a task alone when neither its frame
\* nor what is above it changes.
LEMMA Untouched ==
  ASSUME Mapping, Mapping', NEW u \in Task, u # current_task, u # current_task',
         memory'[u] = memory[u], stack'[u] = stack[u], exc_ret'[u] = exc_ret[u],
         (life'[u] = "live") <=> (life[u] = "live")
  PROVE  RegistersOf'[u] = RegistersOf[u] /\ OwnOf'[u] = OwnOf[u]
  <1>1. FrameSize(u)' = FrameSize(u)
    BY DEF FrameSize
  <1>2. RegistersOf'[u] = RegistersOf[u]
    BY DEF Mapping
  <1>3. OwnOf'[u] = OwnOf[u]
    BY <1>1 DEF Mapping, Pushes
  <1> QED BY <1>2, <1>3

\* A step that concerns one task.
LEMMA StepOfOne ==
  ASSUME NEW t \in Task,
         \A u \in Task : u # t => RegistersOf'[u] = RegistersOf[u] /\ OwnOf'[u] = OwnOf[u]
  PROVE  /\ RegistersOf' = [RegistersOf EXCEPT ![t] = RegistersOf'[t]]
         /\ OwnOf' = [OwnOf EXCEPT ![t] = OwnOf'[t]]
         /\ RegistersOf'[t] = RegistersOf[t] => RegistersOf' = RegistersOf
         /\ OwnOf'[t] = OwnOf[t] => OwnOf' = OwnOf
  <1>1. /\ RegistersOf = [u \in Task |-> RegistersOf[u]]
        /\ RegistersOf' = [u \in Task |-> RegistersOf'[u]]
    BY DEF RegistersOf
  <1>2. OwnOf = [u \in Task |-> OwnOf[u]] /\ OwnOf' = [u \in Task |-> OwnOf'[u]]
    BY DEF OwnOf
  <1> QED BY <1>1, <1>2

-----------------------------------------------------------------------------
(* Each step is one of VirtualCpu.                                         *)

\* No task has a processor yet.
LEMMA InitRefines == Init => V!Init
  <1> SUFFICES ASSUME Init PROVE V!Init
    OBVIOUS
  <1>1. \A t \in Task : life[t] # "live"
    BY DEF Init
  <1> QED BY <1>1 DEF Init, V!Init, RegistersOf, OwnOf

\* os_task_init creates a task.
LEMMA TaskInitRefines ==
  ASSUME CInv, CInv', NEW t \in Task, TaskInit(t)
  PROVE  V!Create(t)
  <1>1. Mapping /\ Mapping'
    BY Mapped, MappedNext
  <1>2. ASSUME NEW u \in Task, u # t
        PROVE  RegistersOf'[u] = RegistersOf[u] /\ OwnOf'[u] = OwnOf[u]
    <2>1. /\ memory'[u] = memory[u] /\ stack'[u] = stack[u] /\ exc_ret'[u] = exc_ret[u]
          /\ life'[u] = life[u]
      BY <1>2 DEF CInv, TypeOK, TaskInit
    <2>2. UNCHANGED <<current_task, cpu, fpca, psp>>
      BY DEF TaskInit
    <2>3. CASE u = current_task
      BY <1>1, <2>1, <2>2, <2>3 DEF Mapping, InCpu, Pushes
    <2>4. CASE u # current_task
      BY <1>1, <2>1, <2>2, <2>4, Untouched
    <2> QED BY <2>3, <2>4
  <1>3. life[t] = "stopped" /\ life' = [life EXCEPT ![t] = "created"] /\ life'[t] = "created"
    BY DEF CInv, TypeOK, TaskInit
  <1>4. RegistersOf'[t] = RegistersOf[t] /\ OwnOf'[t] = OwnOf[t]
    BY <1>1, <1>3 DEF Mapping
  <1> QED BY <1>2, <1>3, <1>4, StepOfOne DEF V!Create

\* A task that returns loses its processor.
LEMMA ReturnRefines ==
  ASSUME CInv, CInv', NEW t \in Task, Return(t)
  PROVE  V!Return(t)
  <1>1. Mapping /\ Mapping'
    BY Mapped, MappedNext
  <1>2. /\ life[t] = "live" /\ life' = [life EXCEPT ![t] = "stopped"] /\ life'[t] = "stopped"
        /\ \A u \in Task : u # t => life'[u] = life[u]
        /\ current_task = t /\ UNCHANGED <<memory, stack, exc_ret, current_task>>
    BY DEF CInv, TypeOK, Return, Runs
  <1>3. ASSUME NEW u \in Task, u # t
        PROVE  RegistersOf'[u] = RegistersOf[u] /\ OwnOf'[u] = OwnOf[u]
    BY <1>1, <1>2, <1>3, Untouched
  <1>4. RegistersOf'[t] = NULL /\ OwnOf'[t] = <<>>
    BY <1>1, <1>2 DEF Mapping
  <1> QED BY <1>2, <1>3, <1>4, StepOfOne DEF V!Return

\* The first task starts.
LEMMA StartRefines ==
  ASSUME CInv, CInv', NEW t \in Task, StartTasks(t)
  PROVE  V!Start(t)
  <1>1. Mapping /\ Mapping'
    BY Mapped, MappedNext
  <1>2. StackTop \in Int /\ StackTop = MaxOwn + 6
    BY ContextAssumption DEF StackTop
  <1>3. /\ life[t] = "created" /\ life' = [life EXCEPT ![t] = "live"] /\ life'[t] = "live"
        /\ current_task = NULL /\ current_task' = t
    BY DEF CInv, TypeOK, StartTasks, CanRun
  <1>4. ASSUME NEW u \in Task, u # t
        PROVE  RegistersOf'[u] = RegistersOf[u] /\ OwnOf'[u] = OwnOf[u]
    <2>1. /\ memory'[u] = memory[u] /\ stack'[u] = stack[u] /\ exc_ret'[u] = exc_ret[u]
          /\ life'[u] = life[u]
      BY <1>4 DEF CInv, TypeOK, StartTasks
    <2> QED BY <1>1, <1>3, <1>4, <2>1, Untouched, ContextAssumption
  <1>5. cpu' = [cpu EXCEPT !.hw = t] /\ fpca' = FALSE /\ psp' = StackTop
    <2>1. memory[t][StackTop - 1] = t /\ stack[t] + 2 = StackTop - 1
      BY <1>2, <1>3, ContextAssumption DEF CInv, FrameOK, CanRun
    <2> QED BY <2>1 DEF StartTasks
  <1>6. InCpu' = [hw |-> t, lo |-> cpu.lo, hi |-> cpu.hi, fplo |-> NULL, fphi |-> NULL]
    <2>1. InCpu' = [cpu' EXCEPT !.fplo = NULL, !.fphi = NULL]
      BY <1>5 DEF InCpu
    <2> QED BY <1>5, <2>1 DEF CInv, TypeOK, Group
  <1>7. RegistersOf'[t] = InCpu'
    BY <1>1, <1>3 DEF Mapping
  <1>8. OwnOf'[t] = <<>>
    <2>1. OwnOf'[t] = Pushes(memory'[t], psp')
      BY <1>1, <1>3 DEF Mapping
    <2>2. Pushes(memory'[t], StackTop) = <<>>
      BY <1>2, SubSeqEmpty DEF Pushes
    <2> QED BY <1>5, <2>1, <2>2
  <1>9. OwnOf[t] = <<>>
    BY <1>1, <1>3 DEF Mapping
  <1>10. cpu.lo \in Value /\ cpu.hi \in Value
    BY DEF CInv
  <1> QED BY <1>3, <1>4, <1>6, <1>7, <1>8, <1>9, <1>10, StepOfOne DEF V!Start

\* What the task that runs does with its registers.
LEMMA ComputeRefines ==
  ASSUME CInv, CInv', NEW t \in Task, NEW v \in Value,
         NEW g \in Group,
         \/ g \in {"hw", "lo", "hi"} /\ Compute(t, g, v)
         \/ g \in {"fplo", "fphi"} /\ ComputeFp(t, g, v)
  PROVE  \/ g \in {"hw", "lo", "hi"} /\ V!Compute(t, g, v)
         \/ g \in {"fplo", "fphi"} /\ RegistersOf[t].fplo # NULL /\ V!Compute(t, g, v)
         \/ V!FirstUseOfFpu(t)
  <1>1. Mapping /\ Mapping'
    BY Mapped, MappedNext
  <1>2. /\ current_task = t /\ life[t] = "live"
        /\ cpu' = [cpu EXCEPT ![g] = v]
        /\ UNCHANGED <<psp, memory, stack, exc_ret, current_task, life>>
    BY DEF Compute, ComputeFp, Runs
  <1>3. ASSUME NEW u \in Task, u # t
        PROVE  RegistersOf'[u] = RegistersOf[u] /\ OwnOf'[u] = OwnOf[u]
    BY <1>1, <1>2, <1>3, Untouched
  <1>4. OwnOf'[t] = OwnOf[t]
    BY <1>1, <1>2 DEF Mapping, Pushes
  <1>5. RegistersOf[t] = InCpu /\ RegistersOf'[t] = InCpu'
    BY <1>1, <1>2 DEF Mapping
  <1>6. cpu \in [Group -> Value \cup Task] /\ Group = {"hw", "lo", "hi", "fplo", "fphi"}
    BY DEF CInv, TypeOK, Group
  <1>7. cpu' \in [Group -> Value \cup Task] /\ cpu'.fplo \in Value /\ cpu'.fphi \in Value
        /\ cpu.fplo \in Value /\ cpu.fphi \in Value
    BY DEF CInv, TypeOK
  <1>8. /\ OwnOf' = OwnOf
        /\ RegistersOf' = [RegistersOf EXCEPT ![t] = InCpu']
    BY <1>3, <1>4, <1>5, StepOfOne
  <1>9. CASE g \in {"hw", "lo", "hi"} /\ Compute(t, g, v)
    <2>1. fpca' = fpca
      BY <1>9 DEF Compute
    <2>2. InCpu' = [InCpu EXCEPT ![g] = v]
      <3>1. CASE fpca
        <4>1. InCpu = cpu /\ InCpu' = cpu'
          BY <1>6, <1>7, <2>1, <3>1 DEF InCpu
        <4> QED BY <1>2, <4>1
      <3>2. CASE ~fpca
        <4>1. InCpu = [cpu EXCEPT !.fplo = NULL, !.fphi = NULL]
          BY <1>6, <3>2 DEF InCpu
        <4>2. InCpu' = [cpu' EXCEPT !.fplo = NULL, !.fphi = NULL]
          BY <2>1, <1>7, <3>2 DEF InCpu
        <4> QED BY <1>2, <1>6, <1>9, <4>1, <4>2
      <3> QED BY <3>1, <3>2
    <2>3. RegistersOf' = [RegistersOf EXCEPT ![t][g] = v]
      BY <1>5, <1>8, <2>2
    <2> QED BY <1>2, <1>8, <1>9, <2>3 DEF V!Compute
  <1>10. CASE g \in {"fplo", "fphi"} /\ ComputeFp(t, g, v) /\ fpca
    <2>1. InCpu = cpu /\ InCpu' = cpu'
      BY <1>6, <1>7, <1>10 DEF InCpu, ComputeFp
    <2>2. RegistersOf' = [RegistersOf EXCEPT ![t][g] = v]
      BY <1>2, <1>5, <1>8, <2>1
    <2>3. RegistersOf[t].fplo # NULL
      BY <1>5, <1>7, <2>1, ContextAssumption
    <2> QED BY <1>2, <1>8, <1>10, <2>2, <2>3 DEF V!Compute
  <1>11. CASE g \in {"fplo", "fphi"} /\ ComputeFp(t, g, v) /\ ~fpca
    <2>1. InCpu = [cpu EXCEPT !.fplo = NULL, !.fphi = NULL] /\ InCpu' = cpu'
      <3>1. InCpu' = [cpu' EXCEPT !.fplo = @, !.fphi = @]
        BY <1>11 DEF InCpu, ComputeFp
      <3> QED BY <1>6, <1>7, <1>11, <3>1 DEF InCpu
    <2>2. InCpu' = [InCpu EXCEPT !.fplo = cpu'.fplo, !.fphi = cpu'.fphi]
      BY <1>2, <1>6, <1>7, <1>11, <2>1
    <2>3. RegistersOf' = [RegistersOf EXCEPT ![t].fplo = cpu'.fplo, ![t].fphi = cpu'.fphi]
      <3>1. [RegistersOf EXCEPT ![t].fplo = cpu'.fplo, ![t].fphi = cpu'.fphi]
              = [RegistersOf EXCEPT ![t] = [InCpu EXCEPT !.fplo = cpu'.fplo, !.fphi = cpu'.fphi]]
        BY <1>5 DEF RegistersOf
      <3> QED BY <1>8, <2>2, <3>1
    <2>4. RegistersOf[t].fplo = NULL
      BY <1>5, <1>6, <2>1
    <2> QED BY <1>2, <1>7, <1>8, <2>3, <2>4 DEF V!FirstUseOfFpu
  <1> QED BY <1>9, <1>10, <1>11

\* What it pushes and pops.
LEMMA PushPopRefines ==
  ASSUME CInv, CInv', NEW t \in Task, NEW v \in Value, Push(t, v) \/ Pop(t)
  PROVE  V!Push(t, v) \/ V!Pop(t)
  <1>1. Mapping /\ Mapping'
    BY Mapped, MappedNext
  <1>2. StackTop \in Nat /\ StackTop = MaxOwn + 6 /\ MaxOwn \in Nat /\ Address = 1 .. StackTop + 4
    BY ContextAssumption DEF StackTop, Address
  <1>3. /\ current_task = t /\ life[t] = "live"
        /\ UNCHANGED <<cpu, fpca, stack, exc_ret, current_task, life>>
        /\ \A u \in Task : u # t => memory'[u] = memory[u]
    BY DEF Push, Pop, Runs, CInv, TypeOK
  <1>4. ASSUME NEW u \in Task, u # t
        PROVE  RegistersOf'[u] = RegistersOf[u] /\ OwnOf'[u] = OwnOf[u]
    BY <1>1, <1>3, <1>4, Untouched
  <1>5. RegistersOf' = RegistersOf /\ OwnOf' = [OwnOf EXCEPT ![t] = OwnOf'[t]]
    <2>1. RegistersOf'[t] = RegistersOf[t]
      BY <1>1, <1>3 DEF Mapping, InCpu
    <2> QED BY <1>4, <2>1, StepOfOne
  <1>6. /\ OwnOf[t] = Pushes(memory[t], psp) /\ OwnOf'[t] = Pushes(memory'[t], psp')
        /\ memory[t] \in [Address -> Value \cup Task] /\ memory'[t] \in [Address -> Value \cup Task]
        /\ psp \in StackTop - MaxOwn .. StackTop /\ psp' \in StackTop - MaxOwn .. StackTop
    BY <1>1, <1>3 DEF Mapping, CInv, TypeOK
  <1>7. /\ memory[t] \in Seq(Value \cup Task) /\ Len(memory[t]) = StackTop + 4
        /\ memory'[t] \in Seq(Value \cup Task) /\ Len(memory'[t]) = StackTop + 4
    BY <1>2, <1>6
  <1>8. CASE Push(t, v)
    <2>1. psp' = psp - 1 /\ memory'[t] = Store(memory[t], psp - 1, <<v>>)
      BY <1>8 DEF Push, CInv, TypeOK
    <2>2. memory'[t][psp - 1] = v /\ \A a \in Address : a >= psp => memory'[t][a] = memory[t][a]
      BY <1>2, <1>6, <2>1 DEF Store
    <2>3. Pushes(memory'[t], psp - 1) = <<memory'[t][psp - 1]>> \o Pushes(memory'[t], psp)
      <3>1. psp - 1 \in 1 .. Len(memory'[t]) /\ StackTop - 1 \in psp - 1 .. Len(memory'[t])
            /\ psp - 1 + 1 = psp
        BY <1>2, <1>6, <1>7, <2>1
      <3> QED BY <1>7, <3>1, SubSeqRecursiveFirst DEF Pushes
    <2>4. Pushes(memory'[t], psp) = Pushes(memory[t], psp)
      BY <1>2, <1>6, <2>2, SamePushes
    <2>5. OwnOf'[t] = <<v>> \o OwnOf[t]
      BY <1>6, <2>1, <2>2, <2>3, <2>4
    <2> QED BY <1>3, <1>5, <2>5 DEF V!Push
  <1>9. CASE Pop(t)
    <2>1. psp' = psp + 1 /\ psp < StackTop /\ memory'[t] = Drop(memory[t], psp + 1)
      BY <1>9 DEF Pop, CInv, TypeOK
    <2>2. psp \in 1 .. Len(memory[t]) /\ StackTop - 1 \in psp .. Len(memory[t])
      BY <1>2, <1>6, <1>7, <2>1
    <2>3. Tail(Pushes(memory[t], psp)) = Pushes(memory[t], psp + 1)
      BY <1>7, <2>2, HeadTailOfSubSeq DEF Pushes
    <2>4. Pushes(memory[t], psp) # <<>>
      <3>1. Pushes(memory[t], psp) = <<memory[t][psp]>> \o Pushes(memory[t], psp + 1)
        BY <1>7, <2>2, SubSeqRecursiveFirst DEF Pushes
      <3>2. Pushes(memory[t], psp + 1) \in Seq(Value \cup Task)
        <4>1. \A i \in psp + 1 .. StackTop - 1 : memory[t][i] \in Value \cup Task
          BY <1>2, <1>6
        <4>2. psp + 1 \in Int /\ StackTop - 1 \in Int
          BY <1>2, <1>6
        <4> QED BY <4>1, <4>2, SubSeqProperties DEF Pushes
      <3>3. memory[t][psp] \in Value \cup Task
        BY <1>2, <1>6, <2>1
      <3> QED BY <3>1, <3>2, <3>3
    <2>5. Pushes(memory'[t], psp + 1) = Pushes(memory[t], psp + 1)
      <3>1. psp + 1 \in Int /\ psp + 1 >= 1
        BY <1>2, <1>6
      <3>2. \A a \in Address : a >= psp + 1 => memory'[t][a] = memory[t][a]
        BY <1>2, <1>6, <2>1 DEF Drop
      <3> QED BY <3>1, <3>2, SamePushes
    <2>6. OwnOf'[t] = Tail(OwnOf[t]) /\ OwnOf[t] # <<>>
      BY <1>6, <2>1, <2>3, <2>4, <2>5
    <2> QED BY <1>3, <1>5, <2>6 DEF V!Pop
  <1> QED BY <1>8, <1>9

\* A switch is the first step of a task that has not run, and to the others it
\* is nothing.
LEMMA SwitchRefines ==
  ASSUME CInv, CInv', NEW next \in Task, Switch(next)
  PROVE  V!Start(next) \/ UNCHANGED <<life, RegistersOf, OwnOf>>
  <1>1. Mapping /\ Mapping'
    BY Mapped, MappedNext
  <1>2. StackTop \in Nat /\ StackTop = MaxOwn + 6 /\ MaxOwn \in Nat /\ Address = 1 .. StackTop + 4
    BY ContextAssumption DEF StackTop, Address
  <1>3. psp \in Int /\ psp >= 6
    BY <1>2 DEF CInv, TypeOK
  <1>4. /\ current_task \in Task /\ current_task' = next
        /\ life' = [life EXCEPT ![next] = "live"] /\ life'[next] = "live"
        /\ life[current_task] # "created"
    <2>1. current_task \in Task /\ current_task' = next /\ life' = [life EXCEPT ![next] = "live"]
      BY SwitchOthers
    <2> QED BY <2>1, ContextAssumption DEF CInv, TypeOK
  <1>5. \A u \in Task : u # next => life'[u] = life[u]
    BY <1>4 DEF CInv, TypeOK
  <1>6. ASSUME NEW u \in Task, u # next, u # current_task
        PROVE  RegistersOf'[u] = RegistersOf[u] /\ OwnOf'[u] = OwnOf[u]
    BY <1>1, <1>4, <1>5, <1>6, SwitchOthers, Untouched
  <1>7. CASE next = current_task
    <2>1. /\ UNCHANGED <<cpu, fpca, psp, current_task, life>>
          /\ \A a \in Address : a >= psp => memory'[next][a] = memory[next][a]
      BY <1>7, SwitchSelf
    <2>2. Pushes(memory'[next], psp) = Pushes(memory[next], psp)
      BY <1>3, <2>1, SamePushes
    <2>3. RegistersOf'[next] = RegistersOf[next] /\ OwnOf'[next] = OwnOf[next]
      BY <1>1, <1>7, <2>1, <2>2 DEF Mapping, InCpu
    <2>4. RegistersOf' = RegistersOf /\ OwnOf' = OwnOf
      BY <1>6, <1>7, <2>3, StepOfOne
    <2> QED BY <2>1, <2>4
  <1>8. CASE next # current_task
    <2>1. ASSUME NEW c \in Task, c = current_task
          PROVE  RegistersOf'[c] = RegistersOf[c] /\ OwnOf'[c] = OwnOf[c]
      <3>1. /\ stack'[c] = psp - Size /\ exc_ret'[c] = IF fpca THEN "fpu" ELSE "basic"
            /\ Holds(memory'[c], psp - Size)
            /\ \A a \in Address : a >= psp => memory'[c][a] = memory[c][a]
        BY <1>8, <2>1, SwitchOut
      <3>2. c # current_task' /\ life'[c] = life[c]
        BY <1>4, <1>5, <1>8, <2>1
      <3>3. InFrame(memory'[c], stack'[c], exc_ret'[c]) = InCpu
        BY <3>1, HoldsAll
      <3>4. stack'[c] + FrameSize(c)' = psp
        BY <1>3, <3>1 DEF FrameSize, Size
      <3>5. Pushes(memory'[c], psp) = Pushes(memory[c], psp)
        BY <1>3, <3>1, SamePushes
      <3>6. /\ RegistersOf'[c] = IF life[c] # "live" THEN NULL ELSE InCpu
            /\ OwnOf'[c] = IF life[c] # "live" THEN <<>> ELSE Pushes(memory[c], psp)
        <4>1. /\ RegistersOf'[c] = IF life'[c] # "live" THEN NULL
                                   ELSE InFrame(memory'[c], stack'[c], exc_ret'[c])
              /\ OwnOf'[c] = IF life'[c] # "live" THEN <<>>
                             ELSE Pushes(memory'[c], stack'[c] + FrameSize(c)')
          BY <1>1, <3>2 DEF Mapping, Pushes
        <4> QED BY <3>2, <3>3, <3>4, <3>5, <4>1
      <3> QED BY <1>1, <2>1, <3>6 DEF Mapping
    <2>2. /\ FrameOK(next) /\ Loads(memory[next], stack[next], exc_ret[next])
          /\ fpca' = (exc_ret[next] = "fpu") /\ psp' = stack[next] + FrameSize(next)
          /\ memory'[next] = Drop(memory[next], psp')
      BY <1>8, SwitchIn
    <2>3. /\ RegistersOf'[next] = InFrame(memory[next], stack[next], exc_ret[next])
          /\ OwnOf'[next] = Pushes(memory[next], psp')
      <3>1. RegistersOf'[next] = InCpu' /\ OwnOf'[next] = Pushes(memory'[next], psp')
        BY <1>1, <1>4 DEF Mapping, Pushes
      <3>2. InCpu' = InFrame(memory[next], stack[next], exc_ret[next])
        BY <2>2, LoadsAll
      <3>3. psp' \in Int /\ psp' >= 1
        BY <1>2, <2>2 DEF FrameOK
      <3>4. \A a \in Address : a >= psp' => memory'[next][a] = memory[next][a]
        BY <1>2, <2>2, <3>3 DEF Drop
      <3>5. Pushes(memory'[next], psp') = Pushes(memory[next], psp')
        <4> DEFINE sp == psp'
                   new == memory'[next]
        <4>1. sp \in Int /\ sp >= 1 /\ \A a \in Address : a >= sp => new[a] = memory[next][a]
          BY <3>3, <3>4
        <4> HIDE DEF sp, new
        <4>2. Pushes(new, sp) = Pushes(memory[next], sp)
          BY <4>1, SamePushes
        <4> QED BY <4>2 DEF sp, new
      <3> QED BY <3>1, <3>2, <3>5
    <2>4. \A u \in Task : u # next => RegistersOf'[u] = RegistersOf[u] /\ OwnOf'[u] = OwnOf[u]
      BY <1>6, <2>1
    <2>5. CASE life[next] = "live"
      <3>1. RegistersOf'[next] = RegistersOf[next] /\ OwnOf'[next] = OwnOf[next]
        BY <1>1, <1>8, <2>2, <2>3, <2>5 DEF Mapping
      <3>2. life' = life
        BY <1>4, <2>5 DEF CInv, TypeOK
      <3> QED BY <2>4, <3>1, <3>2, StepOfOne
    <2>6. CASE life[next] = "created"
      <3>1. stack[next] = StackTop - 3 /\ exc_ret[next] = "basic" /\ memory[next][StackTop - 1] = next
            /\ memory[next][stack[next]] \in Value /\ memory[next][stack[next] + 1] \in Value
        <4>1. stack[next] + 0 = stack[next] \/ stack[next] # StackTop - 3
          BY <1>2
        <4> QED BY <2>2, <2>6, <4>1 DEF FrameOK
      <3>2. psp' = StackTop
        BY <1>2, <2>2, <3>1 DEF FrameSize
      <3>3. OwnOf'[next] = <<>> /\ OwnOf[next] = <<>>
        <4>1. Pushes(memory[next], StackTop) = <<>>
          BY <1>2, SubSeqEmpty DEF Pushes
        <4> QED BY <1>1, <2>3, <2>6, <3>2, <4>1 DEF Mapping
      <3>4. RegistersOf'[next] = [hw |-> next, lo |-> memory[next][stack[next]],
                                  hi |-> memory[next][stack[next] + 1],
                                  fplo |-> NULL, fphi |-> NULL]
        <4>1. stack[next] + 2 = StackTop - 1
          BY <1>2, <3>1
        <4> QED BY <2>3, <3>1, <4>1 DEF InFrame
      <3>5. V!Start(next)
        BY <1>4, <2>4, <2>6, <3>1, <3>3, <3>4, StepOfOne DEF V!Start
      <3> QED BY <3>5
    <2> QED BY <2>5, <2>6 DEF Switch, CanRun
  <1> QED BY <1>7, <1>8

\* All steps together.
LEMMA NextRefines ==
  CInv /\ CInv' /\ [Next]_vars => [V!Next]_<<life, RegistersOf, OwnOf>>
  <1> SUFFICES ASSUME CInv, CInv', [Next]_vars
               PROVE  V!Next \/ UNCHANGED <<life, RegistersOf, OwnOf>>
    OBVIOUS
  <1>1. CASE UNCHANGED vars
    <2>1. life' = life
      BY <1>1 DEF vars
    <2>2. RegistersOf' = RegistersOf
      BY <1>1 DEF vars, RegistersOf, Registers, Words
    <2>3. OwnOf' = OwnOf
      BY <1>1 DEF vars, OwnOf, StackPointer
    <2> QED BY <2>1, <2>2, <2>3
  <1>2. ASSUME NEW t \in Task, NEW g \in Group, NEW v \in Value,
               \/ g \in {"hw", "lo", "hi"} /\ Compute(t, g, v)
               \/ g \in {"fplo", "fphi"} /\ ComputeFp(t, g, v)
        PROVE  V!Next
    <2>1. life[t] = "live"
      BY <1>2 DEF Compute, ComputeFp, Runs
    <2> QED BY <1>2, <2>1, ComputeRefines DEF V!Next
  <1>3. ASSUME NEW t \in Task, NEW v \in Value, Push(t, v) \/ Pop(t)
        PROVE  V!Next
    BY <1>3, PushPopRefines DEF V!Next
  <1>4. ASSUME NEW t \in Task, TaskInit(t) \/ StartTasks(t) \/ Return(t)
        PROVE  V!Next
    BY <1>4, TaskInitRefines, StartRefines, ReturnRefines DEF V!Next
  <1>5. ASSUME NEW t \in Task, Switch(t)
        PROVE  V!Next \/ UNCHANGED <<life, RegistersOf, OwnOf>>
    BY <1>5, SwitchRefines DEF V!Next
  <1>6. CASE Computes
    BY <1>2, <1>3, <1>6, ContextAssumption DEF Computes, Group
  <1> QED BY <1>1, <1>4, <1>5, <1>6 DEF Next

\* The context switch gives every task a processor of its own: its registers,
\* those of the FPU included, and what it has pushed on its stack change by its
\* own steps only.
THEOREM GivesEachAProcessor == Spec => ImplementsVirtualCpu
  BY InitRefines, NextRefines, FramesInvariance, PTL
  DEF Spec, ImplementsVirtualCpu, V!Spec

-----------------------------------------------------------------------------
(* The system calls.                                                       *)

\* The heap ends at heap_end, and at most one task is in the middle of _sbrk_r;
\* what it found is still so, and its increment leaves the heap in bounds.
HeapInv ==
  /\ heap_end \in 0 .. MainStackPointer
  /\ prev \in [Task -> Nat \cup {NULL}]
  /\ grow \in [Task -> Int]
  /\ owner \in [Byte -> Task \cup {NULL}]
  /\ \A b \in Byte : b >= heap_end => owner[b] = NULL
  /\ \A t, u \in Task : prev[t] # NULL /\ prev[u] # NULL => t = u
  /\ \A t \in Task : prev[t] # NULL =>
       /\ prev[t] = heap_end
       /\ heap_end + grow[t] \in 0 .. MainStackPointer

\* Only one task uses the struct _reent of main(): the one that is started
\* first, until it is switched out, and for the call it is in then.
GlobalInv ==
  /\ \A t, u \in Task : Global \in {reent[t], via[t]} /\ Global \in {reent[u], via[u]}
                          => t = u
  /\ impure_ptr \in {Global, current_task}
  /\ impure_ptr = Global =>
       /\ \A t \in Task : t # current_task => reent[t] = NULL /\ via[t] = NULL
       /\ \A t \in Task : reent[t] # t /\ via[t] # t
       /\ (\A t \in Task : via[t] = NULL) => errno[Global] = "none"

\* A task has its error where it was stored.
ErrnoInv ==
  /\ impure_ptr \in Task \cup {Global}
  /\ errno \in [Task \cup {Global} -> Errno]
  /\ reent \in [Task -> Task \cup {Global, NULL}]
  /\ via \in [Task -> Task \cup {Global, NULL}]
  /\ told \in [Task -> Errno]
  /\ current_task \in Task \cup {NULL}
  /\ \A t \in Task : reent[t] \in {NULL, t, Global} /\ via[t] \in {NULL, t, Global}
  /\ \A t \in Task : /\ via[t] = NULL => told[t] = "none"
                     /\ via[t] = Global => errno[Global] = told[t]
                     /\ via[t] # Global => errno[t] = told[t]
  /\ GlobalInv

-----------------------------------------------------------------------------
(* The heap.                                                               *)

\* Nothing has been asked of the heap.
LEMMA HeapInitially == LibInit => HeapInv
  BY NewlibAssumption DEF LibInit, HeapInv, Byte

\* Nothing but the two steps of _sbrk_r changes the heap.
LEMMA HeapFrame ==
  ASSUME LibNext
  PROVE  \/ UNCHANGED heapVars
         \/ \E t \in Task : SbrkMove(t) \/ \E n \in -1 .. MaxIncrement : SbrkTest(t, n)
  <1>1. ASSUME NEW t \in Task, Files(t) PROVE UNCHANGED heapVars
    BY <1>1 DEF Files, close, execve, fcntl, fork, fstat, getpid, isatty, kill, link, lseek,
      mkdir, open, read, rename, stat, times, unlink, wait, write, Fails
  <1>2. ASSUME NEW t \in Task, ReentInit(t) \/ Start(t) \/ SwitchTo(t) \/ ReturnFrom(t) \/ Enter(t)
        PROVE  UNCHANGED heapVars
    BY <1>2 DEF ReentInit, Start, SwitchTo, ReturnFrom, Enter, libVars, heapVars
  <1> QED BY <1>1, <1>2 DEF LibNext, libVars, heapVars

\* The invariant of the heap is inductive.
LEMMA HeapInductive == HeapInv /\ [LibNext]_<<vars, libVars>> => HeapInv'
  <1> SUFFICES ASSUME HeapInv, [LibNext]_<<vars, libVars>> PROVE HeapInv'
    OBVIOUS
  <1> USE NewlibAssumption
  <1>1. CASE UNCHANGED heapVars
    BY <1>1 DEF HeapInv, heapVars
  <1>2. ASSUME NEW t \in Task, NEW n \in -1 .. MaxIncrement, SbrkTest(t, n) PROVE HeapInv'
    <2>1. UNCHANGED <<heap_end, owner>>
      BY <1>2 DEF SbrkTest
    <2>2. CASE heap_end + n > MainStackPointer
      BY <1>2, <2>1, <2>2 DEF SbrkTest, HeapInv
    <2>3. CASE ~(heap_end + n > MainStackPointer)
      <3>1. prev' = [prev EXCEPT ![t] = heap_end] /\ grow' = [grow EXCEPT ![t] = n]
        BY <1>2, <2>3 DEF SbrkTest
      <3>2. \A u \in Task : prev[u] = NULL
        BY <1>2 DEF SbrkTest, Masked
      <3>3. heap_end + n \in 0 .. MainStackPointer
        <4>1. CASE n < 0
          <5>1. n = -1 /\ heap_end - 1 \in heap_end + n .. heap_end - 1
            BY <4>1 DEF HeapInv
          <5> QED BY <1>2, <2>3, <5>1 DEF SbrkTest, HeapInv
        <4>2. CASE n >= 0
          BY <2>3, <4>2 DEF HeapInv
        <4> QED BY <4>1, <4>2
      <3> QED BY <2>1, <3>1, <3>2, <3>3 DEF HeapInv
    <2> QED BY <2>2, <2>3
  <1>3. ASSUME NEW t \in Task, SbrkMove(t) PROVE HeapInv'
    <2>1. prev[t] = heap_end /\ heap_end + grow[t] \in 0 .. MainStackPointer /\ grow[t] \in Int
      BY <1>3 DEF SbrkMove, HeapInv
    <2>2. /\ heap_end' = heap_end + grow[t]
          /\ prev' = [prev EXCEPT ![t] = NULL] /\ grow' = [grow EXCEPT ![t] = 0]
      BY <1>3 DEF SbrkMove
    <2>3. \A u \in Task : prev'[u] = NULL
      BY <1>3, <2>2 DEF SbrkMove, HeapInv
    <2>4. owner' \in [Byte -> Task \cup {NULL}]
      BY <1>3 DEF SbrkMove, HeapInv
    <2>5. ASSUME NEW b \in Byte, b >= heap_end' PROVE owner'[b] = NULL
      <3>1. b \in Int /\ heap_end \in Int
        BY DEF Byte, HeapInv
      <3>2. b \notin heap_end .. heap_end + grow[t] - 1
        BY <2>1, <2>2, <2>5, <3>1
      <3>3. b < heap_end => b \in heap_end + grow[t] .. heap_end - 1
        BY <2>1, <2>2, <2>5, <3>1
      <3>4. b >= heap_end => owner[b] = NULL
        BY DEF HeapInv
      <3> QED BY <1>3, <2>1, <3>1, <3>2, <3>3, <3>4 DEF SbrkMove
    <2> QED BY <2>1, <2>2, <2>3, <2>4, <2>5 DEF HeapInv
  <1> QED BY <1>1, <1>2, <1>3, HeapFrame DEF libVars, heapVars

\* In every state of every behaviour.
THEOREM HeapInvariance == LibSpec => []HeapInv
  BY HeapInitially, HeapInductive, PTL DEF LibSpec

\* _sbrk_r never hands out a byte that somebody holds, whoever else calls it.
THEOREM HeapIsExclusive == LibSpec => SbrkExclusive
  <1>1. HeapInv /\ [LibNext]_<<vars, libVars>>
          => [\A t \in Task : SbrkMove(t) =>
                \A b \in prev[t] .. prev[t] + grow[t] - 1 : owner[b] = NULL]_<<vars, libVars>>
    <2> SUFFICES ASSUME HeapInv, NEW t \in Task, SbrkMove(t),
                        NEW b \in prev[t] .. prev[t] + grow[t] - 1
                 PROVE  owner[b] = NULL
      OBVIOUS
    <2>1. prev[t] = heap_end /\ heap_end + grow[t] \in 0 .. MainStackPointer /\ grow[t] \in Int
      BY DEF SbrkMove, HeapInv
    <2>2. b \in Byte /\ b >= heap_end
      BY <2>1, NewlibAssumption DEF Byte, HeapInv
    <2> QED BY <2>2 DEF HeapInv
  <1> QED BY <1>1, HeapInvariance, PTL DEF LibSpec, SbrkExclusive

-----------------------------------------------------------------------------
(* The errors.                                                             *)

errnoVars == <<impure_ptr, errno, reent, via, told, current_task>>

\* Nobody has called the library.
LEMMA ErrnoInitially == LibInit => ErrnoInv
  BY NewlibAssumption, ContextAssumption DEF LibInit, Init, ErrnoInv, GlobalInv, Errno

\* The steps that concern the struct _reent and _impure_ptr.
LEMMA ErrnoFrame ==
  ASSUME LibNext
  PROVE  \/ UNCHANGED errnoVars
         \/ \E t \in Task :
              \/ ReentInit(t) \/ Start(t) \/ SwitchTo(t) \/ Enter(t)
              \/ \E e \in Errno : Runs(t) /\ reent[t] # NULL /\ Store_errno(t, e)
                                    /\ UNCHANGED <<impure_ptr, current_task>>
              \/ Runs(t) /\ reent' = [reent EXCEPT ![t] = NULL]
                   /\ UNCHANGED <<impure_ptr, errno, via, told, current_task>>
  <1>1. ASSUME Computes, UNCHANGED libVars PROVE UNCHANGED errnoVars
    BY <1>1 DEF Computes, Compute, ComputeFp, Push, Pop, libVars, errnoVars
  <1>2. ASSUME NEW t \in Task, ReturnFrom(t) PROVE UNCHANGED errnoVars
    BY <1>2 DEF ReturnFrom, Return, libVars, errnoVars
  <1>3. ASSUME NEW t \in Task, NEW e, Fails(t, e)
        PROVE  Runs(t) /\ reent[t] # NULL /\ Store_errno(t, e)
                 /\ UNCHANGED <<impure_ptr, current_task>>
    BY <1>3 DEF Fails, Called, vars
  <1>4. ASSUME NEW t \in Task, getpid(t)
        PROVE  Runs(t) /\ reent' = [reent EXCEPT ![t] = NULL]
                 /\ UNCHANGED <<impure_ptr, errno, via, told, current_task>>
    BY <1>4 DEF getpid, Called, vars
  <1>5. ASSUME NEW t \in Task, Files(t)
        PROVE  getpid(t) \/ \E e \in Errno : Fails(t, e)
    BY <1>5 DEF Files, Errno, close, execve, fcntl, fork, fstat, isatty, kill, link, lseek,
      mkdir, open, read, rename, stat, times, unlink, wait, write
  <1>6. ASSUME NEW t \in Task, NEW n \in -1 .. MaxIncrement, SbrkTest(t, n)
        PROVE  \/ UNCHANGED errnoVars
               \/ Runs(t) /\ reent[t] # NULL /\ Store_errno(t, "ENOMEM")
                    /\ UNCHANGED <<impure_ptr, current_task>>
    BY <1>6 DEF SbrkTest, errnoVars, vars
  <1>7. ASSUME NEW t \in Task, SbrkMove(t)
        PROVE  Runs(t) /\ reent' = [reent EXCEPT ![t] = NULL]
                 /\ UNCHANGED <<impure_ptr, errno, via, told, current_task>>
    BY <1>7 DEF SbrkMove, vars
  <1>8. "ENOMEM" \in Errno
    BY DEF Errno
  <1> QED BY <1>1, <1>2, <1>3, <1>4, <1>5, <1>6, <1>7, <1>8 DEF LibNext

\* The end of a call that fails.
LEMMA ErrnoOfCall ==
  ASSUME ErrnoInv, NEW t \in Task, NEW e \in Errno, Runs(t), reent[t] # NULL,
         Store_errno(t, e), UNCHANGED <<impure_ptr, current_task>>
  PROVE  ErrnoInv'
  <1> USE NewlibAssumption, ContextAssumption
  <1> DEFINE r == reent[t]
  <1>1. /\ errno' = [errno EXCEPT ![r] = e]
        /\ reent' = [reent EXCEPT ![t] = NULL]
        /\ via' = [via EXCEPT ![t] = r]
        /\ told' = [told EXCEPT ![t] = e]
    BY DEF Store_errno
  <1>2. r \in {t, Global} /\ t # Global /\ t # NULL /\ current_task = t
    BY DEF ErrnoInv, Runs
  <1>3. /\ errno'[r] = e
        /\ \A q \in Task \cup {Global} : q # r => errno'[q] = errno[q]
        /\ errno' \in [Task \cup {Global} -> Errno]
    BY <1>1, <1>2 DEF ErrnoInv
  <1>4. /\ reent'[t] = NULL /\ via'[t] = r /\ told'[t] = e
        /\ \A u \in Task : u # t => /\ reent'[u] = reent[u] /\ via'[u] = via[u]
                                    /\ told'[u] = told[u]
        /\ reent' \in [Task -> Task \cup {Global, NULL}]
        /\ via' \in [Task -> Task \cup {Global, NULL}]
        /\ told' \in [Task -> Errno]
    BY <1>1, <1>2 DEF ErrnoInv
  <1>5. ASSUME NEW u \in Task
        PROVE  /\ via'[u] = NULL => told'[u] = "none"
               /\ via'[u] = Global => errno'[Global] = told'[u]
               /\ via'[u] # Global => errno'[u] = told'[u]
    <2>1. CASE u = t
      BY <1>2, <1>3, <1>4, <2>1
    <2>2. CASE u # t
      <3>1. /\ via[u] = NULL => told[u] = "none"
            /\ via[u] = Global => errno[Global] = told[u]
            /\ via[u] # Global => errno[u] = told[u]
        BY DEF ErrnoInv
      <3>2. r = Global => via[u] # Global
        BY <2>2 DEF ErrnoInv, GlobalInv
      <3>3. u # r
        BY <1>2, <2>2
      <3> QED BY <1>2, <1>3, <1>4, <2>2, <3>1, <3>2, <3>3
    <2> QED BY <2>1, <2>2
  <1>6. GlobalInv'
    <2>1. ASSUME NEW u \in Task, NEW v \in Task, Global \in {reent'[u], via'[u]},
                 Global \in {reent'[v], via'[v]}
          PROVE  u = v
      <3>1. Global \in {reent[u], via[u]} /\ Global \in {reent[v], via[v]}
        BY <1>2, <1>4, <2>1
      <3> QED BY <3>1 DEF ErrnoInv, GlobalInv
    <2>2. impure_ptr' = Global => r = Global
      BY <1>2 DEF ErrnoInv, GlobalInv
    <2> QED BY <1>2, <1>4, <2>1, <2>2 DEF ErrnoInv, GlobalInv
  <1>7. \A u \in Task : reent'[u] \in {NULL, u, Global} /\ via'[u] \in {NULL, u, Global}
    BY <1>2, <1>4 DEF ErrnoInv
  <1> QED BY <1>3, <1>4, <1>5, <1>6, <1>7 DEF ErrnoInv

\* The invariant of errno is inductive.
LEMMA ErrnoInductive == ErrnoInv /\ [LibNext]_<<vars, libVars>> => ErrnoInv'
  <1> SUFFICES ASSUME ErrnoInv, [LibNext]_<<vars, libVars>> PROVE ErrnoInv'
    OBVIOUS
  <1> USE NewlibAssumption, ContextAssumption
  <1>1. CASE UNCHANGED errnoVars
    BY <1>1 DEF ErrnoInv, GlobalInv, errnoVars
  <1>2. ASSUME NEW t \in Task, ReentInit(t) PROVE ErrnoInv'
    <2>1. /\ errno' = [errno EXCEPT ![t] = "none"] /\ reent' = [reent EXCEPT ![t] = NULL]
          /\ via' = [via EXCEPT ![t] = NULL] /\ told' = [told EXCEPT ![t] = "none"]
          /\ UNCHANGED <<impure_ptr, current_task>>
      BY <1>2 DEF ReentInit, TaskInit
    <2>2. t # current_task /\ t # Global
      BY <1>2 DEF ReentInit, TaskInit
    <2>3. /\ errno' \in [Task \cup {Global} -> Errno]
          /\ reent' \in [Task -> Task \cup {Global, NULL}]
          /\ via' \in [Task -> Task \cup {Global, NULL}]
          /\ told' \in [Task -> Errno]
      BY <2>1, <2>2 DEF ErrnoInv, Errno
    <2>4. /\ errno'[t] = "none" /\ reent'[t] = NULL /\ via'[t] = NULL /\ told'[t] = "none"
          /\ \A u \in Task : u # t => /\ errno'[u] = errno[u] /\ reent'[u] = reent[u]
                                      /\ via'[u] = via[u] /\ told'[u] = told[u]
          /\ errno'[Global] = errno[Global]
      BY <2>1, <2>2 DEF ErrnoInv
    <2>5. \A u \in Task :
            /\ reent'[u] \in {NULL, u, Global} /\ via'[u] \in {NULL, u, Global}
            /\ via'[u] = NULL => told'[u] = "none"
            /\ via'[u] = Global => errno'[Global] = told'[u]
            /\ via'[u] # Global => errno'[u] = told'[u]
      BY <2>2, <2>4 DEF ErrnoInv
    <2>6. GlobalInv'
      <3>1. ASSUME NEW u \in Task, NEW v \in Task, Global \in {reent'[u], via'[u]},
                   Global \in {reent'[v], via'[v]}
            PROVE  u = v
        <4>1. Global \in {reent[u], via[u]} /\ Global \in {reent[v], via[v]}
          BY <2>4, <3>1
        <4> QED BY <4>1 DEF ErrnoInv, GlobalInv
      <3>2. ASSUME impure_ptr = Global
            PROVE  via[t] = NULL
        BY <2>2, <3>2 DEF ErrnoInv, GlobalInv
      <3> QED BY <2>1, <2>2, <2>4, <3>1, <3>2 DEF ErrnoInv, GlobalInv
    <2> QED BY <2>1, <2>3, <2>5, <2>6 DEF ErrnoInv
  <1>3. ASSUME NEW t \in Task, Start(t) PROVE ErrnoInv'
    <2>1. current_task = NULL /\ current_task' = t /\ impure_ptr' = impure_ptr
          /\ UNCHANGED <<errno, reent, via, told>>
      BY <1>3 DEF Start, StartTasks, libVars
    <2>2. impure_ptr = Global
      BY <2>1 DEF ErrnoInv, GlobalInv
    <2> QED BY <2>1, <2>2 DEF ErrnoInv, GlobalInv
  <1>4. ASSUME NEW t \in Task, SwitchTo(t) PROVE ErrnoInv'
    BY <1>4 DEF SwitchTo, Switch, SetImpure, ErrnoInv, GlobalInv
  <1>5. ASSUME NEW t \in Task, Enter(t) PROVE ErrnoInv'
    <2>1. /\ current_task = t /\ reent' = [reent EXCEPT ![t] = impure_ptr]
          /\ UNCHANGED <<impure_ptr, errno, via, told, current_task>>
      BY <1>5 DEF Enter, Runs, vars
    <2>2. impure_ptr \in {Global, t} /\ t # Global /\ t # NULL
      BY <2>1 DEF ErrnoInv, GlobalInv
    <2>3. /\ reent'[t] = impure_ptr
          /\ \A u \in Task : u # t => reent'[u] = reent[u]
          /\ reent' \in [Task -> Task \cup {Global, NULL}]
      BY <2>1, <2>2 DEF ErrnoInv
    <2>4. GlobalInv'
      <3>1. ASSUME NEW u \in Task, NEW v \in Task, Global \in {reent'[u], via'[u]},
                   Global \in {reent'[v], via'[v]}
            PROVE  u = v
        <4>1. CASE impure_ptr = Global
          BY <2>1, <2>3, <3>1, <4>1 DEF ErrnoInv, GlobalInv
        <4>2. CASE impure_ptr # Global
          <5>1. Global \in {reent[u], via[u]} /\ Global \in {reent[v], via[v]}
            BY <2>1, <2>2, <2>3, <3>1, <4>2
          <5> QED BY <5>1 DEF ErrnoInv, GlobalInv
        <4> QED BY <4>1, <4>2
      <3> QED BY <2>1, <2>2, <2>3, <3>1 DEF ErrnoInv, GlobalInv
    <2> QED BY <2>1, <2>2, <2>3, <2>4 DEF ErrnoInv
  <1>6. ASSUME NEW t \in Task, reent' = [reent EXCEPT ![t] = NULL],
               UNCHANGED <<impure_ptr, errno, via, told, current_task>>
        PROVE  ErrnoInv'
    <2>1. /\ reent'[t] = NULL
          /\ \A u \in Task : u # t => reent'[u] = reent[u]
          /\ reent' \in [Task -> Task \cup {Global, NULL}]
      BY <1>6 DEF ErrnoInv
    <2>2. \A u \in Task : Global \in {reent'[u], via'[u]} => Global \in {reent[u], via[u]}
      BY <1>6, <2>1
    <2>3. GlobalInv'
      BY <1>6, <2>1, <2>2 DEF ErrnoInv, GlobalInv
    <2> QED BY <1>6, <2>1, <2>3 DEF ErrnoInv
  <1>7. CASE UNCHANGED <<vars, libVars>>
    BY <1>1, <1>7 DEF vars, libVars, errnoVars
  <1> QED BY <1>1, <1>2, <1>3, <1>4, <1>5, <1>6, <1>7, ErrnoFrame, ErrnoOfCall

\* In every state of every behaviour.
THEOREM ErrnoInvariance == LibSpec => []ErrnoInv
  BY ErrnoInitially, ErrnoInductive, PTL DEF LibSpec

\* A task sees the error of its own last call, except the first task, which
\* sought it in its own struct _reent after it had been stored in that of main().
THEOREM ErrnoIsLostOnlyAtStart == LibSpec => []ErrnoLostOnlyAtStart
  <1>1. ErrnoInv => ErrnoLostOnlyAtStart
    <2> SUFFICES ASSUME ErrnoInv, NEW t \in Task, Runs(t), errno[impure_ptr] # told[t]
                 PROVE  via[t] = Global /\ impure_ptr = t
      BY DEF ErrnoLostOnlyAtStart
    <2>1. impure_ptr \in {Global, t} /\ t # Global
      BY NewlibAssumption DEF ErrnoInv, GlobalInv, Runs
    <2>2. CASE impure_ptr = t
      BY <2>1, <2>2 DEF ErrnoInv
    <2>3. CASE impure_ptr = Global
      <3>1. via[t] \in {NULL, Global} /\ \A u \in Task : u # t => via[u] = NULL
        BY <2>3 DEF ErrnoInv, GlobalInv, Runs
      <3>2. via[t] = NULL => errno[Global] = "none" /\ told[t] = "none"
        BY <2>3, <3>1 DEF ErrnoInv, GlobalInv
      <3> QED BY <2>3, <3>1, <3>2 DEF ErrnoInv
    <2> QED BY <2>1, <2>2, <2>3
  <1> QED BY <1>1, ErrnoInvariance, PTL

-----------------------------------------------------------------------------
(* The tasks that call newlib have a processor each.                       *)

\* The system calls leave the registers and the stacks alone.
LEMMA LibNextIsNext == [LibNext]_<<vars, libVars>> => [Next]_vars
  <1>1. ASSUME NEW t \in Task, Files(t) PROVE UNCHANGED vars
    BY <1>1 DEF Files, close, execve, fcntl, fork, fstat, getpid, isatty, kill, link, lseek,
      mkdir, open, read, rename, stat, times, unlink, wait, write, Fails
  <1>2. ASSUME NEW t \in Task, ReentInit(t) \/ Start(t) \/ SwitchTo(t) \/ ReturnFrom(t)
        PROVE  Next
    BY <1>2 DEF ReentInit, Start, SwitchTo, ReturnFrom, Next
  <1>3. ASSUME NEW t \in Task, Enter(t) \/ SbrkMove(t) \/ \E n \in -1 .. MaxIncrement : SbrkTest(t, n)
        PROVE  UNCHANGED vars
    BY <1>3 DEF Enter, SbrkMove, SbrkTest
  <1>4. Computes => Next
    BY DEF Next
  <1> QED BY <1>1, <1>2, <1>3, <1>4 DEF LibNext

\* A program with system calls is one of the context switch.
THEOREM LibIsContext == LibSpec => Spec
  BY LibNextIsNext, PTL DEF LibSpec, LibInit, Spec

\* Tasks compute as if each had a processor of its own, also those that call the
\* library.
THEOREM LibGivesEachAProcessor == LibSpec => ImplementsVirtualCpu
  BY LibIsContext, GivesEachAProcessor

\* No task changes the program.
ProgramOK == program \in Program

\* A behaviour is one of the programs from its first state to its last.
LEMMA ProgramKept == ProgramOK /\ [LibNext]_<<vars, libVars>> => ProgramOK'
  <1>1. ASSUME NEW t \in Task, Files(t) PROVE program' = program
    BY <1>1 DEF Files, close, execve, fcntl, fork, fstat, getpid, isatty, kill, link, lseek,
      mkdir, open, read, rename, stat, times, unlink, wait, write, Fails
  <1>2. ASSUME NEW t \in Task, ReentInit(t) \/ Start(t) \/ SwitchTo(t) \/ ReturnFrom(t)
        PROVE  program' = program
    BY <1>2 DEF ReentInit, Start, SwitchTo, ReturnFrom, libVars
  <1>3. ASSUME NEW t \in Task, Enter(t) \/ SbrkMove(t) \/ \E n \in -1 .. MaxIncrement : SbrkTest(t, n)
        PROVE  program' = program
    BY <1>3 DEF Enter, SbrkMove, SbrkTest
  <1> QED BY <1>1, <1>2, <1>3 DEF ProgramOK, LibNext, libVars

\* Registers, stacks, the struct _reent and the heap have the values they may
\* have: a stack pointer is in its stack, heap_end in the heap.
THEOREM LibTypeCorrect == LibSpec => []LibTypeOK
  <1>1. LibInit => ProgramOK
    BY DEF LibInit, ProgramOK
  <1>2. LibSpec => []ProgramOK
    BY <1>1, ProgramKept, PTL DEF LibSpec
  <1>3. CInv /\ HeapInv /\ ErrnoInv /\ ProgramOK => LibTypeOK
    <2> SUFFICES ASSUME CInv, HeapInv, ErrnoInv, ProgramOK PROVE LibTypeOK
      OBVIOUS
    <2>1. \A t \in Task : prev[t] \in (0 .. MainStackPointer) \cup {NULL}
      BY DEF HeapInv
    <2>2. prev \in [Task -> (0 .. MainStackPointer) \cup {NULL}]
      BY <2>1 DEF HeapInv
    <2>3. TypeOK
      BY DEF CInv
    <2> QED BY <2>2, <2>3 DEF HeapInv, ErrnoInv, ProgramOK, LibTypeOK
  <1> QED BY <1>2, <1>3, LibIsContext, FramesInvariance, HeapInvariance, ErrnoInvariance, PTL
=============================================================================
