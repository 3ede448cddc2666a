------------------------------ MODULE Context ------------------------------
(***************************************************************************)
(* The context switch: what pend_sv_handler and sys_tick_handler           *)
(* (scheduler.c) do to the registers and the stacks, with the macros for a *)
(* Cortex-M0 (stack_m0.h) and for a Cortex-M4 with an FPU (stack_m4f.h).   *)
(*                                                                         *)
(* Which task comes next is the business of Kernel; here it is any that    *)
(* can run.  Registers that are moved together are one value:              *)
(*   hw    r0-r3, r12, lr, pc and psr, which the exception entry stacks    *)
(*   lo    r4-r7                                                           *)
(*   hi    r8-r11                                                          *)
(*   fplo  s0-s15 and fpscr, for which the entry reserves room if the FPU  *)
(*         is in use, and which are stored when a handler uses the FPU     *)
(*   fphi  s16-s31                                                         *)
(* A stack has one address for each such value.  No step of a task comes   *)
(* between the entry of a handler and its return.                          *)
(*                                                                         *)
(* Definitions whose names end in Bug are mistakes, as in Kernel.          *)
(***************************************************************************)
EXTENDS Integers, Sequences

CONSTANTS
  Task,
  Idle,     (* idle_task, the only one that os_init creates                *)
  Value,    (* what the registers hold, 0 among it                         *)
  MaxOwn,   (* bound: what a task pushes on its stack                      *)
  NULL

ASSUME ContextAssumption ==
  /\ Idle \in Task
  /\ 0 \in Value
  /\ NULL \notin Task \cup Value /\ Task \cap Value = {}
  /\ MaxOwn \in Nat

\* Room for what a task pushes and for the largest frame.
StackTop == MaxOwn + 6
Address  == 1 .. StackTop + 4

VARIABLES
  core,          (* "m0" or "m4f"                                          *)
  cpu,           (* the registers                                          *)
  fpca,          (* CONTROL.FPCA: the FPU is in use                        *)
  psp,           (* the stack pointer of the current task                  *)
  memory,        (* the stack of each task, which grows downwards          *)
  stack,         (* task_t.stack                                           *)
  exc_ret,       (* task_t.exc_ret, of which one bit matters               *)
  current_task,
  life           (* "stopped", "created", or "live" once it has run        *)

vars == <<core, cpu, fpca, psp, memory, stack, exc_ret, current_task, life>>

Group == {"hw", "lo", "hi", "fplo", "fphi"}

\* The words at the addresses from sp on are stored, the others kept.
Store(stk, sp, words) ==
  [a \in Address |-> IF a \in sp .. sp + Len(words) - 1 THEN words[a - sp + 1] ELSE stk[a]]

\* What lies below sp is dead, and set to 0.
Drop(stk, sp) == [a \in Address |-> IF a < sp THEN 0 ELSE stk[a]]

Empty == [a \in Address |-> 0]

\* The frame that os_task_init makes up: zeros for lo and hi, and the task as
\* the argument of __task_runner.
NewFrame(t) == <<0, 0, t>>
NewStack(t) == Store(Empty, StackTop - 3, NewFrame(t))

\* In main(), after os_init.
Init ==
  /\ core \in {"m0", "m4f"}
  /\ cpu = [g \in Group |-> 0]
  /\ fpca \in {FALSE, core = "m4f"}
  /\ psp = StackTop
  /\ memory = [t \in Task |-> IF t = Idle THEN NewStack(Idle) ELSE Empty]
  /\ stack = [t \in Task |-> StackTop - 3]
  /\ exc_ret = [t \in Task |-> "basic"]
  /\ current_task = NULL
  /\ life = [t \in Task |-> IF t = Idle THEN "created" ELSE "stopped"]

Runs(t) == current_task = t /\ life[t] = "live"
CanRun(t) == life[t] \in {"created", "live"}

\* Leaves the exc_ret of the previous user of the task_t.
TaskInitBug(t) ==
  /\ current_task = NULL \/ \E u \in Task : Runs(u)
  /\ life[t] = "stopped" /\ t # current_task
  /\ memory' = [memory EXCEPT ![t] = NewStack(t)]
  /\ stack' = [stack EXCEPT ![t] = StackTop - 3]
  /\ life' = [life EXCEPT ![t] = "created"]
  /\ UNCHANGED <<core, cpu, fpca, psp, exc_ret, current_task>>

\* os_task_init, and os_task_add, of a task that is not in use.
TaskInit(t) ==
  /\ current_task = NULL \/ \E u \in Task : Runs(u)
  /\ life[t] = "stopped" /\ t # current_task
  /\ memory' = [memory EXCEPT ![t] = NewStack(t)]
  /\ stack' = [stack EXCEPT ![t] = StackTop - 3]
  /\ exc_ret' = [exc_ret EXCEPT ![t] = "basic"]
  /\ life' = [life EXCEPT ![t] = "created"]
  /\ UNCHANGED <<core, cpu, fpca, psp, current_task>>

\* sched_start_tasks sets the registers of the frame that __task_runner needs,
\* and the stack pointer to the top.  Writing CONTROL clears FPCA.
StartTasks(t) ==
  /\ current_task = NULL
  /\ CanRun(t)
  /\ cpu' = [cpu EXCEPT !.hw = memory[t][stack[t] + 2]]
  /\ psp' = StackTop
  /\ stack' = [stack EXCEPT ![t] = StackTop]
  /\ memory' = [memory EXCEPT ![t] = Drop(@, StackTop)]
  /\ fpca' = FALSE
  /\ current_task' = t
  /\ life' = [life EXCEPT ![t] = "live"]
  /\ UNCHANGED <<core, exc_ret>>

-----------------------------------------------------------------------------
(* What a task does.                                                       *)

Compute(t, g, v) ==
  /\ Runs(t)
  /\ cpu' = [cpu EXCEPT ![g] = v]
  /\ UNCHANGED <<core, fpca, psp, memory, stack, exc_ret, current_task, life>>

\* An instruction of the FPU.
ComputeFp(t, g, v) ==
  /\ Runs(t)
  /\ core = "m4f"
  /\ cpu' = [cpu EXCEPT ![g] = v]
  /\ fpca' = TRUE
  /\ UNCHANGED <<core, psp, memory, stack, exc_ret, current_task, life>>

Push(t, v) ==
  /\ Runs(t)
  /\ psp > StackTop - MaxOwn
  /\ psp' = psp - 1
  /\ memory' = [memory EXCEPT ![t] = Store(@, psp - 1, <<v>>)]
  /\ UNCHANGED <<core, cpu, fpca, stack, exc_ret, current_task, life>>

Pop(t) ==
  /\ Runs(t)
  /\ psp < StackTop
  /\ psp' = psp + 1
  /\ memory' = [memory EXCEPT ![t] = Drop(@, psp + 1)]
  /\ UNCHANGED <<core, cpu, fpca, stack, exc_ret, current_task, life>>

\* The end of __task_runner.
Return(t) ==
  /\ Runs(t)
  /\ t # Idle
  /\ life' = [life EXCEPT ![t] = "stopped"]
  /\ UNCHANGED <<core, cpu, fpca, psp, memory, stack, exc_ret, current_task>>

-----------------------------------------------------------------------------
(* The switch.                                                             *)

\* What the exception entry and SCHED_PUSH_STACK have put on the stack, from
\* the new stack pointer on.
PushM0 == <<cpu.lo, cpu.hi, cpu.hw>>

\* Does not look whether the FPU is in use, although the entry does.
PushM4FBug == IF fpca THEN <<cpu.lo, cpu.hi, cpu.hw, 0>> ELSE <<cpu.lo, cpu.hi, cpu.hw>>

PushM4F ==
  IF fpca THEN <<cpu.fphi, cpu.lo, cpu.hi, cpu.hw, cpu.fplo>>
          ELSE <<cpu.lo, cpu.hi, cpu.hw>>

Pushed == IF core = "m0" THEN PushM0 ELSE PushM4F

\* SCHED_POP_STACK_AND_BRANCH and the exception return: what they load from the
\* words at the stack pointer.
PopM0(words, ret) ==
  [regs |-> [cpu EXCEPT !.lo = words[1], !.hi = words[2], !.hw = words[3]],
   size |-> 3, fpca |-> FALSE]

PopM4F(words, ret) ==
  IF ret = "fpu"
    THEN [regs |-> [fphi |-> words[1], lo |-> words[2], hi |-> words[3],
                    hw |-> words[4], fplo |-> words[5]],
          size |-> 5, fpca |-> TRUE]
    ELSE [regs |-> [cpu EXCEPT !.lo = words[1], !.hi = words[2], !.hw = words[3]],
          size |-> 3, fpca |-> FALSE]

Popped(words, ret) == IF core = "m0" THEN PopM0(words, ret) ELSE PopM4F(words, ret)

Words(stk, sp) == [i \in 1 .. 5 |-> stk[sp + i - 1]]

\* pend_sv_handler, or sys_tick_handler, with the task that
\* take_highest_prio_task returns.
Switch(next) ==
  LET sp   == psp - Len(Pushed)
      old  == [memory EXCEPT ![current_task] = Store(@, sp, Pushed)]
      stk  == [stack EXCEPT ![current_task] = sp]
      ret  == [exc_ret EXCEPT ![current_task] = IF fpca THEN "fpu" ELSE "basic"]
      load == Popped(Words(old[next], stk[next]), ret[next])
  IN
  /\ current_task # NULL
  /\ CanRun(next)
  /\ cpu' = load.regs
  /\ fpca' = load.fpca
  /\ psp' = stk[next] + load.size
  /\ memory' = [old EXCEPT ![next] = Drop(@, stk[next] + load.size)]
  /\ stack' = stk
  /\ exc_ret' = ret
  /\ current_task' = next
  /\ life' = [life EXCEPT ![next] = "live"]
  /\ UNCHANGED core

-----------------------------------------------------------------------------
Computes ==
  \E t \in Task :
    \/ \E v \in Value : \/ \E g \in {"hw", "lo", "hi"} : Compute(t, g, v)
                        \/ \E g \in {"fplo", "fphi"} : ComputeFp(t, g, v)
                        \/ Push(t, v)
    \/ Pop(t)

Next ==
  \/ Computes
  \/ \E t \in Task : TaskInit(t) \/ StartTasks(t) \/ Return(t) \/ Switch(t)

Spec == Init /\ [][Next]_vars

-----------------------------------------------------------------------------
TypeOK ==
  /\ core \in {"m0", "m4f"}
  /\ cpu \in [Group -> Value \cup Task]
  /\ fpca \in BOOLEAN /\ (fpca => core = "m4f")
  /\ psp \in StackTop - MaxOwn .. StackTop
  /\ memory \in [Task -> [Address -> Value \cup Task]]
  /\ stack \in [Task -> 1 .. StackTop]
  /\ exc_ret \in [Task -> {"basic", "fpu"}]
  /\ current_task \in Task \cup {NULL}
  /\ life \in [Task -> {"stopped", "created", "live"}]

\* The registers of a task: in the processor, or on its stack.
Registers(t) ==
  LET w == Words(memory[t], stack[t]) IN
  CASE t = current_task ->
         [cpu EXCEPT !.fplo = IF fpca THEN @ ELSE NULL, !.fphi = IF fpca THEN @ ELSE NULL]
    [] t # current_task /\ exc_ret[t] = "fpu" ->
         [fphi |-> w[1], lo |-> w[2], hi |-> w[3], hw |-> w[4], fplo |-> w[5]]
    [] OTHER ->
         [lo |-> w[1], hi |-> w[2], hw |-> w[3], fplo |-> NULL, fphi |-> NULL]

StackPointer(t) ==
  IF t = current_task THEN psp
  ELSE stack[t] + (IF exc_ret[t] = "fpu" THEN 5 ELSE 3)

RegistersOf == [t \in Task |-> IF life[t] = "live" THEN Registers(t) ELSE NULL]

OwnOf == [t \in Task |-> IF life[t] = "live"
                           THEN SubSeq(memory[t], StackPointer(t), StackTop - 1)
                           ELSE <<>>]

V == INSTANCE VirtualCpu WITH regs <- RegistersOf, own <- OwnOf

\* Every task computes as if it had the processor for itself: its registers,
\* those of the FPU included, and what it has pushed are the same when it is
\* switched in again, whatever the others did in between; and it starts with its
\* task_t as the argument and an empty stack.
ImplementsVirtualCpu == V!Spec
=============================================================================
