----------------------------- MODULE VirtualCpu -----------------------------
(***************************************************************************)
(* What a context switch promises: every task computes as if it had a      *)
(* processor of its own.  Nothing but its own steps changes its registers  *)
(* or what it has pushed on its stack.                                     *)
(***************************************************************************)
EXTENDS Sequences

CONSTANTS Task, Idle, Value, NULL

VARIABLES
  life,   (* "stopped", "created", or "live" once it has run               *)
  regs,   (* the registers of each live task; those of the FPU are NULL    *)
          (* until it uses one                                             *)
  own     (* what each task has pushed on its stack, the last first        *)

Init ==
  /\ life = [t \in Task |-> IF t = Idle THEN "created" ELSE "stopped"]
  /\ regs = [t \in Task |-> NULL]
  /\ own  = [t \in Task |-> <<>>]

Create(t) ==
  /\ life[t] = "stopped"
  /\ life' = [life EXCEPT ![t] = "created"]
  /\ UNCHANGED <<regs, own>>

\* __task_runner runs with the task as its argument and an empty stack; the
\* other registers hold anything.
Start(t) ==
  /\ life[t] = "created"
  /\ life' = [life EXCEPT ![t] = "live"]
  /\ \E x, y \in Value :
       regs' = [regs EXCEPT ![t] =
                  [hw |-> t, lo |-> x, hi |-> y, fplo |-> NULL, fphi |-> NULL]]
  /\ UNCHANGED own

Compute(t, g, v) ==
  /\ life[t] = "live"
  /\ regs' = [regs EXCEPT ![t][g] = v]
  /\ UNCHANGED <<life, own>>

\* The first use of the FPU finds anything in its other registers.
FirstUseOfFpu(t) ==
  /\ life[t] = "live"
  /\ regs[t].fplo = NULL
  /\ \E x, y \in Value : regs' = [regs EXCEPT ![t].fplo = x, ![t].fphi = y]
  /\ UNCHANGED <<life, own>>

Push(t, v) ==
  /\ life[t] = "live"
  /\ own' = [own EXCEPT ![t] = <<v>> \o @]
  /\ UNCHANGED <<life, regs>>

Pop(t) ==
  /\ life[t] = "live"
  /\ own[t] # <<>>
  /\ own' = [own EXCEPT ![t] = Tail(@)]
  /\ UNCHANGED <<life, regs>>

Return(t) ==
  /\ life[t] = "live"
  /\ life' = [life EXCEPT ![t] = "stopped"]
  /\ regs' = [regs EXCEPT ![t] = NULL]
  /\ own'  = [own EXCEPT ![t] = <<>>]

Next ==
  \E t \in Task :
    \/ Create(t) \/ Start(t) \/ Return(t)
    \/ FirstUseOfFpu(t)
    \/ \E v \in Value : \/ \E g \in {"hw", "lo", "hi"} : Compute(t, g, v)
                        \/ life[t] = "live" /\ regs[t].fplo # NULL
                             /\ \E g \in {"fplo", "fphi"} : Compute(t, g, v)
                        \/ Push(t, v)
    \/ Pop(t)

Spec == Init /\ [][Next]_<<life, regs, own>>
=============================================================================
