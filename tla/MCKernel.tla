------------------------------ MODULE MCKernel ------------------------------
(* Instances of Kernel for TLC.                                            *)
EXTENDS KernelProofs, TLC

CONSTANTS a, b, c, r1

IdlePriority == Idle :> {NUM_PRIO_LEVELS - 1}

\* Two tasks of one level, and a less urgent one.
TwoHighOneLow == (a :> {0}) @@ (b :> {0}) @@ (c :> {1}) @@ IdlePriority

\* One task outranks the others; one may change its level when it is
\* re-initialised, and one shares that of the idle task.
Mixed == (a :> {0}) @@ (b :> {1, 2}) @@ (c :> {2}) @@ IdlePriority
=============================================================================
