--------------------------- MODULE MCKernelLists ---------------------------
(* An instance of KernelLists for TLC.                                     *)
EXTENDS KernelLists, TLC

CONSTANTS a, b, c, r1

\* Two tasks of one level, and a less urgent one.
TwoHighOneLow == (a :> {0}) @@ (b :> {0}) @@ (c :> {1}) @@ (Idle :> {NUM_PRIO_LEVELS - 1})
=============================================================================
