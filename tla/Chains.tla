------------------------------- MODULE Chains -------------------------------
(***************************************************************************)
(* What a pointer to the first node of a linked list means.                *)
(***************************************************************************)
EXTENDS Integers, Sequences

\* The nodes met when following next from first to null, at most size of them:
\* a cycle shows as more nodes than there are.
Walk(first, next, node, null, size) ==
  LET walk[n \in 0 .. size] ==
        [t \in node \cup {null} |-> IF n = 0 \/ t = null THEN <<>>
                                      ELSE <<t>> \o walk[n - 1][next[t]]]
  IN walk[size][first]
=============================================================================
