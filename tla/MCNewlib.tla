------------------------------ MODULE MCNewlib ------------------------------
(* An instance of Newlib, and of the context switch, for TLC.              *)
EXTENDS Newlib, TLC

CONSTANTS a, b

\* idle_task computes as well.
Tasks == ("compute" :> {a}) @@ ("files" :> {a, b}) @@ ("heap" :> {a, b})
=============================================================================
