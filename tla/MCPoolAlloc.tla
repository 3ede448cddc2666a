---------------------------- MODULE MCPoolAlloc ----------------------------
(* An instance of PoolAlloc for TLC.                                       *)
EXTENDS PoolAlloc, TLC

CONSTANTS u1, u2
=============================================================================
