------------------------------ MODULE MCWaitUs ------------------------------
(* Instances of WaitUs for TLC.                                            *)
EXTENDS WaitUs, TLC
=============================================================================
