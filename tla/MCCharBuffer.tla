---------------------------- MODULE MCCharBuffer ----------------------------
(* Instances of CharBuffer for TLC.                                        *)
EXTENDS CharBuffer, TLC

CONSTANTS x, y
=============================================================================
