-------------------------------- MODULE Fifo --------------------------------
(***************************************************************************)
(* What a mailbox promises its users: a bounded first-in first-out queue.  *)
(***************************************************************************)
EXTENDS Naturals, Sequences

CONSTANTS Message, Capacity

VARIABLES
  queue,   (* the messages in the mailbox                                  *)
  last     (* what the last successful read returned                       *)

Put(m) ==
  /\ Len(queue) < Capacity
  /\ queue' = Append(queue, m)
  /\ UNCHANGED last

Get ==
  /\ queue # <<>>
  /\ last' = Head(queue)
  /\ queue' = Tail(queue)

Spec == queue = <<>> /\ [][Get \/ \E m \in Message : Put(m)]_<<queue, last>>
=============================================================================
