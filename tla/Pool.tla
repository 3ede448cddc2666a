-------------------------------- MODULE Pool --------------------------------
(***************************************************************************)
(* What the pool allocator promises: a stack of free blocks.  A block has  *)
(* at most one holder, and a user is turned away only when none is free.   *)
(***************************************************************************)
EXTENDS Sequences

CONSTANTS User, Block, InOrder, NULL

VARIABLES
  free,     (* the free blocks, the next one to be taken first             *)
  holder,   (* who holds each block, or NULL                               *)
  answer    (* what the last take of each user returned                    *)

Init ==
  /\ free = InOrder
  /\ holder = [b \in Block |-> NULL]
  /\ answer = [u \in User |-> NULL]

Take(u) ==
  /\ free # <<>>
  /\ free' = Tail(free)
  /\ holder' = [holder EXCEPT ![Head(free)] = u]
  /\ answer' = [answer EXCEPT ![u] = Head(free)]

TakeNothing(u) ==
  /\ \A b \in Block : holder[b] # NULL
  /\ answer' = [answer EXCEPT ![u] = NULL]
  /\ UNCHANGED <<free, holder>>

Give(u, b) ==
  /\ holder[b] = u
  /\ holder' = [holder EXCEPT ![b] = NULL]
  /\ free' = <<b>> \o free
  /\ UNCHANGED answer

Next == \E u \in User : Take(u) \/ TakeNothing(u) \/ \E b \in Block : Give(u, b)

Spec == Init /\ [][Next]_<<free, holder, answer>>
=============================================================================
