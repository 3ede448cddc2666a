\* Producers and consumers preempt each other at every access.
CONSTANTS
  p1 = p1
  p2 = p2
  c1 = c1
  c2 = c2
  x = x
  y = y
  NULL = NULL
  NumMsgs = 3
  MsgSize = 2
  Payload = {x, y}
  Producer = {p1, p2}
  Consumer = {c1, c2}
  Batch = 3
SPECIFICATION Spec
INVARIANTS
  TypeOK
  SlotsApart
  NothingUnnoticed
PROPERTIES
  ImplementsFifo
  NoFalseRefusal
