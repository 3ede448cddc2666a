\* A message of more than 255 bytes, which the counters cannot reach.
CONSTANTS
  p1 = p1
  p2 = p2
  c1 = c1
  c2 = c2
  x = x
  y = y
  NULL = NULL
  NumMsgs = 2
  MsgSize = 300
  Payload = {x}
  Producer = {p1}
  Consumer = {c1}
  Batch = 1
SPECIFICATION FairSpec
PROPERTIES
  CallsReturn
