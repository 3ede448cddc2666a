\* All functions but write_str_blocking, and the Rust channels, with calls longer
\* than the buffer.
CONSTANTS
  x = x
  y = y
  NULL = NULL
  Message = {x, y}
  Capacity = 1
  WriteOps = {"write_ch", "write_ch_blocking", "write_buf", "write_buf_blocking", "write_str", "send"}
  ReadOps = {"read_ch", "read_ch_blocking", "read_buf", "read_buf_blocking", "recv"}
  MaxLen = 2
SPECIFICATION FairSpec
INVARIANTS
  TypeOK
  PutsAPrefix
  BlockingMovesAll
PROPERTIES
  WritesReturn
  ReadsReturn
\* A side that is stuck, in the sense of CharBuffer, takes no step.
CHECK_DEADLOCK FALSE
