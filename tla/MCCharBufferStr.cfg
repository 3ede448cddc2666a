\* os_char_buffer_write_str_blocking writes its first character for ever.
CONSTANTS
  x = x
  y = y
  NULL = NULL
  Message = {x, y}
  Capacity = 2
  WriteOps = {"write_str_blocking"}
  ReadOps = {"read_ch", "read_ch_blocking", "read_buf", "read_buf_blocking"}
  MaxLen = 2
SPECIFICATION CharSpec
INVARIANTS
  PutsAPrefix
\* A side that is stuck, in the sense of CharBuffer, takes no step.
CHECK_DEADLOCK FALSE
