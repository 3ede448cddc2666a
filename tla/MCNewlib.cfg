\* A task and idle_task compute on either core, or two tasks call the library.
CONSTANTS
  a = a
  b = b
  Idle = Idle
  NULL = NULL
  Global = Global
  Task = {a, b, Idle}
  Value = {0, 1}
  MaxOwn = 1
  TasksOf <- Tasks
  MaxIncrement = 2
  MainStackPointer = 3
SPECIFICATION LibSpec
INVARIANTS
  LibTypeOK
  ErrnoLostOnlyAtStart
PROPERTIES
  ImplementsVirtualCpu
  SbrkExclusive
