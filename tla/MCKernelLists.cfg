\* The linked lists of the kernel, with three application tasks and one
\* resource.
CONSTANTS
  a = a
  b = b
  c = c
  Idle = Idle
  NULL = NULL
  r1 = r1
  Task = {a, b, c, Idle}
  Resource = {r1}
  NUM_PRIO_LEVELS = 2
  AppPriority <- TwoHighOneLow
  MaxSleep = 2
SPECIFICATION Spec
INVARIANTS
  LastIsLast
  AllTasksLinked
PROPERTIES
  ImplementsKernel
