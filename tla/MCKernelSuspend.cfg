\* A tick between the two stores of os_task_suspend_self.
CONSTANTS
  a = a
  b = b
  c = c
  Idle = Idle
  NULL = NULL
  r1 = r1
  Task = {a, b, c, Idle}
  Resource = {}
  NUM_PRIO_LEVELS = 2
  AppPriority <- TwoHighOneLow
  MaxSleep = 0
SPECIFICATION Spec
PROPERTIES
  SuspendedUntilUnsuspended
