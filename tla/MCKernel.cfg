\* Safety and liveness of the kernel with three application tasks and a resource.
CONSTANTS
  a = a
  b = b
  c = c
  Idle = Idle
  NULL = NULL
  r1 = r1
  Task = {a, b, c, Idle}
  Resource = {r1}
  NUM_PRIO_LEVELS = 3
  AppPriority <- Mixed
  MaxSleep = 1
SPECIFICATION FairSpec
INVARIANTS
  TypeOK
  QueuesMatchStates
  AlwaysATaskToRun
  NoLostWakeup
  IInv
PROPERTIES
  OnlyAddDelaysPriority
  SleepersWakeOnTime
  HighestWaiterFirst
  OnlyUrgentBarge
  OnlyWokenOvertake
  WaitersKeepTheirTurn
  SuspendedStays
  EqualsTakeTurns
  TopWaiterServed
