\* Ticks of 2 microseconds, and a lower half of os_tick_count that overflows.
CONSTANTS
  Period = 4
  us_per_tick = 2
  Word = 16
  HalfWord = 2
  MaxWait = 5
  MaxStart = 9
  MaxTime = 28
SPECIFICATION FairSpec
CHECK_DEADLOCK FALSE
INVARIANT WaitsLongEnough
