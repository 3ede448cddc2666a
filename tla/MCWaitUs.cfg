\* Ticks of 2 microseconds and 5 counts, and a lower half of os_tick_count that overflows.
CONSTANTS
  Period = 5
  us_per_tick = 2
  Word = 16
  HalfWord = 2
  MaxWait = 5
  MaxStart = 9
  MaxTime = 32
SPECIFICATION FairSpec
CHECK_DEADLOCK FALSE
INVARIANTS
  TypeOK
  ShortOnlyIfRaced
PROPERTIES
  WaitsEnd
  TickCountWhole
