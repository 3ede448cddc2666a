------------------------------- MODULE WaitUs -------------------------------
(***************************************************************************)
(* The clock (tasks.c).  In os_task_wait_us a task polls the tick counter  *)
(* and the SysTick timer until the time it has computed has come;          *)
(* os_get_tick_count reads the counter.                                    *)
(*                                                                         *)
(* The timer counts down from Period - 1 to 0 and starts again; that makes *)
(* the exception pending, which is taken at once unless interrupts are     *)
(* masked.  Time passes between any two steps of the task, also while other*)
(* tasks have the processor.                                               *)
(*                                                                         *)
(* os_tick_count has 64 bits and is not volatile: it is loaded in two      *)
(* halves, the lower first, in the loop of os_task_wait_us with interrupts *)
(* enabled.  The two loads that an iteration makes of it may be one load,  *)
(* but at -Og, which CMakeLists.txt sets for every build type, no load is  *)
(* moved out of the loop.                                                  *)
(*                                                                         *)
(* Definitions whose names end in Bug are mistakes, as in Kernel.          *)
(***************************************************************************)
EXTENDS Integers

CONSTANTS
  Period,        (* counts of the timer in a tick: its reload value plus 1 *)
  us_per_tick,
  Word,          (* systick values are of type uint32_t: 2^32              *)
  HalfWord,      (* what half of os_tick_count can count: 2^32             *)
  MaxWait,       (* bound: the longest wait, in microseconds               *)
  MaxStart,      (* bound: when the last wait starts                       *)
  MaxTime        (* bound: when time ends                                  *)

ASSUME WaitUsAssumption ==
  /\ Period \in Nat \ {0} /\ us_per_tick \in Nat \ {0}
  /\ Word \in Nat /\ Word >= 2 * Period
  /\ HalfWord \in Nat \ {0}
  /\ MaxWait \in Nat /\ MaxStart \in Nat /\ MaxTime \in Nat

VARIABLES
  now,                   (* the counts of the timer so far                 *)
  os_tick_count,
  pending,               (* the SysTick exception is pending               *)
  at,                    (* where the task is in os_task_wait_us, or       *)
                         (* "count" between the loads of os_get_tick_count *)
  wait_time_us,
  wait_until_systicks, wait_until_os_ticks,
  low,                   (* the lower half of os_tick_count, as loaded     *)
  start,                 (* when the call began                            *)
  raced                  (* what came in between in this call              *)

untils == <<wait_until_systicks, wait_until_os_ticks>>
vars == <<now, os_tick_count, pending, at, wait_time_us, untils, low,
          start, raced>>

systicks_per_us == Period \div us_per_tick

Init ==
  /\ now = 0
  /\ os_tick_count = 0
  /\ pending = FALSE
  /\ at = "idle"
  /\ wait_time_us = 0
  /\ wait_until_systicks = 0
  /\ wait_until_os_ticks = 0
  /\ low = 0
  /\ start = 0
  /\ raced = {}

-----------------------------------------------------------------------------
(* The timer.                                                              *)

reload_val == Period - 1
systick_get_value == reload_val - (now % Period)

\* Interrupts are not masked for as long as a tick.
Time ==
  /\ now < MaxTime
  /\ now' = now + 1
  /\ IF now' % Period = 0
       THEN ~pending /\ pending' = TRUE
       ELSE UNCHANGED pending
  /\ UNCHANGED <<os_tick_count, at, wait_time_us, untils, low, start, raced>>

\* Never unmasks.
MaskedBug == at \in {"timer", "ticks", "count", "adjust", "lower", "upper"}

\* Only what os_task_wait_us masks.
CountUnmaskedBug == at \in {"timer", "ticks"}

\* The CM_ATOMIC_BLOCK of os_task_wait_us, and os_get_tick_count.
Masked == at \in {"timer", "ticks", "count"}

\* sys_tick_handler
SysTick ==
  /\ pending /\ ~Masked
  /\ pending' = FALSE
  /\ os_tick_count' = os_tick_count + 1
  /\ raced' = IF at \in {"upper", "upper again"} /\ os_tick_count' % HalfWord = 0
                THEN raced \cup {"torn"} ELSE raced
  /\ UNCHANGED <<now, at, wait_time_us, untils, low, start>>

-----------------------------------------------------------------------------
(* The task.                                                               *)

\* An exception precedes the next instruction.
Runs == pending => Masked

Call(us) ==
  /\ Runs
  /\ at = "idle"
  /\ now <= MaxStart
  /\ at' = "timer"
  /\ wait_time_us' = us
  /\ start' = now
  /\ raced' = {}
  /\ UNCHANGED <<now, os_tick_count, pending, untils, low>>

remainder_systicks == (wait_time_us % us_per_tick) * systicks_per_us

ReadTimer ==
  /\ at = "timer"
  /\ wait_until_systicks' = (systick_get_value - remainder_systicks) % Word
  /\ raced' = IF pending THEN raced \cup {"pending"} ELSE raced
  /\ at' = "ticks"
  /\ UNCHANGED <<now, os_tick_count, pending, wait_time_us,
                 wait_until_os_ticks, low, start>>

ReadTicks ==
  /\ at = "ticks"
  /\ wait_until_os_ticks' = os_tick_count + wait_time_us \div us_per_tick
  /\ at' = "adjust"
  /\ UNCHANGED <<now, os_tick_count, pending, wait_time_us,
                 wait_until_systicks, low, start, raced>>

\* Forgets that a time that wraps is in the next tick.
AdjustBug ==
  /\ Runs
  /\ at = "adjust"
  /\ at' = "lower"
  /\ IF wait_until_systicks > reload_val
       THEN /\ wait_until_systicks' = (wait_until_systicks + reload_val) % Word
            /\ UNCHANGED wait_until_os_ticks
       ELSE UNCHANGED untils
  /\ UNCHANGED <<now, os_tick_count, pending, wait_time_us, low, start, raced>>

\* Forgets where the next tick starts.
ReloadBug ==
  /\ Runs
  /\ at = "adjust"
  /\ at' = "lower"
  /\ IF wait_until_systicks > reload_val
       THEN /\ wait_until_os_ticks' = wait_until_os_ticks + 1
            /\ UNCHANGED wait_until_systicks
       ELSE UNCHANGED untils
  /\ UNCHANGED <<now, os_tick_count, pending, wait_time_us, low, start, raced>>

Adjust ==
  /\ Runs
  /\ at = "adjust"
  /\ at' = "lower"
  /\ IF wait_until_systicks > reload_val
       THEN /\ wait_until_os_ticks' = wait_until_os_ticks + 1
            /\ wait_until_systicks' = (wait_until_systicks + reload_val) % Word
       ELSE UNCHANGED untils
  /\ UNCHANGED <<now, os_tick_count, pending, wait_time_us, low, start, raced>>

\* The loads of os_tick_count for the comparison < and, unless the compiler has
\* made them one, again for the comparison ==.
LoadLower ==
  /\ Runs
  /\ \/ at = "lower" /\ at' = "upper"
     \/ at = "lower again" /\ at' = "upper again"
  /\ low' = os_tick_count % HalfWord
  /\ UNCHANGED <<now, os_tick_count, pending, wait_time_us, untils, start, raced>>

Loaded == (os_tick_count \div HalfWord) * HalfWord + low

Compare(ticks) == IF ticks = wait_until_os_ticks THEN "value" ELSE "idle"

\* The compiler moves the loads out of the loop, as it may without -Og: a loop that
\* has seen too few ticks is empty.
LoadedOnceBug ==
  /\ Runs
  /\ at = "upper"
  /\ at' = IF Loaded < wait_until_os_ticks THEN "for ever" ELSE Compare(Loaded)
  /\ UNCHANGED <<now, os_tick_count, pending, wait_time_us, untils, low, start, raced>>

Loop ==
  /\ Runs
  /\ at = "upper"
  /\ IF Loaded < wait_until_os_ticks
       THEN at' = "lower"
       ELSE at' = "lower again" \/ at' = Compare(Loaded)
  /\ UNCHANGED <<now, os_tick_count, pending, wait_time_us, untils, low, start, raced>>

LoopAgain ==
  /\ Runs
  /\ at = "upper again"
  /\ at' = Compare(Loaded)
  /\ UNCHANGED <<now, os_tick_count, pending, wait_time_us, untils, low, start, raced>>

Poll ==
  /\ Runs
  /\ at = "value"
  /\ at' = IF systick_get_value > wait_until_systicks THEN "lower" ELSE "idle"
  /\ UNCHANGED <<now, os_tick_count, pending, wait_time_us, untils, low, start, raced>>

\* os_get_tick_count masks the interrupts, and loads os_tick_count.
GetTickCount ==
  /\ Runs
  /\ at = "idle"
  /\ at' = "count"
  /\ low' = os_tick_count % HalfWord
  /\ UNCHANGED <<now, os_tick_count, pending, wait_time_us, untils, start, raced>>

\* It returns Loaded.
GetTickCountReturn ==
  /\ Runs
  /\ at = "count"
  /\ at' = "idle"
  /\ UNCHANGED <<now, os_tick_count, pending, wait_time_us, untils, low, start, raced>>

-----------------------------------------------------------------------------
InCall == ReadTimer \/ ReadTicks \/ Adjust \/ LoadLower \/ Loop \/ LoopAgain \/ Poll
          \/ GetTickCountReturn

Next ==
  Time \/ SysTick \/ InCall \/ GetTickCount \/ \E us \in 0 .. MaxWait : Call(us)

Spec == Init /\ [][Next]_vars

\* Time goes on, a pending exception is taken, and the task gets the processor.
FairSpec ==
  Spec /\ WF_vars(Time) /\ WF_vars(SysTick) /\ SF_vars(InCall)

-----------------------------------------------------------------------------
TypeOK ==
  /\ now \in 0 .. MaxTime
  /\ os_tick_count = now \div Period - (IF pending THEN 1 ELSE 0)
  /\ at \in {"idle", "timer", "ticks", "adjust", "lower", "upper", "lower again",
             "upper again", "value", "count"}
  /\ wait_until_systicks \in 0 .. Word - 1
  /\ at = "lower" => wait_until_systicks <= reload_val
  /\ low \in 0 .. HalfWord - 1
  /\ raced \subseteq {"pending", "torn"}

\* So many counts of the timer are as long as the wait, but for what rounding
\* leaves out (in parts of a count: us_per_tick of them are one).
LongEnough(counts, rounded) ==
  counts * us_per_tick + rounded >= wait_time_us * Period

\* systicks_per_us is rounded down, and counts each microsecond after the whole
\* ticks.
Rounded == (wait_time_us % us_per_tick) * (Period % us_per_tick)

\* A wait is too short by no more than the rounding, unless the timer was read
\* while a tick was pending, and then by that tick too, or the halves of
\* os_tick_count that the loop has loaded are of different ticks.
ShortOnlyIfRaced ==
  (at = "idle" /\ "torn" \notin raced)
    => LongEnough(now - start + (IF "pending" \in raced THEN Period ELSE 0), Rounded)

\* The task waits for the supplied number of microseconds, or longer if it is
\* preempted.
WaitsLongEnough == at = "idle" => LongEnough(now - start, 0)

\* os_get_tick_count returns a count of the ticks that have been, and no mixture
\* of two, nor one that a tick has made stale.
TickCountWhole == [][GetTickCountReturn => Loaded = os_tick_count]_vars

\* The loop sees that the time has come, whichever loads the compiler has made one,
\* and os_get_tick_count returns.
WaitsEnd == at # "idle" ~> at = "idle"
=============================================================================
