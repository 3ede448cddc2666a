---------------------------- MODULE WaitUsProofs ----------------------------
(***************************************************************************)
(* Theorems about the clock, for any period of the timer, any length of a  *)
(* tick in microseconds, and any wait.                                     *)
(*                                                                         *)
(* The remaining value of the timer and the count of the ticks together    *)
(* are a time, Until; the loop ends no earlier.  Whether the two belong    *)
(* together is what the invariant is about.                                *)
(***************************************************************************)
EXTENDS WaitUs, TLAPS

\* Ticks that have not been counted yet.
Pending == IF pending THEN 1 ELSE 0

\* The tick by which the count was behind when the timer was read.
Raced == IF "pending" \in raced THEN 1 ELSE 0

\* What the wait comes to in counts of the timer.
Counts == (wait_time_us \div us_per_tick) * Period + remainder_systicks

\* The time that the loop waits for.
Until == (wait_until_os_ticks + Raced) * Period + reload_val - wait_until_systicks

\* The timer was read at time m.
ReadAt(m) ==
  /\ m \in start .. now
  /\ wait_until_systicks = (reload_val - (m % Period) - remainder_systicks) % Word

\* Both values are computed.
InLoop == at \in {"lower", "upper", "lower again", "upper again", "value"}

\* What TypeOK leaves out.
Types ==
  /\ now \in Nat /\ start \in 0 .. now
  /\ pending \in BOOLEAN
  /\ os_tick_count \in Nat
  /\ wait_time_us \in 0 .. MaxWait
  /\ wait_until_os_ticks \in Nat

\* What the task knows of the time at which it has read the timer.
TimerRead ==
  /\ at = "timer" => raced = {}
  /\ at = "ticks" =>
       \E m \in Nat : ReadAt(m) /\ os_tick_count = m \div Period - Raced
  /\ at = "adjust" =>
       \E m \in Nat : /\ ReadAt(m)
                      /\ wait_until_os_ticks = m \div Period - Raced
                                               + wait_time_us \div us_per_tick

\* The loop waits for a time that is late enough.
UntilIsLate ==
  InLoop => wait_until_systicks <= reload_val /\ Until >= start + Counts

\* The loop sees no tick that has not been.
TicksHaveBeen ==
  "torn" \notin raced =>
    /\ at \in {"upper", "upper again"} => Loaded <= os_tick_count
    /\ at \in {"lower again", "value"} => wait_until_os_ticks <= os_tick_count
    /\ at = "upper again" => wait_until_os_ticks <= Loaded
    /\ at \in {"idle", "count"} => now - start + Raced * Period >= Counts

\* The lower half that os_get_tick_count has loaded.
CountIsFresh == at = "count" => low = os_tick_count % HalfWord

\* The inductive invariant.
WInv ==
  TypeOK /\ Types /\ TimerRead /\ UntilIsLate /\ TicksHaveBeen /\ CountIsFresh

-----------------------------------------------------------------------------
(* Arithmetic.                                                             *)

\* \div and % of natural numbers.
LEMMA DivMod ==
  ASSUME NEW n \in Nat, NEW d \in Nat \ {0}
  PROVE  /\ n \div d \in Nat
         /\ n % d \in 0 .. d - 1
         /\ n = (n \div d) * d + (n % d)
  <1>1. PICK q \in Nat : q = n \div d
    OBVIOUS
  <1>2. n - d * q \in 0 .. d - 1
    BY <1>1
  <1>3. PICK r \in 0 .. d - 1 : r = n - d * q
    BY <1>2
  <1>4. n = d * q + r
    BY <1>3
  <1>5. n % d = r
    BY <1>4
  <1> QED BY <1>1, <1>3, <1>4, <1>5

\* They count on from one tick to the next.
LEMMA NextTick ==
  ASSUME NEW n \in Nat, NEW d \in Nat \ {0}
  PROVE  IF (n + 1) % d = 0 THEN (n + 1) \div d = (n \div d) + 1
                            ELSE (n + 1) \div d = n \div d
  <1>1. CASE (n + 1) % d = 0
    BY <1>1
  <1>2. CASE (n + 1) % d # 0
    BY <1>2
  <1> QED BY <1>1, <1>2

\* Unsigned integers wrap.
LEMMA Wraps ==
  ASSUME NEW w \in Nat \ {0}, NEW x \in Int
  PROVE  /\ x % w \in 0 .. w - 1
         /\ x \in 0 .. w - 1 => x % w = x
         /\ x \in (-w) .. -1 => x % w = x + w
         /\ x \in w .. 2 * w - 1 => x % w = x - w
  <1>1. x % w \in 0 .. w - 1
    OBVIOUS
  <1>2. x \in 0 .. w - 1 => x % w = x
    OBVIOUS
  <1>3. x \in (-w) .. -1 => x % w = x + w
    OBVIOUS
  <1>4. x \in w .. 2 * w - 1 => x % w = x - w
    OBVIOUS
  <1> QED BY <1>1, <1>2, <1>3, <1>4

\* From a remaining value of the timer to the time when it will be reached, in
\* this tick or the next.
LEMMA UntilInCounts ==
  ASSUME NEW p \in Nat \ {0}, NEW d \in Nat, NEW e \in Nat, NEW q \in Nat, NEW s \in Nat,
         NEW x \in Int, x = p - 1 - e - s
  PROVE  /\ (d + q) * p + (p - 1) - x = d * p + e + q * p + s
         /\ (d + q + 1) * p + (p - 1) - (x + p - 1) = d * p + e + q * p + s + 1
  <1>1. (d + q) * p = d * p + q * p /\ (d + q + 1) * p = d * p + q * p + p
    OBVIOUS
  <1>2. d * p \in Nat /\ q * p \in Nat
    OBVIOUS
  <1>3. (d + q) * p + (p - 1) - x = d * p + e + q * p + s
    BY <1>1, <1>2
  <1>4. (d + q + 1) * p + (p - 1) - (x + p - 1) = d * p + e + q * p + s + 1
    BY <1>1, <1>2
  <1> QED BY <1>3, <1>4

\* The microseconds after the whole ticks are less than a tick.
LEMMA RemainderFits ==
  ASSUME wait_time_us \in Nat
  PROVE  /\ remainder_systicks \in 0 .. Period - 1
         /\ wait_time_us \div us_per_tick \in Nat
         /\ Counts \in Nat
  <1>1. Period \in Nat \ {0} /\ us_per_tick \in Nat \ {0}
    BY WaitUsAssumption
  <1>2. PICK r \in 0 .. us_per_tick - 1 : r = wait_time_us % us_per_tick
    BY <1>1, DivMod
  <1>3. PICK q \in Nat : q = wait_time_us \div us_per_tick
    BY <1>1, DivMod
  <1>4. PICK s \in Nat : s = systicks_per_us /\ s * us_per_tick <= Period
    <2>1. Period \div us_per_tick \in Nat /\ Period % us_per_tick \in Nat
          /\ Period = (Period \div us_per_tick) * us_per_tick + (Period % us_per_tick)
      BY <1>1, DivMod
    <2> QED BY <1>1, <2>1 DEF systicks_per_us
  <1>5. remainder_systicks = r * s
    BY <1>2, <1>4 DEF remainder_systicks
  <1>6. r * s \in 0 .. Period - 1
    <2>1. CASE s = 0
      BY <1>1, <2>1
    <2>2. CASE s # 0
      <3>1. r * s <= (us_per_tick - 1) * s
        BY <1>1
      <3>2. (us_per_tick - 1) * s = s * us_per_tick - s
        BY <1>1
      <3>3. r * s \in Nat
        OBVIOUS
      <3> QED BY <1>1, <1>4, <2>2, <3>1, <3>2, <3>3
    <2> QED BY <2>1, <2>2
  <1>7. q * Period \in Nat
    BY <1>1
  <1>8. Counts = q * Period + r * s
    BY <1>3, <1>5 DEF Counts
  <1> QED BY <1>1, <1>3, <1>5, <1>6, <1>7, <1>8

\* Counts is the wait, but for the rounding of systicks_per_us.
LEMMA CountsAreEnough ==
  ASSUME wait_time_us \in Nat, NEW c \in Nat, c >= Counts
  PROVE  LongEnough(c, Rounded)
  <1> DEFINE u == us_per_tick
             P == Period
             w == wait_time_us
  <1>1. P \in Nat \ {0} /\ u \in Nat \ {0} /\ w \in Nat
    BY WaitUsAssumption
  <1> HIDE DEF u, P, w
  <1>2. /\ w \div u \in Nat /\ w % u \in Nat
        /\ w = (w \div u) * u + (w % u)
    BY <1>1, DivMod
  <1>3. /\ P \div u \in Nat /\ P % u \in Nat
        /\ P = (P \div u) * u + (P % u)
    <2>1. P \in Nat /\ u \in Nat \ {0}
      BY <1>1
    <2> QED BY ONLY <2>1, DivMod
  <1>4. PICK q \in Nat, r \in Nat : q = w \div u /\ r = w % u
    BY <1>2
  <1>5. PICK s \in Nat, v \in Nat : s = P \div u /\ v = P % u
    BY <1>3
  <1>6. Counts = q * P + r * s /\ Rounded = r * v
    BY <1>4, <1>5 DEF Counts, Rounded, remainder_systicks, systicks_per_us, u, P, w
  <1>7. w = q * u + r /\ P = s * u + v
    BY <1>2, <1>3, <1>4, <1>5
  <1>8. c * u >= (q * P + r * s) * u
    BY <1>1, <1>6
  <1>9. (q * P + r * s) * u = q * P * u + r * s * u
    BY <1>1
  <1>10. w * P = q * u * P + r * P
    BY <1>1, <1>7
  <1>11. r * P = r * s * u + r * v
    BY <1>1, <1>7
  <1>12. q * P * u = q * u * P
    BY <1>1
  <1>13. c * u + r * v >= w * P
    <2>1. /\ c * u \in Int /\ r * v \in Int /\ w * P \in Int /\ r * P \in Int
          /\ q * P * u \in Int /\ r * s * u \in Int /\ (q * P + r * s) * u \in Int
      BY <1>1
    <2> QED BY <1>8, <1>9, <1>10, <1>11, <1>12, <2>1
  <1> QED BY <1>6, <1>13 DEF LongEnough, u, P, w

-----------------------------------------------------------------------------
(* The invariant.                                                          *)

\* What the types come to.
LEMMA Numbers ==
  ASSUME TypeOK, Types
  PROVE  /\ Period \in Nat \ {0} /\ HalfWord \in Nat \ {0}
         /\ Word \in Nat \ {0} /\ Word >= 2 * Period
         /\ reload_val = Period - 1
         /\ wait_until_systicks \in Nat /\ low \in Nat
         /\ Loaded \in Nat /\ Counts \in Nat
         /\ Raced \in {0, 1} /\ Pending \in {0, 1}
         /\ os_tick_count = now \div Period - Pending
         /\ now = (os_tick_count + Pending) * Period + (now % Period)
         /\ now % Period \in 0 .. Period - 1
  <1>1. Period \in Nat \ {0} /\ HalfWord \in Nat \ {0} /\ Word \in Nat \ {0}
        /\ Word >= 2 * Period
    BY WaitUsAssumption
  <1>2. wait_until_systicks \in Nat /\ low \in Nat
    <2>1. wait_until_systicks \in 0 .. Word - 1 /\ low \in 0 .. HalfWord - 1
      BY DEF TypeOK
    <2> QED BY <1>1, <2>1
  <1>3. Loaded \in Nat
    <2>1. os_tick_count \div HalfWord \in Nat
      BY <1>1, DivMod DEF Types
    <2> QED BY <1>1, <1>2, <2>1 DEF Loaded
  <1>4. Counts \in Nat
    BY RemainderFits DEF Types
  <1>5. Raced \in {0, 1} /\ Pending \in {0, 1}
    BY DEF Raced, Pending
  <1>6. os_tick_count = now \div Period - Pending
    BY DEF TypeOK, Pending
  <1>7. /\ now \div Period \in Nat /\ now % Period \in 0 .. Period - 1
        /\ now = (now \div Period) * Period + (now % Period)
    BY <1>1, DivMod DEF Types
  <1>8. os_tick_count + Pending = now \div Period
    BY <1>5, <1>6, <1>7
  <1> QED BY <1>1, <1>2, <1>3, <1>4, <1>5, <1>6, <1>7, <1>8 DEF reload_val

\* The invariant holds before the first call.
LEMMA InitWInv ==
  Init => WInv
  <1> SUFFICES ASSUME Init PROVE WInv
    OBVIOUS
  <1>1. Period \in Nat \ {0} /\ us_per_tick \in Nat \ {0} /\ HalfWord \in Nat \ {0}
        /\ Word \in Nat /\ Word >= 2 * Period /\ MaxTime \in Nat /\ MaxWait \in Nat
    BY WaitUsAssumption
  <1>2. 0 \div Period = 0 /\ 0 \div us_per_tick = 0 /\ 0 % us_per_tick = 0
    BY <1>1
  <1>3. TypeOK
    BY <1>1, <1>2 DEF Init, TypeOK
  <1>4. Types
    <2>1. now = 0 /\ start = 0 /\ os_tick_count = 0 /\ wait_time_us = 0
          /\ wait_until_os_ticks = 0
      BY DEF Init
    <2>2. pending \in BOOLEAN
      BY DEF Init
    <2> QED BY <1>1, <2>1, <2>2 DEF Types
  <1>5. TicksHaveBeen
    <2>1. systicks_per_us \in Nat
      BY <1>1, DivMod DEF systicks_per_us
    <2>2. Counts = 0
      BY <1>1, <1>2, <2>1 DEF Init, Counts, remainder_systicks
    <2>3. Raced = 0
      BY DEF Init, Raced
    <2> QED BY <1>1, <2>2, <2>3 DEF Init, TicksHaveBeen
  <1> QED BY <1>3, <1>4, <1>5
          DEF Init, WInv, TimerRead, UntilIsLate, InLoop, CountIsFresh

\* Time goes by.
LEMMA TimeWInv ==
  WInv /\ Time => WInv'
  <1> SUFFICES ASSUME WInv, Time PROVE WInv'
    OBVIOUS
  <1> USE DEF WInv, Time
  <1>1. UNCHANGED <<os_tick_count, at, wait_time_us, wait_until_systicks,
                    wait_until_os_ticks, low, start, raced>>
    BY DEF untils
  <1>2. now \in Nat /\ now < MaxTime /\ now' = now + 1
    BY DEF Types
  <1>3. Period \in Nat \ {0} /\ MaxTime \in Nat
    BY WaitUsAssumption
  <1>4. pending' \in BOOLEAN
    BY <1>2 DEF Types
  <1>5. now' \div Period - (IF pending' THEN 1 ELSE 0) = os_tick_count
    <2>1. now \div Period \in Nat
      BY <1>2, <1>3, DivMod
    <2>2. os_tick_count = now \div Period - (IF pending THEN 1 ELSE 0)
      BY DEF TypeOK
    <2>3. CASE now' % Period = 0
      <3>1. ~pending /\ pending'
        BY <2>3
      <3>2. now' \div Period = (now \div Period) + 1
        BY <1>2, <1>3, <2>3, NextTick
      <3> QED BY <2>1, <2>2, <3>1, <3>2
    <2>4. CASE now' % Period # 0
      <3>1. pending' = pending
        BY <2>4
      <3>2. now' \div Period = now \div Period
        BY <1>2, <1>3, <2>4, NextTick
      <3> QED BY <2>2, <3>1, <3>2
    <2> QED BY <2>3, <2>4
  <1>6. TypeOK'
    <2>1. now' \in 0 .. MaxTime
      BY <1>2, <1>3
    <2>2. UNCHANGED reload_val
      BY DEF reload_val
    <2> QED BY <1>1, <1>5, <2>1, <2>2 DEF TypeOK
  <1>7. Types'
    BY <1>1, <1>2, <1>4 DEF Types
  <1>8. Raced' = Raced /\ Counts' = Counts /\ Until' = Until /\ Loaded' = Loaded
        /\ remainder_systicks' = remainder_systicks
    BY <1>1 DEF Raced, Counts, remainder_systicks, Until, Loaded, reload_val
  <1>9. TimerRead'
    <2>1. ASSUME NEW m \in Nat, ReadAt(m) PROVE ReadAt(m)'
      BY <1>1, <1>2, <1>8, <2>1 DEF ReadAt, Types, reload_val
    <2> QED BY <1>1, <1>8, <2>1 DEF TimerRead
  <1>10. UntilIsLate'
    BY <1>1, <1>8 DEF UntilIsLate, InLoop, reload_val
  <1>11. TicksHaveBeen'
    <2>1. Raced * Period \in Int /\ Counts \in Nat /\ start \in Nat
      <3>1. Raced \in {0, 1} /\ Period \in Nat /\ Counts \in Nat
        BY Numbers
      <3>2. start \in 0 .. now
        BY DEF Types
      <3> QED BY <1>2, <3>1, <3>2
    <2>2. now - start + Raced * Period >= Counts
            => now' - start + Raced * Period >= Counts
      BY <1>2, <2>1
    <2>3. now' - start' + Raced' * Period = now' - start + Raced * Period
      BY <1>1, <1>8
    <2> QED BY <1>1, <1>8, <2>2, <2>3 DEF TicksHaveBeen
  <1>12. CountIsFresh'
    BY <1>1 DEF CountIsFresh
  <1> QED BY <1>6, <1>7, <1>9, <1>10, <1>11, <1>12

\* A tick comes while the loop runs.
LEMMA SysTickWInv ==
  WInv /\ SysTick => WInv'
  <1> SUFFICES ASSUME WInv, SysTick PROVE WInv'
    OBVIOUS
  <1> USE DEF WInv, SysTick
  <1>1. UNCHANGED <<now, at, wait_time_us, wait_until_systicks,
                    wait_until_os_ticks, low, start>>
    BY DEF untils
  <1>2. os_tick_count \in Nat /\ os_tick_count' = os_tick_count + 1
    BY DEF Types
  <1>13. pending = TRUE /\ pending' = FALSE
    BY DEF Types
  <1>3. at \notin {"timer", "ticks", "count"}
    BY DEF Masked
  <1>4. now \div Period \in Nat
    <2>1. now \in Nat /\ Period \in Nat \ {0}
      BY WaitUsAssumption DEF Types
    <2> QED BY <2>1, DivMod
  <1>5. TypeOK'
    <2>1. os_tick_count = now \div Period - 1
      BY <1>13 DEF TypeOK
    <2>2. os_tick_count' = now' \div Period - (IF pending' THEN 1 ELSE 0)
      <3>1. os_tick_count' = now \div Period
        BY ONLY <1>2, <1>4, <2>1
      <3>2. (IF pending' THEN 1 ELSE 0) = 0
        BY <1>13
      <3>3. now' \div Period \in Nat /\ now' \div Period = now \div Period
        BY <1>1, <1>4
      <3>4. now' \div Period - 0 = now \div Period
        BY ONLY <1>4, <3>3
      <3> QED BY <3>1, <3>2, <3>4
    <2>3. raced' \subseteq {"pending", "torn"}
      BY DEF TypeOK
    <2>4. UNCHANGED reload_val
      BY DEF reload_val
    <2> QED BY <1>1, <2>2, <2>3, <2>4 DEF TypeOK
  <1>6. Types'
    <2>1. os_tick_count' \in Nat
      BY ONLY <1>2
    <2> QED BY <1>1, <1>13, <2>1 DEF Types
  <1>7. Raced' = Raced
    BY DEF Raced
  <1>8. Counts' = Counts /\ Until' = Until /\ remainder_systicks' = remainder_systicks
    BY <1>1, <1>7 DEF Counts, remainder_systicks, Until, reload_val
  <1>9. TimerRead'
    BY <1>1, <1>3, <1>7, <1>8 DEF TimerRead, ReadAt, reload_val
  <1>10. UntilIsLate'
    BY <1>1, <1>8 DEF UntilIsLate, InLoop, reload_val
  <1>11. TicksHaveBeen'
    <2> SUFFICES ASSUME "torn" \notin raced' PROVE TicksHaveBeen'
      BY DEF TicksHaveBeen
    <2>1. "torn" \notin raced
      OBVIOUS
    <2>2. ASSUME at \in {"upper", "upper again"} PROVE Loaded' = Loaded
      <3>1. os_tick_count' % HalfWord # 0
        BY <2>2
      <3>2. os_tick_count' \div HalfWord = os_tick_count \div HalfWord
        <4>1. HalfWord \in Nat \ {0}
          BY WaitUsAssumption
        <4> QED BY <1>2, <3>1, <4>1, NextTick
      <3> QED BY <1>1, <3>2 DEF Loaded
    <2>3. Loaded \in Nat /\ wait_until_os_ticks \in Nat
      BY Numbers DEF Types
    <2>4. /\ Loaded <= os_tick_count => Loaded <= os_tick_count'
          /\ wait_until_os_ticks <= os_tick_count
               => wait_until_os_ticks <= os_tick_count'
      BY ONLY <1>2, <2>3
    <2>5. now' - start' + Raced' * Period = now - start + Raced * Period
      BY <1>1, <1>7
    <2> QED BY <1>1, <1>8, <2>1, <2>2, <2>4, <2>5 DEF TicksHaveBeen
  <1>12. CountIsFresh'
    BY <1>1, <1>3 DEF CountIsFresh
  <1> QED BY <1>5, <1>6, <1>9, <1>10, <1>11, <1>12

\* A step of the task: it takes no time, and only a call starts another wait.
Step ==
  /\ UNCHANGED <<now, os_tick_count, pending>>
  /\ at' \in {"idle", "timer", "ticks", "adjust", "lower", "upper", "lower again",
              "upper again", "value", "count"}

\* Such a step keeps the types of what it leaves alone.
LEMMA StepTypes ==
  ASSUME TypeOK, Types, Step,
         wait_until_systicks' \in 0 .. Word - 1,
         at' = "lower" => wait_until_systicks' <= reload_val,
         low' \in 0 .. HalfWord - 1, raced' \subseteq {"pending", "torn"},
         start' \in 0 .. now, wait_time_us' \in 0 .. MaxWait,
         wait_until_os_ticks' \in Nat
  PROVE  TypeOK' /\ Types'
  <1> USE DEF Step
  <1>1. UNCHANGED reload_val
    BY DEF reload_val
  <1>2. os_tick_count' = now' \div Period - (IF pending' THEN 1 ELSE 0)
    <2>1. os_tick_count = now \div Period - (IF pending THEN 1 ELSE 0)
      BY DEF TypeOK
    <2> QED BY <2>1
  <1>3. TypeOK'
    BY <1>1, <1>2 DEF TypeOK
  <1>4. Types'
    BY DEF Types
  <1> QED BY <1>3, <1>4

\* What a step inside the wait leaves alone.
LEMMA SameWait ==
  ASSUME UNCHANGED <<wait_time_us, start, raced>>
  PROVE  /\ UNCHANGED <<Raced, Counts, remainder_systicks, reload_val>>
         /\ UNCHANGED <<wait_until_systicks, wait_until_os_ticks>> => UNCHANGED Until
         /\ UNCHANGED <<os_tick_count, low>> => UNCHANGED Loaded
         /\ UNCHANGED <<now, wait_until_systicks>> => \A m \in Nat : ReadAt(m) => ReadAt(m)'
  BY DEF Raced, Counts, remainder_systicks, Until, Loaded, reload_val, ReadAt

\* A wait starts.
LEMMA CallWInv ==
  ASSUME WInv, NEW us \in 0 .. MaxWait, Call(us)
  PROVE  WInv'
  <1> USE DEF WInv, Call
  <1>1. /\ at' = "timer" /\ wait_time_us' = us /\ start' = now /\ raced' = {}
        /\ UNCHANGED <<now, os_tick_count, pending, wait_until_systicks,
                       wait_until_os_ticks, low>>
    BY DEF untils
  <1>2. now \in 0 .. now
    BY DEF Types
  <1>3. TypeOK' /\ Types'
    BY <1>1, <1>2, StepTypes DEF TypeOK, Types, Step
  <1> QED BY <1>1, <1>3
          DEF TimerRead, UntilIsLate, InLoop, TicksHaveBeen, CountIsFresh

\* The timer is read.
LEMMA ReadTimerWInv ==
  WInv /\ ReadTimer => WInv'
  <1> SUFFICES ASSUME WInv, ReadTimer PROVE WInv'
    OBVIOUS
  <1> USE DEF WInv, ReadTimer
  <1>1. /\ at = "timer" /\ at' = "ticks" /\ raced = {}
        /\ UNCHANGED <<now, os_tick_count, pending, wait_time_us,
                       wait_until_os_ticks, low, start>>
    BY DEF TimerRead
  <1>2. now \in Nat /\ start \in 0 .. now
    BY DEF Types
  <1>3. wait_until_systicks' \in 0 .. Word - 1
    <2>1. systick_get_value - remainder_systicks \in Int
      BY <1>2, Numbers, RemainderFits DEF systick_get_value, Types
    <2> QED BY <2>1, Wraps, Numbers
  <1>4. raced' \subseteq {"pending", "torn"}
    BY DEF TypeOK
  <1>5. TypeOK' /\ Types'
    BY <1>1, <1>3, <1>4, StepTypes DEF TypeOK, Types, Step
  <1>6. Raced' = Pending
    BY <1>1 DEF Raced, Pending
  <1>7. ReadAt(now)'
    <2>1. now' \in start' .. now'
      BY <1>1, <1>2
    <2> QED BY <1>1, <2>1 DEF ReadAt, systick_get_value, remainder_systicks, reload_val
  <1>8. os_tick_count' = now' \div Period - Raced'
    BY <1>1, <1>6, Numbers
  <1>9. TimerRead'
    BY <1>1, <1>2, <1>7, <1>8 DEF TimerRead
  <1> QED BY <1>1, <1>5, <1>9 DEF UntilIsLate, InLoop, TicksHaveBeen, CountIsFresh

\* The ticks are read.
LEMMA ReadTicksWInv ==
  WInv /\ ReadTicks => WInv'
  <1> SUFFICES ASSUME WInv, ReadTicks PROVE WInv'
    OBVIOUS
  <1> USE DEF WInv, ReadTicks
  <1>1. /\ at = "ticks" /\ at' = "adjust"
        /\ wait_until_os_ticks' = os_tick_count + wait_time_us \div us_per_tick
        /\ UNCHANGED <<now, os_tick_count, pending, wait_time_us,
                       wait_until_systicks, low, start, raced>>
    OBVIOUS
  <1>2. os_tick_count \in Nat /\ wait_time_us \div us_per_tick \in Nat
    BY RemainderFits DEF Types
  <1>3. TypeOK' /\ Types'
    <2>1. wait_until_os_ticks' \in Nat
      BY <1>1, <1>2
    <2> QED BY <1>1, <2>1, StepTypes DEF TypeOK, Types, Step
  <1>4. TimerRead'
    <2>1. PICK m \in Nat : ReadAt(m) /\ os_tick_count = m \div Period - Raced
      BY <1>1 DEF TimerRead
    <2>2. ReadAt(m)'
      BY <1>1, <2>1, SameWait
    <2>3. wait_until_os_ticks' = m \div Period - Raced' + wait_time_us' \div us_per_tick
      BY <1>1, <2>1, SameWait
    <2> QED BY <1>1, <2>2, <2>3 DEF TimerRead
  <1> QED BY <1>1, <1>3, <1>4 DEF UntilIsLate, InLoop, TicksHaveBeen, CountIsFresh

\* The time to wait for is put right.
LEMMA AdjustWInv ==
  WInv /\ Adjust => WInv'
  <1> SUFFICES ASSUME WInv, Adjust PROVE WInv'
    OBVIOUS
  <1> USE DEF WInv, Adjust
  <1>1. /\ at = "adjust" /\ at' = "lower"
        /\ UNCHANGED <<now, os_tick_count, pending, wait_time_us, low,
                       start, raced>>
    OBVIOUS
  <1>2. PICK m \in Nat : /\ ReadAt(m)
                         /\ wait_until_os_ticks = m \div Period - Raced
                                                  + wait_time_us \div us_per_tick
    BY <1>1 DEF TimerRead
  <1> DEFINE P == Period
             W == Word
             d == m \div P
             e == m % P
             s == remainder_systicks
             q == wait_time_us \div us_per_tick
             x == P - 1 - e - s
  <1>3. /\ P \in Nat \ {0} /\ W \in Nat \ {0} /\ W >= 2 * P /\ Raced \in {0, 1}
        /\ reload_val = P - 1 /\ reload_val' = P - 1
    BY Numbers DEF reload_val
  <1>4. s \in 0 .. P - 1 /\ q \in Nat /\ wait_until_os_ticks \in Nat
    BY RemainderFits DEF Types
  <1>5. d \in Nat /\ e \in 0 .. P - 1 /\ m = d * P + e
    BY <1>3, DivMod
  <1>6. wait_until_systicks = x % W /\ m \in start .. now /\ start \in Nat
    BY <1>2, <1>3 DEF ReadAt, Types
  <1>7. Counts = q * P + s /\ Counts \in Nat
    BY Numbers DEF Counts
  <1>8. wait_until_os_ticks + Raced = d + q
    BY <1>2, <1>3, <1>4, <1>5
  <1>12. Until' = (wait_until_os_ticks' + Raced) * P + (P - 1) - wait_until_systicks'
    BY <1>1, <1>3, SameWait DEF Until
  <1>13. IF wait_until_systicks > P - 1
           THEN /\ wait_until_os_ticks' = wait_until_os_ticks + 1
                /\ wait_until_systicks' = (wait_until_systicks + (P - 1)) % W
           ELSE UNCHANGED <<wait_until_systicks, wait_until_os_ticks>>
    BY <1>3 DEF untils
  <1> HIDE DEF P, W, d, e, s, q
  <1>14. x \in (1 - P) .. P - 1 /\ x = P - 1 - e - s
    BY <1>3, <1>4, <1>5
  <1> HIDE DEF x
  <1>15. /\ (d + q) * P + (P - 1) - x = m + q * P + s
         /\ (d + q + 1) * P + (P - 1) - (x + P - 1) = m + q * P + s + 1
    <2>1. e \in Nat /\ s \in Nat /\ x \in Int
      BY <1>3, <1>4, <1>5, <1>14
    <2> QED BY <1>3, <1>4, <1>5, <1>14, <2>1, UntilInCounts
  <1>16. m + q * P + s >= start + Counts
    <2>1. q * P \in Nat
      BY <1>3, <1>4
    <2> QED BY <1>2, <1>3, <1>4, <1>6, <1>7, <2>1
  <1>17. /\ wait_until_systicks' \in 0 .. P - 1 /\ wait_until_os_ticks' \in Nat
         /\ Until' >= start + Counts
    <2>1. CASE x >= 0
      <3>1. x \in Int /\ x \in 0 .. W - 1
        BY <1>3, <1>14, <2>1
      <3>2. wait_until_systicks = x
        BY <1>3, <1>6, <3>1, Wraps
      <3>3. UNCHANGED <<wait_until_systicks, wait_until_os_ticks>>
        BY <1>3, <1>13, <1>14, <3>2
      <3>4. Until' = (d + q) * P + (P - 1) - x
        BY <1>8, <1>12, <3>2, <3>3
      <3>5. Until' >= start + Counts
        BY <1>15, <1>16, <3>4
      <3> QED BY <1>3, <1>4, <1>14, <2>1, <3>2, <3>3, <3>5
    <2>2. CASE x < 0
      <3>1. x \in Int /\ x \in (-W) .. -1
        BY <1>3, <1>14, <2>2
      <3>2. wait_until_systicks = x + W
        BY <1>3, <1>6, <3>1, Wraps
      <3>3. wait_until_systicks > P - 1
        BY <1>3, <1>14, <3>2
      <3>4. /\ wait_until_os_ticks' = wait_until_os_ticks + 1
            /\ wait_until_systicks' = (x + W + (P - 1)) % W
        BY <1>13, <3>2, <3>3
      <3>5. PICK y \in Int : y = x + W + (P - 1)
        BY <1>3, <3>1
      <3>6. y \in W .. 2 * W - 1 /\ y - W = x + P - 1
        BY <1>3, <1>14, <2>2, <3>5
      <3>7. y % W = y - W
        BY <1>3, <3>6, Wraps
      <3>8. wait_until_systicks' = x + P - 1
        BY <3>4, <3>5, <3>6, <3>7
      <3>9. wait_until_os_ticks' + Raced = d + q + 1
        BY <1>3, <1>4, <1>5, <1>8, <3>4
      <3>10. Until' = (d + q + 1) * P + (P - 1) - (x + P - 1)
        BY <1>12, <3>8, <3>9
      <3>11. Until' >= start + Counts
        <4>1. q * P \in Nat
          BY <1>3, <1>4
        <4> QED BY <1>2, <1>4, <1>6, <1>7, <1>15, <1>16, <3>10, <4>1
      <3> QED BY <1>3, <1>4, <1>14, <2>2, <3>4, <3>8, <3>11
    <2> QED BY <1>3, <1>14, <2>1, <2>2
  <1>9. /\ wait_until_systicks' <= reload_val' /\ wait_until_os_ticks' \in Nat
        /\ wait_until_systicks' \in 0 .. Word - 1 /\ Until' >= start + Counts
    <2>1. wait_until_systicks' \in 0 .. W - 1 /\ wait_until_systicks' <= P - 1
      BY <1>3, <1>17
    <2> QED BY <1>3, <1>17, <2>1 DEF W
  <1>10. TypeOK' /\ Types'
    <2>1. UNCHANGED reload_val
      BY DEF reload_val
    <2> QED BY <1>1, <1>9, <2>1, StepTypes DEF TypeOK, Types, Step
  <1>11. UntilIsLate'
    BY <1>1, <1>9, SameWait DEF UntilIsLate
  <1> QED BY <1>1, <1>10, <1>11 DEF TimerRead, TicksHaveBeen, CountIsFresh

\* Half of the counter is loaded.
LEMMA LoadLowerWInv ==
  WInv /\ LoadLower => WInv'
  <1> SUFFICES ASSUME WInv, LoadLower PROVE WInv'
    OBVIOUS
  <1> USE DEF WInv, LoadLower
  <1>1. /\ \/ at = "lower" /\ at' = "upper"
           \/ at = "lower again" /\ at' = "upper again"
        /\ low' = os_tick_count % HalfWord
    OBVIOUS
  <1>2. UNCHANGED <<now, os_tick_count, pending, wait_time_us,
                    wait_until_systicks, wait_until_os_ticks, start, raced>>
    BY DEF untils
  <1>3. /\ HalfWord \in Nat \ {0} /\ os_tick_count \in Nat
        /\ os_tick_count % HalfWord \in 0 .. HalfWord - 1
        /\ os_tick_count = (os_tick_count \div HalfWord) * HalfWord
                           + (os_tick_count % HalfWord)
    <2>1. HalfWord \in Nat \ {0} /\ os_tick_count \in Nat
      BY Numbers DEF Types
    <2> QED BY <2>1, DivMod
  <1>4. low' \in 0 .. HalfWord - 1 /\ Loaded' = os_tick_count
    BY <1>1, <1>2, <1>3 DEF Loaded
  <1>5. TypeOK' /\ Types'
    BY <1>1, <1>2, <1>4, StepTypes DEF TypeOK, Types, Step
  <1>6. UntilIsLate'
    BY <1>1, <1>2, SameWait DEF UntilIsLate, InLoop
  <1>7. TicksHaveBeen'
    <2>1. Loaded' <= os_tick_count'
      <3>1. os_tick_count <= os_tick_count
        BY ONLY <1>3
      <3> QED BY <1>2, <1>4, <3>1
    <2>2. wait_until_os_ticks <= os_tick_count => wait_until_os_ticks' <= Loaded'
      BY <1>2, <1>4
    <2> QED BY <1>1, <1>2, <2>1, <2>2 DEF TicksHaveBeen
  <1> QED BY <1>1, <1>5, <1>6, <1>7 DEF TimerRead, CountIsFresh

\* The wait is over: one tick later than the one the loop waits for.
LEMMA LateTick ==
  ASSUME WInv, Runs, ~Masked, InLoop, wait_until_os_ticks < os_tick_count
  PROVE  now - start + Raced * Period >= Counts
  <1> USE DEF WInv
  <1> DEFINE P == Period
             o == os_tick_count
             t == wait_until_os_ticks
             y == wait_until_systicks
  <1>1. P \in Nat \ {0} /\ Raced \in {0, 1} /\ Pending = 0 /\ Counts \in Nat
        /\ y \in Nat /\ reload_val = P - 1
    BY Numbers DEF Runs, Pending
  <1>2. o \in Nat /\ t \in Nat /\ start \in Nat /\ now \in Nat
    BY DEF Types
  <1>3. now >= o * P
    <2>1. now = (o + Pending) * P + (now % P) /\ now % P \in 0 .. P - 1
      BY Numbers
    <2> QED BY <1>1, <1>2, <2>1
  <1>4. (t + Raced) * P + (P - 1) - y >= start + Counts
    BY <1>1 DEF UntilIsLate, Until
  <1>5. t < o
    OBVIOUS
  <1> HIDE DEF P, o, t, y
  <1>6. (t + 1) * P <= o * P
    BY <1>1, <1>2, <1>5
  <1>7. (t + Raced) * P = t * P + Raced * P /\ (t + 1) * P = t * P + P
        /\ t * P \in Nat /\ Raced * P \in Nat /\ o * P \in Nat
    BY <1>1, <1>2
  <1>8. now - start + Raced * P >= Counts
    BY <1>1, <1>2, <1>3, <1>4, <1>6, <1>7
  <1> QED BY <1>8 DEF P

\* What the comparison for equality decides.
LEMMA CompareIsRight ==
  ASSUME WInv, Runs, ~Masked, at \in {"upper", "upper again"},
         ~(Loaded < wait_until_os_ticks) \/ at = "upper again",
         at' = Compare(Loaded), "torn" \notin raced
  PROVE  /\ at' = "value" => wait_until_os_ticks <= os_tick_count
         /\ at' = "idle" => now - start + Raced * Period >= Counts
  <1> USE DEF WInv
  <1>1. Loaded \in Nat /\ os_tick_count \in Nat /\ wait_until_os_ticks \in Nat
    BY Numbers DEF Types
  <1>2. Loaded <= os_tick_count /\ wait_until_os_ticks <= Loaded
    <2>1. Loaded <= os_tick_count
      BY DEF TicksHaveBeen
    <2>2. CASE at = "upper again"
      BY <2>1, <2>2 DEF TicksHaveBeen
    <2>3. CASE at # "upper again"
      <3>1. ~(Loaded < wait_until_os_ticks)
        BY <2>3
      <3>2. wait_until_os_ticks <= Loaded
        BY ONLY <1>1, <3>1
      <3> QED BY <2>1, <3>2
    <2> QED BY <2>2, <2>3
  <1>3. CASE Loaded = wait_until_os_ticks
    BY <1>2, <1>3 DEF Compare
  <1>4. CASE Loaded # wait_until_os_ticks
    <2>1. wait_until_os_ticks < os_tick_count
      BY ONLY <1>1, <1>2, <1>4
    <2> QED BY <1>4, <2>1, LateTick DEF Compare, InLoop
  <1> QED BY <1>3, <1>4

\* A step that changes nothing but where the task is.
LEMMA MoveWInv ==
  ASSUME WInv, ~Masked, Step, at' \in {"lower", "lower again", "value", "idle"},
         InLoop,
         UNCHANGED <<wait_time_us, wait_until_systicks, wait_until_os_ticks, low,
                     start, raced>>,
         "torn" \notin raced =>
           /\ at' \in {"lower again", "value"} => wait_until_os_ticks <= os_tick_count
           /\ at' = "idle" => now - start + Raced * Period >= Counts
  PROVE  WInv'
  <1> USE DEF WInv, Step
  <1>1. TypeOK' /\ Types'
    BY StepTypes DEF TypeOK, Types, UntilIsLate
  <1>2. UntilIsLate'
    BY SameWait DEF UntilIsLate, InLoop
  <1>3. TicksHaveBeen'
    BY SameWait DEF TicksHaveBeen
  <1> QED BY <1>1, <1>2, <1>3 DEF TimerRead, CountIsFresh

\* The loop compares the ticks.
LEMMA LoopWInv ==
  WInv /\ Loop => WInv'
  <1> SUFFICES ASSUME WInv, Loop PROVE WInv'
    OBVIOUS
  <1> USE DEF Loop
  <1>1. Runs /\ ~Masked /\ InLoop /\ at = "upper"
    BY DEF Masked, InLoop
  <1>2. UNCHANGED <<wait_time_us, wait_until_systicks, wait_until_os_ticks, low,
                    start, raced>>
    BY DEF untils
  <1>3. Step /\ at' \in {"lower", "lower again", "value", "idle"}
    BY DEF Step, Compare
  <1>4. Loaded \in Nat /\ os_tick_count \in Nat /\ wait_until_os_ticks \in Nat
    BY Numbers DEF Types, WInv
  <1>5. ASSUME "torn" \notin raced
        PROVE  /\ at' \in {"lower again", "value"} => wait_until_os_ticks <= os_tick_count
               /\ at' = "idle" => now - start + Raced * Period >= Counts
    <2>1. Loaded <= os_tick_count
      BY <1>1, <1>5 DEF TicksHaveBeen, WInv
    <2>2. CASE Loaded < wait_until_os_ticks
      BY <2>2
    <2>3. CASE ~(Loaded < wait_until_os_ticks) /\ at' = "lower again"
      <3>1. ~(Loaded < wait_until_os_ticks)
        BY <2>3
      <3>2. wait_until_os_ticks <= os_tick_count
        BY ONLY <1>4, <2>1, <3>1
      <3> QED BY <2>3, <3>2
    <2>4. CASE ~(Loaded < wait_until_os_ticks) /\ at' = Compare(Loaded)
      <3>1. at' \in {"value", "idle"}
        BY <2>4 DEF Compare
      <3> QED BY <1>1, <1>5, <2>4, <3>1, CompareIsRight
    <2> QED BY <2>2, <2>3, <2>4
  <1> QED BY <1>1, <1>2, <1>3, <1>5, MoveWInv

\* The loop compares the ticks again.
LEMMA LoopAgainWInv ==
  WInv /\ LoopAgain => WInv'
  <1> SUFFICES ASSUME WInv, LoopAgain PROVE WInv'
    OBVIOUS
  <1> USE DEF LoopAgain
  <1>1. Runs /\ ~Masked /\ InLoop /\ at = "upper again"
    BY DEF Masked, InLoop
  <1>2. UNCHANGED <<wait_time_us, wait_until_systicks, wait_until_os_ticks, low,
                    start, raced>>
    BY DEF untils
  <1>3. Step /\ at' \in {"value", "idle"}
    BY DEF Step, Compare
  <1>4. ASSUME "torn" \notin raced
        PROVE  /\ at' \in {"lower again", "value"} => wait_until_os_ticks <= os_tick_count
               /\ at' = "idle" => now - start + Raced * Period >= Counts
    BY <1>1, <1>3, <1>4, CompareIsRight
  <1> QED BY <1>1, <1>2, <1>3, <1>4, MoveWInv

\* The loop compares the timer.
LEMMA PollWInv ==
  WInv /\ Poll => WInv'
  <1> SUFFICES ASSUME WInv, Poll PROVE WInv'
    OBVIOUS
  <1> USE DEF Poll
  <1>1. Runs /\ ~Masked /\ InLoop /\ at = "value"
    BY DEF Masked, InLoop
  <1>2. UNCHANGED <<wait_time_us, wait_until_systicks, wait_until_os_ticks, low,
                    start, raced>>
    BY DEF untils
  <1>3. Step /\ at' \in {"lower", "idle"}
    BY DEF Step
  <1>4. ASSUME "torn" \notin raced, at' = "idle"
        PROVE  now - start + Raced * Period >= Counts
    <2> DEFINE P == Period
               o == os_tick_count
               t == wait_until_os_ticks
               y == wait_until_systicks
               e == now % P
    <2>1. /\ P \in Nat \ {0} /\ Raced \in {0, 1} /\ Pending = 0 /\ Counts \in Nat
          /\ y \in Nat /\ reload_val = P - 1
      BY <1>1, Numbers DEF Runs, Masked, Pending, WInv
    <2>2. o \in Nat /\ t \in Nat /\ start \in Nat /\ now \in Nat
      BY DEF Types, WInv
    <2>3. e \in 0 .. P - 1 /\ now = o * P + e
      <3>1. now = (o + Pending) * P + e /\ e \in 0 .. P - 1
        BY Numbers DEF WInv
      <3> QED BY <2>1, <2>2, <3>1
    <2>4. (t + Raced) * P + (P - 1) - y >= start + Counts
      BY <1>1, <2>1 DEF UntilIsLate, Until, WInv
    <2>5. t <= o
      BY <1>1, <1>4 DEF TicksHaveBeen, WInv
    <2>6. ~((P - 1) - e > y)
      BY <1>4, <2>1 DEF systick_get_value
    <2> HIDE DEF P, o, t, y, e
    <2>7. t * P <= o * P
      BY <2>1, <2>2, <2>5
    <2>8. (t + Raced) * P = t * P + Raced * P
          /\ t * P \in Nat /\ Raced * P \in Nat /\ o * P \in Nat
      BY <2>1, <2>2
    <2>9. now - start + Raced * P >= Counts
      BY <2>1, <2>2, <2>3, <2>4, <2>6, <2>7, <2>8
    <2> QED BY <2>9 DEF P
  <1> QED BY <1>1, <1>2, <1>3, <1>4, MoveWInv

\* os_get_tick_count starts and returns.
LEMMA CountWInv ==
  WInv /\ (GetTickCount \/ GetTickCountReturn) => WInv'
  <1> SUFFICES ASSUME WInv, GetTickCount \/ GetTickCountReturn PROVE WInv'
    OBVIOUS
  <1> USE DEF GetTickCount, GetTickCountReturn
  <1>1. /\ \/ at = "idle" /\ at' = "count" /\ low' = os_tick_count % HalfWord
           \/ at = "count" /\ at' = "idle" /\ low' = low
        /\ UNCHANGED <<now, os_tick_count, pending, wait_time_us,
                       wait_until_systicks, wait_until_os_ticks, start, raced>>
    BY DEF untils
  <1>2. low' \in 0 .. HalfWord - 1
    <2>1. HalfWord \in Nat \ {0} /\ os_tick_count \in Nat
      BY Numbers DEF Types, WInv
    <2>2. os_tick_count % HalfWord \in 0 .. HalfWord - 1
      BY <2>1, DivMod
    <2> QED BY <1>1, <2>2 DEF TypeOK, WInv
  <1>3. TypeOK' /\ Types'
    BY <1>1, <1>2, StepTypes DEF TypeOK, Types, Step, WInv
  <1>4. TicksHaveBeen'
    BY <1>1, SameWait DEF TicksHaveBeen, WInv
  <1> QED BY <1>1, <1>3, <1>4 DEF TimerRead, UntilIsLate, InLoop, CountIsFresh, WInv

-----------------------------------------------------------------------------
(* What it shows.                                                          *)

\* The invariant holds in every state.
THEOREM Invariance ==
  Spec => []WInv
  <1>1. WInv /\ [Next]_vars => WInv'
    <2> SUFFICES ASSUME WInv, [Next]_vars PROVE WInv'
      OBVIOUS
    <2>1. CASE Time
      BY <2>1, TimeWInv
    <2>2. CASE SysTick
      BY <2>2, SysTickWInv
    <2>3. CASE ReadTimer
      BY <2>3, ReadTimerWInv
    <2>4. CASE ReadTicks
      BY <2>4, ReadTicksWInv
    <2>5. CASE Adjust
      BY <2>5, AdjustWInv
    <2>6. CASE LoadLower
      BY <2>6, LoadLowerWInv
    <2>7. CASE Loop
      BY <2>7, LoopWInv
    <2>8. CASE LoopAgain
      BY <2>8, LoopAgainWInv
    <2>9. CASE Poll
      BY <2>9, PollWInv
    <2>10. CASE GetTickCount \/ GetTickCountReturn
      BY <2>10, CountWInv
    <2>11. ASSUME NEW us \in 0 .. MaxWait, Call(us) PROVE WInv'
      BY <2>11, CallWInv
    <2>12. CASE UNCHANGED vars
      <3>1. UNCHANGED <<now, os_tick_count, pending, at, wait_time_us,
                        wait_until_systicks, wait_until_os_ticks, low, start, raced>>
        BY <2>12 DEF vars, untils
      <3> QED BY <3>1
              DEF WInv, TypeOK, Types, TimerRead, UntilIsLate, TicksHaveBeen,
                  CountIsFresh, ReadAt, Until, Counts, Raced, InLoop, Loaded,
                  reload_val, remainder_systicks
    <2> QED BY <2>1, <2>2, <2>3, <2>4, <2>5, <2>6, <2>7, <2>8, <2>9, <2>10, <2>11, <2>12
            DEF Next, InCall
  <1> QED BY <1>1, InitWInv, PTL DEF Spec

\* The types are right, the remaining value of the timer that the loop waits for
\* is one that it has, and ticks are counted as they come.
THEOREM TypeCorrect ==
  Spec => []TypeOK
  <1>1. WInv => TypeOK
    BY DEF WInv
  <1> QED BY <1>1, Invariance, PTL

\* os_task_wait_us waits for the time it was given, but for the rounding of
\* systicks_per_us and the two races.
THEOREM WaitIsLongEnough ==
  Spec => []ShortOnlyIfRaced
  <1>1. WInv => ShortOnlyIfRaced
    <2> SUFFICES ASSUME WInv, at = "idle", "torn" \notin raced
                 PROVE  LongEnough(now - start + (IF "pending" \in raced THEN Period ELSE 0),
                                   Rounded)
      BY DEF ShortOnlyIfRaced
    <2>1. Period \in Nat /\ Raced \in {0, 1} /\ Counts \in Nat
      BY Numbers DEF WInv
    <2>2. now \in Nat /\ start \in 0 .. now /\ wait_time_us \in Nat
      BY DEF WInv, Types
    <2>3. (IF "pending" \in raced THEN Period ELSE 0) = Raced * Period
      BY <2>1 DEF Raced
    <2>4. now - start + Raced * Period >= Counts
      BY DEF WInv, TicksHaveBeen
    <2>5. now - start + Raced * Period \in Nat
      BY <2>1, <2>2
    <2>6. LongEnough(now - start + Raced * Period, Rounded)
      BY <2>2, <2>4, <2>5, CountsAreEnough
    <2> QED BY <2>3, <2>6
  <1> QED BY <1>1, Invariance, PTL

\* os_get_tick_count returns the count of the ticks that have been: what it
\* loads with interrupts masked belongs to one tick, and the latest.
THEOREM TickCountIsWhole ==
  Spec => TickCountWhole
  <1>1. WInv /\ [Next]_vars => [GetTickCountReturn => Loaded = os_tick_count]_vars
    <2> SUFFICES ASSUME WInv, GetTickCountReturn PROVE Loaded = os_tick_count
      OBVIOUS
    <2>1. low = os_tick_count % HalfWord
      BY DEF WInv, CountIsFresh, GetTickCountReturn
    <2>2. HalfWord \in Nat \ {0} /\ os_tick_count \in Nat
      BY Numbers DEF WInv, Types
    <2>3. os_tick_count = (os_tick_count \div HalfWord) * HalfWord
                          + (os_tick_count % HalfWord)
      BY <2>2, DivMod
    <2> QED BY <2>1, <2>3 DEF Loaded
  <1> QED BY <1>1, Invariance, PTL DEF Spec, TickCountWhole
=============================================================================
