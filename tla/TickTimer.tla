------------------------------- MODULE TickTimer -------------------------------
(***************************************************************************)
(* Timers over the tick counter of FreeRTOS, which wraps:                  *)
(* vTaskSetTimeOutState() and xTaskCheckForTimeOut() of tasks.c, and the   *)
(* timers of the MQTT library over them (MQTTFreeRTOS_LWIP.c).  A clock is *)
(* the counter and the number of its overflows, both of fixed width.       *)
(***************************************************************************)
EXTENDS Integers

CONSTANTS
  TICKS,      \* the values of xTickCount
  OVERFLOWS   \* the values of xNumOfOverflows

ASSUME WidthsAssumption == TICKS \in Nat \ {0} /\ OVERFLOWS \in Nat \ {0, 1}

Clock == [count : 0..TICKS - 1, overflows : 0..OVERFLOWS - 1]
Timer == [wait : 0..TICKS - 1, entered : Clock]

\* What the counters show after t ticks, and after one more.
ClockAt(t) == [count |-> t % TICKS, overflows |-> (t \div TICKS) % OVERFLOWS]

NextTick(c) ==
  [count |-> (c.count + 1) % TICKS,
   overflows |-> IF c.count = TICKS - 1 THEN (c.overflows + 1) % OVERFLOWS ELSE c.overflows]

\* TimerCountdownMS
Countdown(w, c) == [wait |-> w, entered |-> c]

Elapsed(tm, c) == (c.count - tm.entered.count) % TICKS

\* mutated form: that the counter may have passed the start again is forgotten.
ExpiredByDifference(tm, c) == tm.wait # TICKS - 1 /\ Elapsed(tm, c) >= tm.wait

\* portMAX_DELAY, the greatest count, waits for ever.
Expired(tm, c) ==
  /\ tm.wait # TICKS - 1
  /\ \/ c.overflows # tm.entered.overflows /\ c.count >= tm.entered.count
     \/ Elapsed(tm, c) >= tm.wait

\* A timer that has run out stays as it is: TimerLeftMS() then returns what was left at the
\* check before, and never 0.
Checked(tm, c) ==
  IF Expired(tm, c) \/ tm.wait = TICKS - 1 THEN tm ELSE Countdown(tm.wait - Elapsed(tm, c), c)

\* mutated form: nothing is left when the time is over.
LeftOrNothing(tm, c) == IF Expired(tm, c) THEN 0 ELSE Checked(tm, c).wait

\* TimerLeftMS, in ticks
Left(tm, c) == Checked(tm, c).wait
=============================================================================
