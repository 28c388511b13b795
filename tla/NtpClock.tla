------------------------------ MODULE NtpClock -------------------------------
(***************************************************************************)
(* The clock of the gateway (ntp.c): the main task asks the time servers   *)
(* for the time at most once an interval, by the 32-bit tick counter, and  *)
(* sets the real-time clock from the answer.  A check queries the servers  *)
(* twice: first to see whether the time is plausible, then to set the      *)
(* clock, and the network may go away between the two.                     *)
(*                                                                         *)
(* Of a time only the year is kept: it is what the check looks at, and     *)
(* what the register of the real-time clock has too few bits for.          *)
(***************************************************************************)
EXTENDS Integers

CONSTANTS
  Wrap,       \* TickType_t counts modulo this: 2^32 in the code
  Interval,   \* pdMS_TO_TICKS(check_interval * 1000)
  Delay,      \* bound: the most ticks from one ntp_loop() to the next without a check
  Query,      \* bound: the most ticks tls_ntp_client() takes
  Year        \* the years the servers may answer

ASSUME TickAssumption ==
  /\ Wrap \in Nat /\ Interval \in Nat \ {0} /\ Delay \in Nat \ {0}
  /\ Interval + Delay < Wrap /\ Query \in 0..Wrap - 1
ASSUME YearAssumption == Year \subseteq Nat

VARIABLES
  tick,             \* xTaskGetTickCount()
  last_check_tick,  \* when the last check ended; 0: none yet
  pc,               \* where the main task is
  online,           \* a query would be answered
  rtc,              \* the year the real-time clock was last set to, or NotSet
  elapsed           \* (history) the ticks since the last check ended, or since boot, up to Wrap

vars == <<tick, last_check_tick, pc, online, rtc, elapsed>>

NotSet == 0
Epoch == 1970       \* tls_ntp_client() returns 0 when no server answers

Init ==
  /\ tick = 0 /\ last_check_tick = 0 /\ pc = "delay"
  /\ online \in BOOLEAN /\ rtc = NotSet /\ elapsed = 0

\* xTaskGetTickCount() - last_check_tick, in the unsigned type of both
Since(now, last) == IF now >= last THEN now - last ELSE now + Wrap - last

Pass(n) ==
  /\ tick' = IF tick + n < Wrap THEN tick + n ELSE tick + n - Wrap
  /\ elapsed' = IF elapsed + n < Wrap THEN elapsed + n ELSE Wrap

Online ==
  /\ online' = ~online
  /\ UNCHANGED <<tick, last_check_tick, pc, rtc, elapsed>>

\* app_loop() delays for one tick; tasks that come first may make it more.
AppLoop ==
  /\ pc = "delay" /\ pc' = "loop"
  /\ \E n \in 1..Delay : Pass(n)
  /\ UNCHANGED <<last_check_tick, online, rtc>>

\* mutated forms: the times are compared, not their difference; the sum is compared
DueComparingTimes == last_check_tick = 0 \/ tick > last_check_tick + Interval
DueComparingSums == last_check_tick = 0 \/ tick > (last_check_tick + Interval) % Wrap

Due == last_check_tick = 0 \/ Since(tick, last_check_tick) > Interval

NtpLoop ==
  /\ pc = "loop"
  /\ pc' = IF Due THEN "first" ELSE "delay"
  /\ UNCHANGED <<tick, last_check_tick, online, rtc, elapsed>>

\* mutated form: the seconds from 1900 to 1970 stay in the answer
AnswersFrom1900 == IF online THEN {y + 70 : y \in Year} ELSE {Epoch}

Answers == IF online THEN Year ELSE {Epoch}

\* A year past 2020 is taken for a time; the clock is then set from a second query.
FirstQuery ==
  /\ pc = "first"
  /\ \E n \in 0..Query : Pass(n)
  /\ \E y \in Answers : pc' = IF y > 2020 THEN "second" ELSE "store"
  /\ UNCHANGED <<last_check_tick, online, rtc>>

\* The answer of the second query is not looked at.
SecondQuery ==
  /\ pc = "second" /\ pc' = "store"
  /\ \E n \in 0..Query : Pass(n)
  /\ rtc' \in Answers
  /\ UNCHANGED <<last_check_tick, online>>

Checked ==
  /\ pc = "store" /\ pc' = "delay"
  /\ last_check_tick' = tick /\ elapsed' = 0
  /\ UNCHANGED <<tick, online, rtc>>

MainTask == AppLoop \/ NtpLoop \/ FirstQuery \/ SecondQuery \/ Checked
Next == MainTask \/ Online

\* The main task is of a higher priority than the others of the firmware, and never ends.
Spec == Init /\ [][Next]_vars /\ WF_vars(MainTask)

-----------------------------------------------------------------------------
(* Properties *)

TypeOK ==
  /\ tick \in 0..Wrap - 1 /\ last_check_tick \in 0..Wrap - 1
  /\ pc \in {"delay", "loop", "first", "second", "store"}
  /\ online \in BOOLEAN /\ rtc \in Year \cup {NotSet, Epoch}
  /\ elapsed \in 0..Wrap

\* ntp_loop: a check is never overdue by more than one turn of the loop, though the tick
\* counter wraps.
Punctual == pc \in {"delay", "loop"} => elapsed <= Interval + Delay

\* ntp_loop: a check does not come before the interval is over, other than the first one, and
\* the one after a check that ended at tick 0.
NotEarly ==
  [][pc = "loop" /\ pc' = "first" => elapsed > Interval \/ last_check_tick = 0]_vars

\* Once the network stays, the clock is set, and what it was set to while the network was
\* going is put right.
ClockIsSet == <>[]online => <>[](rtc \in Year)

-----------------------------------------------------------------------------
(* The inductive invariant of Punctual: the difference of the ticks is the time that has passed. *)

DifferenceIsElapsed ==
  pc \in {"delay", "loop"} => elapsed = Since(tick, last_check_tick)
DelaysFromInterval == pc = "delay" => elapsed <= Interval
IInv == TypeOK /\ DifferenceIsElapsed /\ DelaysFromInterval /\ Punctual

-----------------------------------------------------------------------------
(* What a comment says, and the code does not do *)

\* The time the clock is set to is valid: the comment before tls_set_rtc() says so (ntp.c:60).
RtcIsValid == rtc # NotSet => rtc > 2020
=============================================================================
