--------------------------- MODULE NtpClock_proofs ---------------------------
(***************************************************************************)
(* Proofs about the clock of the gateway: whatever the width of the tick   *)
(* counter and the interval are, a check of the time comes when it is due, *)
(* and not before.                                                         *)
(***************************************************************************)
EXTENDS NtpClock, TLAPS

\* The counter and the history after n more ticks.
LEMMA Passed ==
  ASSUME TypeOK, NEW n \in 0..Wrap - 1, Pass(n)
  PROVE  tick' \in 0..Wrap - 1 /\ elapsed' \in 0..Wrap
  BY TickAssumption DEF TypeOK, Pass

\* As long as less than Wrap ticks pass, the unsigned difference counts them.
LEMMA DifferenceCounts ==
  ASSUME TypeOK, NEW n \in 0..Wrap - 1, Pass(n),
         elapsed = Since(tick, last_check_tick), elapsed + n < Wrap
  PROVE  elapsed' = elapsed + n /\ elapsed' = Since(tick', last_check_tick)
  BY TickAssumption DEF TypeOK, Pass, Since

LEMMA IInvInit == Init => IInv
  BY TickAssumption
  DEF Init, IInv, TypeOK, DifferenceIsElapsed, DelaysFromInterval, Punctual, Since, NotSet

LEMMA IInvStep == IInv /\ [Next]_vars => IInv'
<1> SUFFICES ASSUME IInv, [Next]_vars PROVE IInv'
  OBVIOUS
<1> USE DEF IInv
<1>1. CASE Online
  <2>1. TypeOK'
    BY <1>1 DEF Online, TypeOK
  <2> QED
    BY <1>1, <2>1 DEF Online, DifferenceIsElapsed, DelaysFromInterval, Punctual
<1>2. CASE AppLoop
  <2>1. PICK n \in 1..Delay : Pass(n)
    BY <1>2 DEF AppLoop
  <2>2. pc = "delay" /\ pc' = "loop" /\ UNCHANGED <<last_check_tick, online, rtc>>
    BY <1>2 DEF AppLoop
  <2>3. n \in 0..Wrap - 1 /\ elapsed + n <= Interval + Delay /\ elapsed + n < Wrap
    BY <2>1, <2>2, TickAssumption DEF DelaysFromInterval, TypeOK
  <2>4. TypeOK'
    BY <2>1, <2>2, <2>3, Passed DEF TypeOK
  <2>5. elapsed' = elapsed + n /\ elapsed' = Since(tick', last_check_tick)
    BY <2>1, <2>2, <2>3, DifferenceCounts DEF DifferenceIsElapsed
  <2> QED
    BY <2>2, <2>3, <2>4, <2>5 DEF DifferenceIsElapsed, DelaysFromInterval, Punctual
<1>3. CASE NtpLoop
  <2>1. pc = "loop" /\ pc' = (IF Due THEN "first" ELSE "delay")
        /\ UNCHANGED <<tick, last_check_tick, online, rtc, elapsed>>
    BY <1>3 DEF NtpLoop
  <2>2. TypeOK'
    BY <2>1 DEF TypeOK
  <2>3. DifferenceIsElapsed' /\ Punctual'
    BY <2>1 DEF DifferenceIsElapsed, Punctual
  <2>4. ASSUME ~Due PROVE elapsed <= Interval
    BY <2>1, <2>4, TickAssumption DEF Due, DifferenceIsElapsed, TypeOK
  <2>5. DelaysFromInterval'
    BY <2>1, <2>4 DEF DelaysFromInterval
  <2> QED
    BY <2>2, <2>3, <2>5
<1>4. CASE FirstQuery \/ SecondQuery
  <2>1. PICK n \in 0..Query : Pass(n)
    BY <1>4 DEF FirstQuery, SecondQuery
  <2>2. n \in 0..Wrap - 1
    BY <2>1, TickAssumption
  <2>3. pc' \in {"second", "store"} /\ UNCHANGED <<last_check_tick, online>>
    BY <1>4 DEF FirstQuery, SecondQuery
  <2>4. rtc' \in Year \cup {NotSet, Epoch}
    BY <1>4 DEF FirstQuery, SecondQuery, Answers, TypeOK
  <2>5. TypeOK'
    BY <2>1, <2>2, <2>3, <2>4, Passed DEF TypeOK
  <2> QED
    BY <2>3, <2>5 DEF DifferenceIsElapsed, DelaysFromInterval, Punctual
<1>5. CASE Checked
  <2>1. TypeOK'
    BY <1>5, TickAssumption DEF Checked, TypeOK
  <2>2. elapsed' = 0 /\ last_check_tick' = tick /\ tick' = tick
    BY <1>5 DEF Checked
  <2> QED
    BY <2>1, <2>2, TickAssumption
    DEF DifferenceIsElapsed, DelaysFromInterval, Punctual, Since, TypeOK
<1>6. CASE UNCHANGED vars
  <2>1. TypeOK'
    BY <1>6 DEF vars, TypeOK
  <2> QED
    BY <1>6, <2>1 DEF vars, DifferenceIsElapsed, DelaysFromInterval, Punctual
<1> QED
  BY <1>1, <1>2, <1>3, <1>4, <1>5, <1>6 DEF Next, MainTask

LEMMA Invariance == Spec => []IInv
  BY IInvInit, IInvStep, PTL DEF Spec

\* The variables of the clock keep their types.
THEOREM TypeCorrect == Spec => []TypeOK
<1>1. IInv => TypeOK
  BY DEF IInv
<1> QED
  BY <1>1, Invariance, PTL

\* ntp_loop is never overdue by more than a turn of its loop, for every width of the tick counter
\* that holds the interval and that turn.
THEOREM NeverOverdue == Spec => []Punctual
<1>1. IInv => Punctual
  BY DEF IInv
<1> QED
  BY <1>1, Invariance, PTL

\* ntp_loop does not ask the servers before the interval is over, but for the tick that means
\* "not yet".
THEOREM NeverEarly == Spec => NotEarly
<1>1. IInv /\ [Next]_vars =>
        [pc = "loop" /\ pc' = "first" => elapsed > Interval \/ last_check_tick = 0]_vars
  <2> SUFFICES ASSUME IInv, Next, pc = "loop", pc' = "first", last_check_tick # 0
               PROVE  elapsed > Interval
    BY DEF vars
  <2>1. NtpLoop
    BY DEF Next, MainTask, Online, AppLoop, FirstQuery, SecondQuery, Checked
  <2>2. Since(tick, last_check_tick) > Interval
    BY <2>1 DEF NtpLoop, Due
  <2> QED
    BY <2>2 DEF IInv, DifferenceIsElapsed
<1> QED
  BY <1>1, Invariance, PTL DEF Spec, NotEarly
=============================================================================
