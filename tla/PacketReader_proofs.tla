------------------------- MODULE PacketReader_proofs --------------------------
(***************************************************************************)
(* Proofs about the reader of MQTT packets and its timers: whatever the    *)
(* width of the tick counter, the size of the buffer and the stream are,   *)
(* the buffer is not overrun, MQTTYield's timer runs out when its time is  *)
(* over, no body is given up in the tick in which it was begun, and every  *)
(* packet is read from its first byte, with the length it was sent with,   *)
(* until one is given up.                                                  *)
(***************************************************************************)
EXTENDS PacketReader, FiniteSetTheorems, SequenceTheorems, TLAPS

-----------------------------------------------------------------------------
(* Timers *)

\* The remainder of a difference of two counts
LEMMA Difference ==
  ASSUME NEW a \in 0..TICKS - 1, NEW b \in 0..TICKS - 1
  PROVE  (a - b) % TICKS = IF a >= b THEN a - b ELSE a - b + TICKS
  BY WidthsAssumption

LEMMA NextCount ==
  ASSUME NEW n \in 0..TICKS - 1
  PROVE  (n + 1) % TICKS = IF n = TICKS - 1 THEN 0 ELSE n + 1
  BY WidthsAssumption

\* Two consecutive numbers of overflows are different.
LEMMA NextOverflow ==
  ASSUME NEW n \in 0..OVERFLOWS - 1
  PROVE  (n + 1) % OVERFLOWS \in 0..OVERFLOWS - 1 /\ (n + 1) % OVERFLOWS # n
<1>1. (n + 1) % OVERFLOWS = IF n = OVERFLOWS - 1 THEN 0 ELSE n + 1
  BY WidthsAssumption
<1> QED
  BY <1>1, WidthsAssumption

LEMMA NextTickIs ==
  ASSUME NEW c \in Clock
  PROVE  /\ NextTick(c) \in Clock
         /\ NextTick(c).count = IF c.count = TICKS - 1 THEN 0 ELSE c.count + 1
         /\ NextTick(c).overflows =
              IF c.count = TICKS - 1 THEN (c.overflows + 1) % OVERFLOWS ELSE c.overflows
<1>1. (c.count + 1) % TICKS = IF c.count = TICKS - 1 THEN 0 ELSE c.count + 1
  BY NextCount DEF Clock
<1>2. (c.overflows + 1) % OVERFLOWS \in 0..OVERFLOWS - 1
  BY NextOverflow DEF Clock
<1> QED
  BY <1>1, <1>2, WidthsAssumption DEF NextTick, Clock

LEMMA NoTimerIsTimer == NoTimer \in Timer
<1>1. 0 % TICKS = 0 /\ (0 \div TICKS) % OVERFLOWS = 0
  BY WidthsAssumption
<1> QED
  BY <1>1, WidthsAssumption DEF NoTimer, Countdown, ClockAt, Timer, Clock

\* A timer that has not run out has some of its time left when it is looked at.
LEMMA CheckedIs ==
  ASSUME NEW tm \in Timer, NEW c \in Clock
  PROVE  /\ Checked(tm, c) \in Timer /\ Left(tm, c) \in 0..TICKS - 1
         /\ Expired(tm, c) => Checked(tm, c) = tm
         /\ tm.wait >= 1 => Left(tm, c) >= 1
<1>1. Elapsed(tm, c) \in 0..TICKS - 1
  BY Difference, WidthsAssumption DEF Elapsed, Timer, Clock
<1>2. CASE Expired(tm, c) \/ tm.wait = TICKS - 1
  BY <1>2 DEF Checked, Left, Timer
<1>3. CASE ~(Expired(tm, c) \/ tm.wait = TICKS - 1)
  <2>1. Elapsed(tm, c) < tm.wait
    BY <1>1, <1>3 DEF Expired, Timer
  <2>2. tm.wait - Elapsed(tm, c) \in 1..TICKS - 1
    BY <1>1, <2>1, WidthsAssumption DEF Timer
  <2>3. Checked(tm, c) = Countdown(tm.wait - Elapsed(tm, c), c)
    BY <1>3 DEF Checked
  <2> QED
    BY <1>3, <2>2, <2>3 DEF Countdown, Left, Timer
<1> QED
  BY <1>2, <1>3

\* A timer that is armed in this tick has not run out, and is not changed by a look at it.
LEMMA FreshTimer ==
  ASSUME NEW tm \in Timer, NEW c \in Clock, tm.entered = c, tm.wait >= 1
  PROVE  ~Expired(tm, c) /\ Checked(tm, c).entered = c /\ Checked(tm, c).wait >= 1
<1>1. Elapsed(tm, c) = 0
  BY Difference DEF Elapsed, Timer, Clock
<1>2. ~Expired(tm, c)
  BY <1>1 DEF Expired, Timer
<1>3. Checked(tm, c).entered = c
  BY <1>2 DEF Checked, Countdown
<1> QED
  BY <1>2, <1>3, CheckedIs DEF Left

\* A timer has run out if and only if its time is over, for one turn of the counter.
LEMMA ExpiredWhenOver ==
  ASSUME NEW tm \in Timer, NEW c \in Clock, NEW d \in 0..TICKS,
         Leads(tm.entered, d, c), tm.wait \in 1..TICKS - 2
  PROVE  (d >= tm.wait => Expired(tm, c)) /\ (d < tm.wait => ~Expired(tm, c))
<1> DEFINE e == tm.entered
<1>1. e \in Clock
  BY DEF Timer
<1>2. (e.overflows + 1) % OVERFLOWS # e.overflows
  BY <1>1, NextOverflow DEF Clock
<1>3. Elapsed(tm, c) = IF c.count >= e.count THEN c.count - e.count ELSE c.count - e.count + TICKS
  BY <1>1, Difference DEF Elapsed, Clock
<1>4. CASE e.count + d < TICKS
  <2>1. c.count = e.count + d /\ c.overflows = e.overflows
    BY <1>1, <1>4 DEF Leads, Clock
  <2>2. Elapsed(tm, c) = d
    BY <1>1, <1>3, <2>1 DEF Clock
  <2> QED
    BY <1>1, <2>1, <2>2, WidthsAssumption DEF Expired, Clock
<1>5. CASE e.count + d >= TICKS
  <2>1. c.count = e.count + d - TICKS /\ c.overflows # e.overflows
    BY <1>1, <1>2, <1>5, WidthsAssumption DEF Leads, Clock
  <2>2. CASE d = TICKS
    BY <1>1, <2>1, <2>2, WidthsAssumption DEF Expired, Clock
  <2>3. CASE d < TICKS
    <3>1. c.count < e.count /\ Elapsed(tm, c) = d
      BY <1>1, <1>3, <2>1, <2>3, WidthsAssumption DEF Clock
    <3> QED
      BY <1>1, <2>1, <3>1, WidthsAssumption DEF Expired, Clock
  <2> QED
    BY <2>2, <2>3, WidthsAssumption
<1> QED
  BY <1>1, <1>4, <1>5, WidthsAssumption DEF Clock

\* Looking at a timer leaves what it says of the time.
LEMMA CheckedLeads ==
  ASSUME NEW tm \in Timer, NEW c \in Clock, NEW d \in 0..TICKS, NEW w \in 1..TICKS - 2,
         Leads(tm.entered, d, c), tm.wait \in 1..w, NEW a \in 0..TICKS, d = a + tm.wait - w
  PROVE  /\ Checked(tm, c).wait \in 1..w
         /\ Leads(Checked(tm, c).entered, a + Checked(tm, c).wait - w, c)
<1>1. (d >= tm.wait => Expired(tm, c)) /\ (d < tm.wait => ~Expired(tm, c))
  BY ExpiredWhenOver, WidthsAssumption
<1>2. CASE Expired(tm, c)
  BY <1>2 DEF Checked
<1>3. CASE ~Expired(tm, c)
  <2>1. d < tm.wait
    BY <1>1, <1>3, WidthsAssumption DEF Timer
  <2>2. Elapsed(tm, c) = d
    <3>1. Elapsed(tm, c) = IF c.count >= tm.entered.count THEN c.count - tm.entered.count
                           ELSE c.count - tm.entered.count + TICKS
      BY Difference DEF Elapsed, Timer, Clock
    <3>2. tm.entered \in Clock
      BY DEF Timer
    <3>3. c.count = IF tm.entered.count + d < TICKS THEN tm.entered.count + d
                    ELSE tm.entered.count + d - TICKS
      BY <3>2 DEF Leads, Clock
    <3> QED
      BY <2>1, <3>1, <3>2, <3>3, WidthsAssumption DEF Timer, Clock
  <2>3. Checked(tm, c) = Countdown(tm.wait - d, c)
    BY <1>3, <2>2, WidthsAssumption DEF Checked, Timer
  <2>4. Leads(c, 0, c)
    BY WidthsAssumption DEF Leads, Clock
  <2>5. tm.wait - d \in 1..w /\ a + (tm.wait - d) - w = 0
    BY <2>1 DEF Timer
  <2> QED
    BY <2>3, <2>4, <2>5 DEF Countdown
<1> QED
  BY <1>2, <1>3

\* One more tick
LEMMA TickLeads ==
  ASSUME NEW e \in Clock, NEW c \in Clock, NEW d \in 0..TICKS - 1, Leads(e, d, c)
  PROVE  Leads(e, d + 1, NextTick(c))
<1> DEFINE o == (e.overflows + 1) % OVERFLOWS
<1>1. CASE e.count + d + 1 < TICKS
  <2>1. c = [e EXCEPT !.count = e.count + d]
    BY <1>1, WidthsAssumption DEF Leads, Clock
  <2> QED
    BY <1>1, <2>1, NextTickIs, WidthsAssumption DEF Leads, Clock
<1>2. CASE e.count + d + 1 = TICKS
  <2>1. c = [e EXCEPT !.count = e.count + d] /\ c.count = TICKS - 1 /\ c.overflows = e.overflows
    BY <1>2, WidthsAssumption DEF Leads, Clock
  <2>2. NextTick(c) = [count |-> 0, overflows |-> o]
    BY <2>1, NextTickIs DEF NextTick
  <2> QED
    BY <1>2, <2>2, WidthsAssumption DEF Leads, Clock
<1>3. CASE e.count + d + 1 > TICKS
  <2>1. c = [count |-> e.count + d - TICKS, overflows |-> o] /\ c.count # TICKS - 1
    BY <1>3, WidthsAssumption DEF Leads, Clock
  <2>2. NextTick(c) = [count |-> e.count + d - TICKS + 1, overflows |-> o]
    BY <1>3, <2>1, NextTickIs, WidthsAssumption DEF NextTick, Clock
  <2> QED
    BY <1>3, <2>2, WidthsAssumption DEF Leads, Clock
<1> QED
  BY <1>1, <1>2, <1>3, WidthsAssumption DEF Clock

-----------------------------------------------------------------------------
(* Packets *)

LEMMA PlaceIs ==
  /\ Place[1] = 1 /\ Place[2] = Radix /\ Place[3] = Radix * Radix
  /\ Place[4] = Radix * Radix * Radix
  /\ \A i \in 1..MaxDigits : Place[i] \in Nat \ {0}
<1>1. Radix * Radix \in Nat \ {0}
  BY ReaderAssumption
<1>2. Radix * Radix * Radix \in Nat \ {0}
  BY <1>1, ReaderAssumption
<1> QED
  BY <1>1, <1>2, ReaderAssumption DEF Place, MaxDigits

LEMMA NextPlace ==
  ASSUME NEW d \in 0..MaxDigits - 2
  PROVE  Place[d + 1] * Radix = Place[d + 2]
<1>1. CASE d = 0
  BY <1>1, PlaceIs, ReaderAssumption
<1>2. CASE d = 1
  BY <1>2, PlaceIs, ReaderAssumption
<1>3. CASE d = 2
  BY <1>3, PlaceIs, ReaderAssumption
<1> QED
  BY <1>1, <1>2, <1>3 DEF MaxDigits

LEMMA SizeIs ==
  ASSUME NEW n \in Int
  PROVE  Size(n) \in 1..MaxDigits
<1> DEFINE S == {i \in 2..MaxDigits : n >= Place[i]}
<1>1. IsFiniteSet(2..MaxDigits) /\ Cardinality(2..MaxDigits) = 3
  <2>1. 2 \in Int /\ 4 \in Int
    OBVIOUS
  <2>2. IsFiniteSet(2..4) /\ Cardinality(2..4) = IF 2 > 4 THEN 0 ELSE 4 - 2 + 1
    BY <2>1, FS_Interval, Zenon
  <2> QED
    BY <2>2 DEF MaxDigits
<1>2. IsFiniteSet(S) /\ Cardinality(S) <= 3
  BY <1>1, FS_Subset
<1>3. Cardinality(S) \in Nat
  BY <1>2, FS_CardinalityType
<1> QED
  BY <1>2, <1>3 DEF Size, MaxDigits

\* A digit of the remaining length is a byte.
LEMMA DigitIs ==
  ASSUME NEW n \in Nat, NEW i \in 1..Size(n)
  PROVE  Digits(n)[i] \in Byte
<1>1. Place[i] \in Nat \ {0}
  BY PlaceIs, SizeIs DEF MaxDigits
<1>2. (n \div Place[i]) \in Nat
  BY <1>1
<1>3. (n \div Place[i]) % Radix \in 0..Radix - 1
  BY <1>2, ReaderAssumption
<1>4. Digits(n)[i] = ((n \div Place[i]) % Radix) + (IF i < Size(n) THEN Radix ELSE 0)
  BY DEF Digits
<1> QED
  BY <1>3, <1>4, ReaderAssumption DEF Byte

LEMMA BytesIs ==
  ASSUME NEW n \in Lengths
  PROVE  Bytes(n) \in Seq(WireByte)
<1> DEFINE total == 1 + Size(n) + n
           byte(i) == [values |-> IF i \in 2..Size(n) + 1 THEN {Digits(n)[i - 1]} ELSE Byte,
                       rest |-> total - i]
<1>1. n \in Nat
  <2>1. Radix * Radix * Radix * Radix \in Nat
    BY PlaceIs, ReaderAssumption DEF MaxDigits
  <2> QED
    BY <2>1, ReaderAssumption
<1>2. Size(n) \in 1..MaxDigits
  BY <1>1, SizeIs
<1>3. total \in Nat
  BY <1>1, <1>2 DEF MaxDigits
<1>4. ASSUME NEW i \in 1..total PROVE byte(i) \in WireByte
  <2>1. i \in 2..Size(n) + 1 => Digits(n)[i - 1] \in Byte
    <3> SUFFICES ASSUME i \in 2..Size(n) + 1 PROVE Digits(n)[i - 1] \in Byte
      OBVIOUS
    <3>1. i - 1 \in 1..Size(n)
      BY <1>2 DEF MaxDigits
    <3> QED
      BY <1>1, <3>1, DigitIs
  <2>2. total - i \in Nat
    BY <1>3
  <2> QED
    BY <2>1, <2>2 DEF WireByte
<1>5. Bytes(n) = [i \in 1..total |-> byte(i)]
  BY DEF Bytes
<1> HIDE DEF byte, total
<1> QED
  BY <1>3, <1>4, <1>5

-----------------------------------------------------------------------------
(* The invariant, in three parts that the actions change for different reasons *)

TimersFit ==
  /\ clock \in Clock /\ timer \in Timer /\ read_timer \in Timer /\ timeout \in 0..TICKS - 1
  /\ age \in 0..MaxAge /\ TimerFollowsAge /\ FreshReadTimer

NetFits ==
  /\ link \in {"open", "fin", "reset"} /\ wire \in Seq(WireByte) /\ received \in Seq(WireByte)
  /\ rest \in Nat /\ cut \in BOOLEAN /\ ticked \in BOOLEAN

PacketFits ==
  /\ pc \in {"yield", "start", "header", "length", "body", "test", "closed"}
  /\ digits \in 0..MaxDigits - 1 /\ multiplier = Place[digits + 1]
  /\ rem_len \in Nat /\ (pc = "length" => rem_len < multiplier) /\ got \in 0..rem_len
  /\ pc = "body" => got < rem_len /\ 1 + Size(rem_len) + rem_len <= readbuf_size
  /\ BetweenPackets

LEMMA Parts == IInv <=> TimersFit /\ NetFits /\ PacketFits
  BY DEF IInv, TypeOK, TimersFit, NetFits, PacketFits

\* What a look at MQTTYield's timer leaves
LEMMA TimerChecked ==
  ASSUME TimersFit, pc \notin {"yield", "closed"}
  PROVE  /\ Checked(timer, clock) \in Timer /\ Left(timer, clock) \in 1..TICKS - 1
         /\ Checked(timer, clock).wait \in 1..YieldTicks
         /\ Leads(Checked(timer, clock).entered,
                  age + Checked(timer, clock).wait - YieldTicks, clock)
<1> DEFINE d == age + timer.wait - YieldTicks
<1>1. timer.wait \in 1..YieldTicks /\ Leads(timer.entered, d, clock)
  BY DEF TimersFit, TimerFollowsAge
<1>2. d \in 0..TICKS
  BY <1>1 DEF Leads
<1>3. age \in 0..TICKS /\ YieldTicks \in 1..TICKS - 2
  BY ReaderAssumption, WidthsAssumption DEF TimersFit
<1>4. timer \in Timer /\ clock \in Clock
  BY DEF TimersFit
<1>5. /\ Checked(timer, clock).wait \in 1..YieldTicks
      /\ Leads(Checked(timer, clock).entered,
               age + Checked(timer, clock).wait - YieldTicks, clock)
  BY <1>1, <1>2, <1>3, <1>4, CheckedLeads
<1>6. timer.wait >= 1
  BY <1>1, <1>3, WidthsAssumption
<1>7. Checked(timer, clock) \in Timer /\ Left(timer, clock) \in 0..TICKS - 1
      /\ Left(timer, clock) >= 1
  BY <1>4, <1>6, CheckedIs
<1> QED
  BY <1>5, <1>7, WidthsAssumption

\* A read that starts has some time.
LEMMA StartReadFits ==
  ASSUME TimersFit, pc \notin {"yield", "closed"}, StartRead(pc'), UNCHANGED <<clock, age>>,
         pc' \notin {"yield", "closed"}, timeout' \in 0..TICKS - 1
  PROVE  TimersFit'
<1>1. timer' = Checked(timer, clock) /\ read_timer' = Countdown(Left(timer, clock), clock)
  BY DEF StartRead
<1>2. timer' \in Timer /\ read_timer' \in Timer /\ read_timer'.entered = clock
      /\ read_timer'.wait >= 1
  BY <1>1, TimerChecked, WidthsAssumption DEF Countdown, Timer, TimersFit
<1>3. TimerFollowsAge'
  BY <1>1, TimerChecked DEF TimerFollowsAge
<1> QED
  BY <1>2, <1>3 DEF TimersFit, FreshReadTimer

\* A packet that is returned leaves MQTTYield's timer.
LEMMA ReturnFits ==
  ASSUME TimersFit, PacketFits, Return, clock' = clock, pc \notin {"yield", "closed"}
  PROVE  TimersFit' /\ PacketFits'
<1>1. TimersFit'
  BY NoTimerIsTimer, WidthsAssumption
  DEF Return, NoPacket, TimersFit, TimerFollowsAge, FreshReadTimer
<1>2. PacketFits'
  BY PlaceIs DEF Return, NoPacket, PacketFits, BetweenPackets, MaxDigits
<1> QED
  BY <1>1, <1>2

LEMMA CloseFits ==
  ASSUME TimersFit, PacketFits, Close, clock' = clock
  PROVE  TimersFit' /\ PacketFits'
<1>1. TimersFit'
  BY NoTimerIsTimer, ReaderAssumption, WidthsAssumption
  DEF Close, NoPacket, TimersFit, TimerFollowsAge, FreshReadTimer
<1>2. PacketFits'
  BY PlaceIs DEF Close, NoPacket, PacketFits, BetweenPackets, MaxDigits
<1> QED
  BY <1>1, <1>2

\* Whatever follows the length that was read, it fits.
LEMMA LengthReadFits ==
  ASSUME TimersFit, PacketFits, pc = "length", NEW n \in Nat, LengthRead(n), clock' = clock
  PROVE  TimersFit' /\ PacketFits'
<1>1. CASE Close
  BY <1>1, CloseFits
<1>2. CASE Return
  BY <1>2, ReturnFits
<1>3. CASE /\ n > 0 /\ ~Overflows(n) /\ StartRead("body")
           /\ rem_len' = n /\ timeout' = 0 /\ digits' = 0 /\ multiplier' = 1
           /\ UNCHANGED <<got, age>>
  <2>1. pc' = "body"
    BY <1>3 DEF StartRead
  <2>2. TimersFit'
    BY <1>3, <2>1, StartReadFits, WidthsAssumption
  <2>3. Size(n) \in Nat
    BY SizeIs DEF MaxDigits
  <2>4. 1 + Size(n) + n <= readbuf_size
    BY <1>3, <2>3, ReaderAssumption DEF Overflows
  <2>5. got' = 0
    BY <1>3 DEF PacketFits, BetweenPackets
  <2> QED
    BY <1>3, <2>1, <2>2, <2>4, <2>5, PlaceIs DEF PacketFits, BetweenPackets, MaxDigits
<1> QED
  BY <1>1, <1>2, <1>3 DEF LengthRead

\* recv() takes bytes that are there.
LEMMA RecvFits ==
  ASSUME NetFits, NEW k \in Nat \ {0}, Recv(k),
         cut' \in BOOLEAN, ticked' \in BOOLEAN
  PROVE  NetFits'
<1>1. k \in 1..Len(received)
  BY DEF Recv, NetFits
<1>2. received[k] \in WireByte
  BY <1>1 DEF NetFits
<1>3. SubSeq(received, k + 1, Len(received)) \in Seq(WireByte)
  BY <1>1 DEF NetFits
<1> QED
  BY <1>2, <1>3 DEF Recv, NetFits, WireByte

LEMMA IInvInit == Init => IInv
<1> SUFFICES ASSUME Init PROVE IInv
  OBVIOUS
<1>1. TimersFit
  BY NoTimerIsTimer, ReaderAssumption, WidthsAssumption
  DEF Init, TimersFit, TimerFollowsAge, FreshReadTimer
<1>2. PacketFits
  BY PlaceIs DEF Init, PacketFits, BetweenPackets, MaxDigits
<1>3. NetFits
  <2>1. << >> \in Seq(WireByte)
    OBVIOUS
  <2> HIDE DEF WireByte
  <2> QED
    BY <2>1 DEF Init, NetFits
<1> QED
  BY <1>1, <1>2, <1>3, Parts

LEMMA EnvironmentKeeps == IInv /\ Environment => IInv'
<1> SUFFICES ASSUME TimersFit, NetFits, PacketFits, Environment
             PROVE  TimersFit' /\ NetFits' /\ PacketFits'
  BY DEF IInv, TypeOK, TimersFit, NetFits, PacketFits
<1>1. CASE UNCHANGED <<clock, timer, pc, read_timer, packet, history>>
  <2>1. TimersFit' /\ PacketFits' /\ UNCHANGED <<rest, cut, ticked>>
    BY <1>1
    DEF TimersFit, PacketFits, TimerFollowsAge, FreshReadTimer, BetweenPackets, packet, history
  <2>2. CASE \E n \in Lengths : Send(n)
    <3>1. PICK n \in Lengths : Send(n)
      BY <2>2
    <3>2. wire' \in Seq(WireByte)
      BY <3>1, BytesIs DEF Send, NetFits
    <3> QED
      BY <2>1, <3>1, <3>2 DEF Send, NetFits
  <2>3. CASE Arrive
    <3>1. Head(wire) \in WireByte /\ Tail(wire) \in Seq(WireByte)
      BY <2>3 DEF Arrive, NetFits
    <3>2. Append(received, Head(wire)) \in Seq(WireByte)
      BY <3>1, AppendProperties DEF NetFits
    <3> QED
      BY <2>1, <2>3, <3>1, <3>2 DEF Arrive, NetFits
  <2>4. CASE PeerCloses
    BY <2>1, <2>4 DEF PeerCloses, NetFits
  <2>5. CASE PeerResets
    <3>1. << >> \in Seq(WireByte)
      OBVIOUS
    <3> QED
      BY <2>1, <2>5, <3>1 DEF PeerResets, NetFits
  <2>6. CASE Tick
    <3>1. clock' # clock
      BY <2>6, NextTickIs, NextOverflow, WidthsAssumption DEF Tick, TimersFit, Clock
    <3> QED
      BY <1>1, <3>1
  <2> QED
    BY <2>2, <2>3, <2>4, <2>5, <2>6 DEF Environment
<1>2. CASE Tick
  <2>1. NetFits' /\ PacketFits'
    BY <1>2 DEF Tick, NetFits, PacketFits, BetweenPackets, net, packet
  <2>2. clock' \in Clock /\ age' \in 0..MaxAge
    BY <1>2, NextTickIs, ReaderAssumption, WidthsAssumption DEF Tick, TimersFit
  <2>3. FreshReadTimer'
    BY <1>2 DEF Tick, FreshReadTimer
  <2>4. TimerFollowsAge'
    <3>1. CASE pc \in {"yield", "closed"}
      BY <1>2, <3>1 DEF Tick, TimerFollowsAge
    <3>2. CASE pc \notin {"yield", "closed"}
      <4> DEFINE d == age + timer.wait - YieldTicks
      <4>1. timer.wait \in 1..YieldTicks /\ Leads(timer.entered, d, clock)
        BY <3>2 DEF TimersFit, TimerFollowsAge
      <4>2. age \in 0..TICKS - 1 /\ age' = age + 1
        BY <1>2, <3>2, ReaderAssumption, WidthsAssumption DEF Tick, TimersFit
      <4>3. d \in 0..TICKS - 1
        BY <4>1, <4>2, ReaderAssumption, WidthsAssumption DEF Leads
      <4>4. timer.entered \in Clock /\ clock \in Clock
        BY DEF TimersFit, Timer
      <4>5. Leads(timer.entered, d + 1, NextTick(clock))
        BY <4>1, <4>3, <4>4, TickLeads
      <4>6. age' + timer.wait - YieldTicks = d + 1
        BY <4>1, <4>2, ReaderAssumption, WidthsAssumption
      <4>7. timer' = timer /\ clock' = NextTick(clock) /\ pc' = pc
        BY <1>2 DEF Tick
      <4> QED
        BY <3>2, <4>1, <4>5, <4>6, <4>7 DEF TimerFollowsAge
    <3> QED
      BY <3>1, <3>2
  <2> QED
    BY <1>2, <2>1, <2>2, <2>3, <2>4 DEF Tick, TimersFit, packet
<1> QED
  BY <1>1, <1>2 DEF Environment, Send, Arrive, PeerCloses, PeerResets

LEMMA YieldKeeps ==
  IInv /\ (Yield \/ StartHeader \/ TestGoesOn \/ TestEnds \/ Reconnect \/ Spin) => IInv'
<1> SUFFICES ASSUME TimersFit, NetFits, PacketFits,
                    Yield \/ StartHeader \/ TestGoesOn \/ TestEnds \/ Reconnect \/ Spin
             PROVE  TimersFit' /\ NetFits' /\ PacketFits'
  BY DEF IInv, TypeOK, TimersFit, NetFits, PacketFits
<1>1. CASE Yield
  <2>1. timer' \in Timer /\ timer'.wait = YieldTicks /\ timer'.entered = clock /\ clock' = clock
    BY <1>1, ReaderAssumption, WidthsAssumption DEF Yield, Countdown, Timer, TimersFit
  <2>2. Leads(clock, 0, clock)
    BY WidthsAssumption DEF Leads, Clock, TimersFit
  <2>3. age = 0 /\ age' = 0 /\ pc' = "start"
    BY <1>1 DEF Yield, TimersFit, TimerFollowsAge, history
  <2>4. age' + timer'.wait - YieldTicks = 0 /\ timer'.wait \in 1..YieldTicks
    BY <2>1, <2>3, ReaderAssumption, WidthsAssumption
  <2>5. TimerFollowsAge'
    BY <2>1, <2>2, <2>3, <2>4 DEF TimerFollowsAge
  <2> QED
    BY <1>1, <2>1, <2>3, <2>5
    DEF Yield, TimersFit, NetFits, PacketFits, FreshReadTimer, BetweenPackets, net, packet, history
<1>2. CASE StartHeader
  <2>1. pc = "start" /\ pc' = "header" /\ UNCHANGED <<clock, net, packet, history>>
    BY <1>2 DEF StartHeader, StartRead
  <2>2. StartRead(pc')
    BY <1>2, <2>1 DEF StartHeader
  <2>3. TimersFit'
    BY <2>1, <2>2, StartReadFits DEF TimersFit, packet, history
  <2> QED
    BY <2>1, <2>3 DEF NetFits, PacketFits, BetweenPackets, net, packet, history
<1>3. CASE TestGoesOn
  <2>1. timer' = Checked(timer, clock) /\ pc = "test" /\ pc' = "start"
        /\ UNCHANGED <<clock, net, read_timer, packet, history>>
    BY <1>3 DEF TestGoesOn
  <2>2. TimerFollowsAge' /\ timer' \in Timer
    BY <2>1, TimerChecked DEF TimerFollowsAge, history
  <2>3. TimersFit'
    BY <2>1, <2>2 DEF TimersFit, FreshReadTimer, packet, history
  <2> QED
    BY <2>1, <2>3 DEF NetFits, PacketFits, BetweenPackets, net, packet, history
<1>4. CASE TestEnds
  <2>1. TimersFit'
    BY <1>4, NoTimerIsTimer, ReaderAssumption, WidthsAssumption
    DEF TestEnds, TimersFit, TimerFollowsAge, FreshReadTimer, packet
  <2> QED
    BY <1>4, <2>1 DEF TestEnds, NetFits, PacketFits, BetweenPackets, net, packet
<1>5. CASE Reconnect
  <2>1. TimersFit'
    BY <1>5 DEF Reconnect, TimersFit, TimerFollowsAge, FreshReadTimer, packet
  <2>2. << >> \in Seq(WireByte)
    OBVIOUS
  <2>3. NetFits'
    BY <1>5, <2>2 DEF Reconnect, NetFits
  <2> QED
    BY <1>5, <2>1, <2>3 DEF Reconnect, PacketFits, BetweenPackets, packet
<1>6. CASE Spin
  <2>1. read_timer' = Checked(read_timer, clock) /\ UNCHANGED <<clock, timer, net, pc, packet, history>>
    BY <1>6 DEF Spin
  <2>2. read_timer' \in Timer
    BY <2>1, CheckedIs DEF TimersFit
  <2>3. FreshReadTimer'
    BY <2>1, FreshTimer DEF TimersFit, FreshReadTimer, history
  <2>4. TimersFit'
    BY <2>1, <2>2, <2>3 DEF TimersFit, TimerFollowsAge, packet, history
  <2> QED
    BY <2>1, <2>4 DEF NetFits, PacketFits, BetweenPackets, net, packet, history
<1> QED
  BY <1>1, <1>2, <1>3, <1>4, <1>5, <1>6

\* A digit smaller than the radix does not carry.
LEMMA DigitAdds ==
  ASSUME NEW m \in Nat \ {0}, NEW r \in Nat, r < m, NEW x \in 0..Radix - 1
  PROVE  r + x * m \in Nat /\ r + x * m < m * Radix
<1>1. x * m \in Nat /\ m * Radix \in Nat
  BY ReaderAssumption
<1>2. x * m + m <= m * Radix
  <2>1. (Radix - x) * m >= m
    BY ReaderAssumption
  <2>2. (Radix - x) * m = m * Radix - x * m
    BY ReaderAssumption
  <2> QED
    BY <1>1, <2>1, <2>2
<1> QED
  BY <1>1, <1>2

LEMMA LengthKeeps == IInv /\ (LengthEnds \/ \E v \in Byte : Length(v)) => IInv'
<1> SUFFICES ASSUME TimersFit, NetFits, PacketFits, LengthEnds \/ \E v \in Byte : Length(v)
             PROVE  TimersFit' /\ NetFits' /\ PacketFits'
  BY DEF IInv, TypeOK, TimersFit, NetFits, PacketFits
<1>1. CASE LengthEnds
  <2>1. pc = "length" /\ LengthRead(rem_len) /\ UNCHANGED <<clock, net, rest, cut, ticked>>
    BY <1>1 DEF LengthEnds
  <2>2. TimersFit' /\ PacketFits'
    BY <2>1, LengthReadFits DEF PacketFits
  <2> QED
    BY <2>1, <2>2 DEF NetFits, net
<1>2. CASE \E v \in Byte : Length(v)
  <2>1. PICK v \in Byte : Length(v)
    BY <1>2
  <2> DEFINE x == v % Radix
             n == rem_len + x * multiplier
  <2>2. pc = "length" /\ Recv(1) /\ UNCHANGED <<clock, cut, ticked>>
    BY <2>1 DEF Length
  <2>3. NetFits'
    BY <2>2, RecvFits DEF NetFits
  <2>4. x \in 0..Radix - 1
    BY ReaderAssumption DEF Byte
  <2>5. multiplier \in Nat \ {0} /\ rem_len \in Nat /\ rem_len < multiplier
        /\ digits \in 0..MaxDigits - 1
    BY <2>2, PlaceIs DEF PacketFits, MaxDigits
  <2> HIDE DEF x
  <2>6. n \in Nat /\ n < multiplier * Radix
    BY <2>4, <2>5, DigitAdds
  <2>7. CASE ~More(v) /\ LengthRead(n)
    BY <2>2, <2>3, <2>6, <2>7, LengthReadFits
  <2>8. CASE /\ More(v) /\ rem_len' = n /\ digits' = digits + 1
             /\ multiplier' = multiplier * Radix /\ read_timer' = Countdown(timeout, clock)
             /\ UNCHANGED <<timer, pc, timeout, got, age>>
    <3>1. digits + 1 < MaxDigits
      BY <2>8 DEF More
    <3>2. digits' \in 0..MaxDigits - 1 /\ multiplier' = Place[digits' + 1]
      BY <2>5, <2>8, <3>1, NextPlace DEF PacketFits, MaxDigits
    <3>3. got' = 0 /\ pc' = "length"
      BY <2>2, <2>8 DEF PacketFits, BetweenPackets
    <3>4. PacketFits'
      BY <2>6, <2>8, <3>2, <3>3 DEF PacketFits, BetweenPackets
    <3>5. read_timer' \in Timer
      BY <2>8 DEF Countdown, Timer, TimersFit
    <3>6. TimersFit'
      BY <2>2, <2>8, <3>3, <3>5 DEF TimersFit, TimerFollowsAge, FreshReadTimer
    <3> QED
      BY <2>3, <3>4, <3>6
  <2> QED
    BY <2>1, <2>7, <2>8 DEF Length, x
<1> QED
  BY <1>1, <1>2

LEMMA ReadKeeps ==
  IInv /\ (Header \/ HeaderEnds \/ BodyEnds \/ \E k \in 1..readbuf_size : Body(k)) => IInv'
<1> SUFFICES ASSUME TimersFit, NetFits, PacketFits,
                    Header \/ HeaderEnds \/ BodyEnds \/ \E k \in 1..readbuf_size : Body(k)
             PROVE  TimersFit' /\ NetFits' /\ PacketFits'
  BY DEF IInv, TypeOK, TimersFit, NetFits, PacketFits
<1>1. CASE Header
  <2>1. /\ pc = "header" /\ pc' = "length" /\ Recv(1) /\ StartRead(pc')
        /\ timeout' = Left(timer, clock)
        /\ UNCHANGED <<clock, digits, multiplier, rem_len, got, age, cut, ticked>>
    BY <1>1 DEF Header, StartRead
  <2>2. timeout' \in 0..TICKS - 1
    BY <2>1, TimerChecked, WidthsAssumption
  <2>3. TimersFit'
    BY <2>1, <2>2, StartReadFits
  <2>4. NetFits'
    BY <2>1, RecvFits DEF NetFits
  <2>5. rem_len = 0 /\ multiplier > 0
    BY <2>1, PlaceIs DEF PacketFits, BetweenPackets, MaxDigits
  <2>6. PacketFits'
    BY <2>1, <2>5 DEF PacketFits, BetweenPackets
  <2> QED
    BY <2>3, <2>4, <2>6
<1>2. CASE HeaderEnds
  <2>1. TimersFit' /\ PacketFits'
    BY <1>2, ReturnFits, CloseFits DEF HeaderEnds
  <2> QED
    BY <1>2, <2>1 DEF HeaderEnds, NetFits, net
<1>3. CASE BodyEnds
  <2>1. TimersFit' /\ PacketFits'
    BY <1>3, ReturnFits DEF BodyEnds
  <2> QED
    BY <1>3, <2>1 DEF BodyEnds, NetFits, net
<1>4. CASE \E k \in 1..readbuf_size : Body(k)
  <2>1. PICK k \in 1..readbuf_size : Body(k)
    BY <1>4
  <2>2. /\ pc = "body" /\ k <= rem_len - got /\ Recv(k) /\ clock' = clock
        /\ ticked' = (ticked /\ pc' = "body")
    BY <2>1 DEF Body
  <2>3. k \in Nat \ {0}
    BY ReaderAssumption
  <2>4. cut' \in BOOLEAN /\ ticked' \in BOOLEAN
    BY <2>1, <2>2 DEF Body, NetFits
  <2>5. NetFits'
    BY <2>2, <2>3, <2>4, RecvFits
  <2>6. CASE Return
    BY <2>2, <2>5, <2>6, ReturnFits
  <2>7. CASE /\ got + k < rem_len /\ ~Expired(read_timer, clock)
             /\ got' = got + k /\ read_timer' = Checked(read_timer, clock)
             /\ UNCHANGED <<timer, pc, timeout, digits, multiplier, rem_len, age, cut>>
    <3>1. PacketFits'
      BY <2>2, <2>3, <2>7 DEF PacketFits, BetweenPackets
    <3>2. read_timer' \in Timer
      BY <2>7, CheckedIs DEF TimersFit
    <3>3. FreshReadTimer'
      BY <2>2, <2>7, FreshTimer DEF TimersFit, FreshReadTimer
    <3>4. TimersFit'
      BY <2>2, <2>7, <3>2, <3>3 DEF TimersFit, TimerFollowsAge
    <3> QED
      BY <2>5, <3>1, <3>4
  <2> QED
    BY <2>1, <2>6, <2>7 DEF Body
<1> QED
  BY <1>1, <1>2, <1>3, <1>4

LEMMA IInvStep == IInv /\ [Next]_vars => IInv'
<1>1. IInv /\ UNCHANGED vars => IInv'
  BY DEF vars, net, packet, history, IInv, TypeOK, TimerFollowsAge, FreshReadTimer, BetweenPackets
<1> QED
  BY <1>1, EnvironmentKeeps, YieldKeeps, LengthKeeps, ReadKeeps DEF Next, Reader

LEMMA Invariance == Spec => []IInv
  BY IInvInit, IInvStep, PTL DEF Spec

\* readbuf holds every packet that is read, and the digits of a length stay below its next place.
THEOREM TypeCorrect == Spec => []TypeOK
<1>1. IInv => TypeOK
  BY DEF IInv
<1> QED
  BY <1>1, Invariance, PTL

\* MQTTYield's timer runs out when its time is over, for every width of the tick counter, and
\* however often readPacket() asks for what is left.
THEOREM TimerExact == Spec => []TimerIsExact
<1>1. IInv => TimerIsExact
  <2> SUFFICES ASSUME IInv, pc \notin {"yield", "closed"}
               PROVE  Expired(timer, clock) <=> age >= YieldTicks
    BY DEF TimerIsExact
  <2> DEFINE d == age + timer.wait - YieldTicks
  <2>1. timer.wait \in 1..YieldTicks /\ Leads(timer.entered, d, clock) /\ timer \in Timer
        /\ clock \in Clock /\ age \in 0..MaxAge
    BY DEF IInv, TypeOK, TimerFollowsAge
  <2>2. d \in 0..TICKS
    BY <2>1 DEF Leads
  <2>3. timer.wait \in 1..TICKS - 2 /\ (d >= timer.wait) = (age >= YieldTicks)
    BY <2>1, ReaderAssumption, WidthsAssumption
  <2>4. (d >= timer.wait => Expired(timer, clock)) /\ (d < timer.wait => ~Expired(timer, clock))
    BY <2>1, <2>2, <2>3, ExpiredWhenOver
  <2>5. age >= YieldTicks => Expired(timer, clock)
    BY <2>3, <2>4
  <2>6. ~(age >= YieldTicks) => ~Expired(timer, clock)
    BY <2>1, <2>2, <2>3, <2>4, ReaderAssumption, WidthsAssumption
  <2> QED
    BY <2>5, <2>6
<1> QED
  BY <1>1, Invariance, PTL

\* FreeRTOS_read() gives a body up in the tick in which it was begun only if the connection ends.
THEOREM CutNotAtOnce == Spec => CutTakesATick
<1>1. IInv /\ [Next]_vars => [cut' /\ ~cut => ticked \/ link # "open"]_vars
  <2> SUFFICES ASSUME IInv, Next, cut' # cut, cut', ~ticked, link = "open"
               PROVE  FALSE
    BY DEF vars, history
  <2>1. PICK k \in 1..readbuf_size : Body(k)
    BY DEF Next, Environment, Send, Arrive, PeerCloses, PeerResets, Tick, Reader, Yield, StartHeader,
           TestGoesOn, TestEnds, Reconnect, Spin, Header, HeaderEnds, LengthEnds, BodyEnds, AtEnd,
           Length, history
  <2>2. pc = "body" /\ Expired(read_timer, clock)
    BY <2>1 DEF Body
  <2>3. read_timer \in Timer /\ clock \in Clock /\ read_timer.entered = clock /\ read_timer.wait >= 1
    BY <2>2 DEF IInv, TypeOK, FreshReadTimer
  <2> QED
    BY <2>2, <2>3, FreshTimer
<1> QED
  BY <1>1, Invariance, PTL DEF Spec, CutTakesATick

-----------------------------------------------------------------------------
(* decodePacket() puts together what MQTTPacket_encode took apart *)

LEMMA Product ==
  ASSUME NEW m \in Nat, NEW x \in Nat
  PROVE  m * x \in Nat /\ (x > 0 => m * x >= m)
<1>1. m * x \in Nat
  OBVIOUS
<1>2. CASE x > 0
  <2>1. m * (x - 1) \in Nat
    BY <1>2
  <2>2. m * x = m * (x - 1) + m
    BY <1>2
  <2> QED
    BY <2>1, <2>2
<1> QED
  BY <1>1, <1>2

LEMMA Division ==
  ASSUME NEW a \in Nat, NEW m \in Nat \ {0}
  PROVE  (a \div m) \in Nat /\ a % m \in 0..m - 1 /\ a = m * (a \div m) + (a % m)
  OBVIOUS

\* Quotient and remainder are the only ones.
LEMMA Remainder ==
  ASSUME NEW m \in Nat \ {0}, NEW x \in Nat, NEW r \in 0..m - 1
  PROVE  (m * x + r) % m = r
<1> DEFINE a == m * x + r
           q == a \div m
<1>1. a \in Nat
  BY Product
<1> HIDE DEF a
<1>2. q \in Nat /\ a % m \in 0..m - 1 /\ a = m * q + (a % m)
  BY <1>1, Division
<1> HIDE DEF q
<1> USE DEF a
<1>3. CASE x > q
  <2>1. m * (x - q) >= m
    BY <1>2, <1>3, Product
  <2>2. m * (x - q) = m * x - m * q
    BY <1>2
  <2>3. m * x \in Nat /\ m * q \in Nat
    BY <1>2, Product
  <2> QED
    BY <1>2, <2>1, <2>2, <2>3
<1>4. CASE x < q
  <2>1. m * (q - x) >= m
    BY <1>2, <1>4, Product
  <2>2. m * (q - x) = m * q - m * x
    BY <1>2
  <2>3. m * x \in Nat /\ m * q \in Nat
    BY <1>2, Product
  <2> QED
    BY <1>2, <2>1, <2>2, <2>3
<1>5. CASE x = q
  <2>1. m * q \in Nat
    BY <1>2, Product
  <2> QED
    BY <1>2, <1>5, <2>1
<1> QED
  BY <1>2, <1>3, <1>4, <1>5

\* One digit more
LEMMA DigitJoins ==
  ASSUME NEW n \in Nat, NEW p \in Nat \ {0}
  PROVE  (n % p) + ((n \div p) % Radix) * p = n % (p * Radix)
<1> DEFINE q == n \div p
           d == q % Radix
           h == q \div Radix
           r == n % p
<1>1. q \in Nat /\ r \in 0..p - 1 /\ n = p * q + r
  OBVIOUS
<1> HIDE DEF q, r
<1>2. d \in 0..Radix - 1 /\ h \in Nat /\ q = Radix * h + d
  BY <1>1, ReaderAssumption
<1> HIDE DEF d, h
<1>3. p * Radix \in Nat \ {0}
  BY ReaderAssumption
<1>4. d * p + r \in 0..p * Radix - 1
  <2>1. r + d * p \in Nat /\ r + d * p < p * Radix
    BY <1>1, <1>2, DigitAdds
  <2>2. d * p \in Nat
    BY <1>2, Product
  <2> QED
    BY <1>1, <1>3, <2>1, <2>2
<1>5. n = (p * Radix) * h + (d * p + r)
  BY <1>1, <1>2, ReaderAssumption
<1>6. n % (p * Radix) = d * p + r
  <2> HIDE DEF d, h
  <2> DEFINE m == p * Radix
             e == d * p + r
  <2>1. m \in Nat \ {0} /\ e \in 0..m - 1 /\ n = m * h + e
    BY <1>3, <1>4, <1>5
  <2> HIDE DEF m, e
  <2>2. n % m = e
    BY <1>2, <2>1, Remainder
  <2> QED
    BY <2>2 DEF m, e
<1>7. r + d * p = d * p + r
  BY <1>1, <1>2
<1> QED
  BY <1>6, <1>7 DEF q, d, r

LEMMA LengthIs ==
  ASSUME NEW n \in Lengths
  PROVE  n \in Nat /\ n < Place[MaxDigits] * Radix
<1>1. Radix * Radix * Radix * Radix \in Nat
  BY PlaceIs, ReaderAssumption DEF MaxDigits
<1> QED
  BY <1>1, PlaceIs, ReaderAssumption DEF MaxDigits

LEMMA PlacesGrow == Place[2] <= Place[3] /\ Place[3] <= Place[4]
<1>1. Place[2] * Radix >= Place[2] /\ Place[3] * Radix >= Place[3]
  BY PlaceIs, Product, ReaderAssumption DEF MaxDigits
<1> QED
  BY <1>1, NextPlace DEF MaxDigits

LEMMA TwoPlaces == IsFiniteSet({2} \cup {3}) /\ Cardinality({2} \cup {3}) = 2
<1>1. IsFiniteSet({2}) /\ Cardinality({2}) = 1 /\ 3 \notin {2}
  BY FS_Singleton
<1> QED
  BY <1>1, FS_AddElement

\* The size is such that nothing is left for another digit.
LEMMA SizeSuffices ==
  ASSUME NEW n \in Lengths
  PROVE  n < Place[Size(n)] * Radix
<1> DEFINE S == {i \in 2..MaxDigits : n >= Place[i]}
<1>1. n \in Nat /\ n < Place[4] * Radix
  BY LengthIs DEF MaxDigits
<1>2. Place[1] \in Nat /\ Place[2] \in Nat /\ Place[3] \in Nat /\ Place[4] \in Nat
  BY PlaceIs DEF MaxDigits
<1>3. Place[1] * Radix = Place[2] /\ Place[2] * Radix = Place[3] /\ Place[3] * Radix = Place[4]
  BY NextPlace DEF MaxDigits
<1>4. Place[2] <= Place[3] /\ Place[3] <= Place[4]
  BY PlacesGrow
<1>5. CASE n < Place[2]
  <2>1. S = {}
    BY <1>1, <1>2, <1>4, <1>5 DEF MaxDigits
  <2>2. Size(n) = 1
    BY <2>1, FS_EmptySet DEF Size
  <2> QED
    BY <1>3, <1>5, <2>2
<1>6. CASE n >= Place[2] /\ n < Place[3]
  <2>1. S = {2}
    BY <1>1, <1>2, <1>4, <1>6 DEF MaxDigits
  <2>2. Cardinality(S) = 1
    BY <2>1, FS_Singleton
  <2>3. Size(n) = 2
    BY <2>2 DEF Size
  <2> QED
    BY <1>3, <1>6, <2>3
<1>7. CASE n >= Place[3] /\ n < Place[4]
  <2>1. S = {2} \cup {3}
    BY <1>1, <1>2, <1>4, <1>7 DEF MaxDigits
  <2>2. Cardinality(S) = 2
    BY <2>1, TwoPlaces
  <2> QED
    BY <1>3, <1>7, <2>2 DEF Size
<1>8. CASE n >= Place[4]
  <2>1. S = ({2} \cup {3}) \cup {4}
    BY <1>1, <1>2, <1>4, <1>8 DEF MaxDigits
  <2> DEFINE T == {2} \cup {3}
  <2>2. 4 \notin T /\ IsFiniteSet(T) /\ Cardinality(T) = 2
    BY TwoPlaces
  <2> HIDE DEF T
  <2>3. Cardinality(T \cup {4}) = 3
    BY <2>2, FS_AddElement
  <2>4. Cardinality(S) = 3
    BY <2>1, <2>3 DEF T
  <2> QED
    BY <1>1, <2>4 DEF Size
<1> QED
  BY <1>1, <1>2, <1>5, <1>6, <1>7, <1>8

\* What decodePacket() sees of a byte of the length
LEMMA DigitSays ==
  ASSUME NEW n \in Lengths, NEW i \in 1..Size(n)
  PROVE  /\ Digits(n)[i] \in Byte
         /\ Digits(n)[i] % Radix = (n \div Place[i]) % Radix
         /\ Digits(n)[i] >= Radix <=> i < Size(n)
<1>1. n \in Nat
  BY LengthIs
<1>2. Place[i] \in Nat \ {0}
  BY PlaceIs, SizeIs, <1>1 DEF MaxDigits
<1> DEFINE d == (n \div Place[i]) % Radix
<1>3. (n \div Place[i]) \in Nat
  BY <1>1, <1>2
<1>4. d \in 0..Radix - 1
  BY <1>3, ReaderAssumption
<1>5. Digits(n)[i] = d + (IF i < Size(n) THEN Radix ELSE 0)
  BY DEF Digits
<1> HIDE DEF d
<1>6. d % Radix = d /\ (d + Radix) % Radix = d
  <2>1. (Radix * 0 + d) % Radix = d /\ (Radix * 1 + d) % Radix = d
    BY <1>4, Remainder, ReaderAssumption
  <2>2. Radix * 0 + d = d /\ Radix * 1 + d = d + Radix
    BY <1>4, ReaderAssumption
  <2> QED
    BY <2>1, <2>2
<1>7. Digits(n)[i] \in Byte
  BY <1>1, DigitIs
<1>8. Digits(n)[i] >= Radix <=> i < Size(n)
  BY <1>1, <1>4, <1>5, SizeIs, ReaderAssumption DEF MaxDigits
<1>9. Digits(n)[i] % Radix = d
  BY <1>4, <1>5, <1>6, ReaderAssumption
<1> QED
  BY <1>7, <1>8, <1>9 DEF d

\* With a digit, the reader has the sent length modulo the next place, and with the last digit
\* the length.
LEMMA DigitRead ==
  ASSUME NEW n \in Lengths, NEW i \in 1..Size(n)
  PROVE  LET m == (n % Place[i]) + (Digits(n)[i] % Radix) * Place[i]
         IN  m = n % (Place[i] * Radix) /\ (i = Size(n) => m = n)
<1>1. n \in Nat /\ Place[i] \in Nat \ {0}
  BY LengthIs, PlaceIs, SizeIs DEF MaxDigits
<1>2. (n % Place[i]) + (Digits(n)[i] % Radix) * Place[i] = n % (Place[i] * Radix)
  BY <1>1, DigitJoins, DigitSays
<1>3. ASSUME i = Size(n) PROVE n % (Place[i] * Radix) = n
  <2> DEFINE m == Place[i] * Radix
  <2>1. n < m /\ m \in Nat \ {0}
    BY <1>1, <1>3, SizeSuffices, ReaderAssumption
  <2> HIDE DEF m
  <2>2. (m * 0 + n) % m = n
    BY <1>1, <2>1, Remainder
  <2>3. m * 0 + n = n
    BY <1>1, <2>1
  <2> QED
    BY <2>2, <2>3 DEF m
<1> QED
  BY <1>2, <1>3

-----------------------------------------------------------------------------
(* Streams *)

LEMMA AfterIs ==
  ASSUME NEW s \in Seq(WireByte), NEW r \in Nat, NEW j \in 0..Len(s)
  PROVE  After(s, r, j) \in Nat
<1>1. \A x \in WireByte : x.rest \in Nat
  BY DEF WireByte
<1>2. \A i \in 1..Len(s) : s[i] \in WireByte
  OBVIOUS
<1>3. j # 0 => j \in 1..Len(s)
  OBVIOUS
<1> QED
  BY <1>1, <1>2, <1>3 DEF After

\* The rest of the packet that was begun is there.
LEMMA FramedHere ==
  ASSUME NEW s \in Seq(WireByte), NEW r \in Nat, Framed(s, r)
  PROVE  r <= Len(s) /\ \A i \in 1..r : s[i].rest = r - i
<1>1. After(s, r, 0) = r /\ 0 \in 0..Len(s)
  BY DEF After
<1>2. 0 + r <= Len(s) /\ \A i \in 1..r : s[0 + i].rest = r - i
  BY <1>1 DEF Framed
<1> QED
  BY <1>2

\* What recv() takes from a stream leaves it framed.
LEMMA FramedTail ==
  ASSUME NEW s \in Seq(WireByte), NEW r \in Nat, Framed(s, r), NEW k \in 1..Len(s)
  PROVE  Framed(SubSeq(s, k + 1, Len(s)), s[k].rest)
<1> DEFINE t == SubSeq(s, k + 1, Len(s))
           q == s[k].rest
<1>1. t \in Seq(WireByte) /\ Len(t) = Len(s) - k /\ \A i \in 1..Len(t) : t[i] = s[k + i]
  OBVIOUS
<1> HIDE DEF t
<1>2. SUFFICES ASSUME NEW j \in 0..Len(t)
               PROVE  /\ j + After(t, q, j) <= Len(t)
                      /\ \A i \in 1..After(t, q, j) : t[j + i].rest = After(t, q, j) - i
                      /\ After(t, q, j) = 0 /\ j < Len(t) => \E n \in Lengths : Starts(t, j, n)
  BY DEF Framed, t
<1> DEFINE a == After(s, r, k + j)
<1>3. a = After(t, q, j) /\ k + j \in 0..Len(s)
  BY <1>1 DEF After
<1>4. a \in Nat
  BY <1>3, AfterIs
<1>5. /\ k + j + a <= Len(s) /\ \A i \in 1..a : s[k + j + i].rest = a - i
      /\ a = 0 /\ k + j < Len(s) => \E n \in Lengths : Starts(s, k + j, n)
  BY <1>3 DEF Framed
<1> HIDE DEF a
<1>6. ASSUME NEW i \in 1..a PROVE t[j + i].rest = a - i
  <2>1. j + i \in 1..Len(t) /\ k + (j + i) = k + j + i
    BY <1>1, <1>4, <1>5
  <2> QED
    BY <1>1, <1>5, <2>1
<1>7. ASSUME NEW n \in Lengths, Starts(s, k + j, n) PROVE Starts(t, j, n)
  <2>1. Len(Bytes(n)) \in Nat
    BY BytesIs
  <2>2. ASSUME NEW i \in 1..Len(Bytes(n)) PROVE t[j + i] = Bytes(n)[i]
    <3>1. j + i \in 1..Len(t) /\ k + (j + i) = k + j + i
      BY <1>1, <1>7, <2>1 DEF Starts
    <3> QED
      BY <1>1, <1>7, <3>1 DEF Starts
  <2> QED
    BY <1>1, <1>7, <2>1, <2>2 DEF Starts
<1> QED
  BY <1>1, <1>3, <1>4, <1>5, <1>6, <1>7

\* A packet as it is sent
LEMMA PacketIs ==
  ASSUME NEW n \in Lengths
  PROVE  /\ Len(Bytes(n)) = 1 + Size(n) + n /\ n \in Nat /\ Size(n) \in 1..MaxDigits
         /\ \A i \in 1..Len(Bytes(n)) : Bytes(n)[i].rest = Len(Bytes(n)) - i
         /\ \A i \in 1..Size(n) : Bytes(n)[i + 1].values = {Digits(n)[i]}
<1>1. n \in Nat /\ Size(n) \in 1..MaxDigits
  BY LengthIs, SizeIs
<1> DEFINE total == 1 + Size(n) + n
           byte(i) == [values |-> IF i \in 2..Size(n) + 1 THEN {Digits(n)[i - 1]} ELSE Byte,
                       rest |-> total - i]
<1>2. total \in Nat /\ total >= Size(n) + 1
  BY <1>1 DEF MaxDigits
<1>3. Bytes(n) = [i \in 1..total |-> byte(i)]
  BY DEF Bytes
<1> HIDE DEF total
<1>4. Len(Bytes(n)) = total
  <2> HIDE DEF byte
  <2> QED
    BY <1>2, <1>3
<1>5. \A i \in 1..total : Bytes(n)[i].rest = total - i
  BY <1>3
<1>6. ASSUME NEW i \in 1..Size(n) PROVE Bytes(n)[i + 1].values = {Digits(n)[i]}
  <2>1. i + 1 \in 1..total /\ i + 1 \in 2..Size(n) + 1 /\ i + 1 - 1 = i
    BY <1>1, <1>2 DEF MaxDigits
  <2> QED
    BY <1>3, <2>1
<1> QED
  BY <1>1, <1>4, <1>5, <1>6 DEF total

\* A packet that is sent after others leaves the stream framed.
LEMMA FramedAppend ==
  ASSUME NEW s \in Seq(WireByte), NEW r \in Nat, Framed(s, r), NEW n \in Lengths
  PROVE  Framed(s \o Bytes(n), r)
<1> DEFINE b == Bytes(n)
           t == s \o b
<1>1. b \in Seq(WireByte) /\ Len(b) \in Nat \ {0}
  BY BytesIs, PacketIs DEF MaxDigits
<1>2. \A i \in 1..Len(b) : b[i].rest = Len(b) - i
  BY PacketIs
<1> HIDE DEF b
<1>3. /\ t \in Seq(WireByte) /\ Len(t) = Len(s) + Len(b)
      /\ \A i \in 1..Len(s) : t[i] = s[i]
      /\ \A i \in 1..Len(b) : t[Len(s) + i] = b[i]
  BY <1>1
<1> HIDE DEF t
<1>4. SUFFICES ASSUME NEW j \in 0..Len(t)
               PROVE  /\ j + After(t, r, j) <= Len(t)
                      /\ \A i \in 1..After(t, r, j) : t[j + i].rest = After(t, r, j) - i
                      /\ After(t, r, j) = 0 /\ j < Len(t) => \E m \in Lengths : Starts(t, j, m)
  BY DEF Framed, t, b
<1> DEFINE a == After(t, r, j)
<1>5. CASE j <= Len(s)
  <2>1. a = After(s, r, j) /\ a \in Nat
    <3>1. j \in 0..Len(s) /\ (j # 0 => t[j] = s[j])
      BY <1>3, <1>5
    <3> QED
      BY <3>1, AfterIs DEF After
  <2>2. /\ j + a <= Len(s) /\ \A i \in 1..a : s[j + i].rest = a - i
        /\ a = 0 /\ j < Len(s) => \E m \in Lengths : Starts(s, j, m)
    BY <1>5, <2>1 DEF Framed
  <2> HIDE DEF a
  <2>3. ASSUME NEW i \in 1..a PROVE t[j + i].rest = a - i
    <3>1. j + i \in 1..Len(s)
      BY <1>5, <2>1, <2>2
    <3> QED
      BY <1>3, <2>2, <3>1
  <2>4. ASSUME NEW m \in Lengths, Starts(s, j, m) PROVE Starts(t, j, m)
    <3>1. Len(Bytes(m)) \in Nat
      BY BytesIs
    <3>2. /\ j + Len(Bytes(m)) <= Len(s)
          /\ \A i \in 1..Len(Bytes(m)) : s[j + i] = Bytes(m)[i]
      BY <2>4 DEF Starts
    <3>3. j + Len(Bytes(m)) <= Len(t)
      BY <1>1, <1>3, <3>1, <3>2
    <3>4. ASSUME NEW i \in 1..Len(Bytes(m)) PROVE t[j + i] = Bytes(m)[i]
      <4>1. j + i \in 1..Len(s)
        BY <3>1, <3>2
      <4> QED
        BY <1>3, <3>2, <4>1
    <3> QED
      BY <3>3, <3>4 DEF Starts
  <2>5. ASSUME j = Len(s) PROVE Starts(t, j, n)
    <3>1. j + Len(b) <= Len(t) /\ \A i \in 1..Len(b) : t[j + i] = b[i]
      BY <1>1, <1>3, <2>5
    <3> QED
      BY <3>1 DEF Starts, b
  <2> QED
    BY <1>1, <1>3, <1>5, <2>1, <2>2, <2>3, <2>4, <2>5 DEF a
<1>6. CASE j > Len(s)
  <2> DEFINE h == j - Len(s)
  <2>1. h \in 1..Len(b) /\ j = Len(s) + h
    BY <1>3, <1>6
  <2> HIDE DEF h
  <2>2. a = Len(b) - h
    BY <1>2, <1>3, <2>1 DEF After
  <2>3. \A i \in 1..a : h + i \in 1..Len(b) /\ j + i = Len(s) + (h + i)
    BY <2>1, <2>2
  <2>4. ASSUME NEW i \in 1..a PROVE t[j + i].rest = a - i
    <3>1. t[j + i] = b[h + i] /\ b[h + i].rest = Len(b) - (h + i)
      BY <1>2, <1>3, <2>3
    <3> QED
      BY <1>1, <2>1, <2>2, <3>1
  <2> QED
    BY <1>3, <2>1, <2>2, <2>4
<1> QED
  BY <1>5, <1>6

LEMMA StreamIs ==
  ASSUME NetFits
  PROVE  /\ stream \in Seq(WireByte) /\ Len(stream) = Len(received) + Len(wire)
         /\ \A i \in 1..Len(received) : stream[i] = received[i]
<1> HIDE DEF WireByte
<1> QED
  BY DEF NetFits, stream

LEMMA DropConcat ==
  ASSUME NEW S, NEW s \in Seq(S), NEW t \in Seq(S), NEW k \in 1..Len(s)
  PROVE  SubSeq(s, k + 1, Len(s)) \o t = SubSeq(s \o t, k + 1, Len(s \o t))
<1> DEFINE u == SubSeq(s, k + 1, Len(s))
           c == s \o t
           d == SubSeq(c, k + 1, Len(c))
<1>1. u \in Seq(S) /\ Len(u) = Len(s) - k /\ \A i \in 1..Len(u) : u[i] = s[k + i]
  OBVIOUS
<1>2. /\ c \in Seq(S) /\ Len(c) = Len(s) + Len(t)
      /\ \A i \in 1..Len(s) + Len(t) : c[i] = IF i <= Len(s) THEN s[i] ELSE t[i - Len(s)]
  BY ConcatProperties
<1> HIDE DEF c
<1>3. d \in Seq(S) /\ Len(d) = Len(c) - k /\ \A i \in 1..Len(d) : d[i] = c[k + i]
  BY <1>2
<1> HIDE DEF u, d
<1>4. /\ u \o t \in Seq(S) /\ Len(u \o t) = Len(u) + Len(t)
      /\ \A i \in 1..Len(u) + Len(t) : (u \o t)[i] = IF i <= Len(u) THEN u[i] ELSE t[i - Len(u)]
  BY <1>1, ConcatProperties
<1>5. Len(s) \in Nat /\ Len(t) \in Nat
  OBVIOUS
<1>6. Len(u \o t) = Len(d)
  BY <1>1, <1>2, <1>3, <1>4, <1>5
<1>7. ASSUME NEW i \in 1..Len(d) PROVE (u \o t)[i] = d[i]
  <2>1. /\ k + i \in 1..Len(s) + Len(t) /\ (i <= Len(u) <=> k + i <= Len(s))
        /\ i - Len(u) = k + i - Len(s) /\ i \in 1..Len(u) + Len(t)
    BY <1>1, <1>2, <1>3, <1>5
  <2>2. CASE i <= Len(u)
    <3>1. i \in 1..Len(u)
      BY <1>1, <1>5, <2>2
    <3> QED
      BY <1>1, <1>2, <1>3, <1>4, <2>1, <2>2, <3>1
  <2>3. CASE ~(i <= Len(u))
    BY <1>2, <1>3, <1>4, <2>1, <2>3
  <2> QED
    BY <2>2, <2>3
<1> QED
  BY <1>3, <1>4, <1>6, <1>7, SeqEqual DEF u, d, c

LEMMA StreamRecv ==
  ASSUME NetFits, NEW k \in Nat \ {0}, Recv(k)
  PROVE  /\ k \in 1..Len(stream) /\ stream' = SubSeq(stream, k + 1, Len(stream))
         /\ rest' = stream[k].rest
<1> HIDE DEF WireByte
<1>1. k \in 1..Len(received) /\ received \in Seq(WireByte) /\ wire \in Seq(WireByte)
  BY DEF Recv, NetFits
<1>2. stream' = SubSeq(received, k + 1, Len(received)) \o wire
  BY DEF Recv, stream
<1>3. stream' = SubSeq(stream, k + 1, Len(stream))
  BY <1>1, <1>2, DropConcat DEF stream
<1> QED
  BY <1>1, <1>3, StreamIs DEF Recv

LEMMA StreamArrive ==
  ASSUME NetFits, Arrive
  PROVE  stream' = stream
<1> HIDE DEF WireByte
<1>1. received \in Seq(WireByte) /\ wire \in Seq(WireByte) /\ wire # << >>
  BY DEF Arrive, NetFits
<1>2. Append(received, Head(wire)) \o Tail(wire) = received \o wire
  BY <1>1
<1> QED
  BY <1>2 DEF Arrive, stream

LEMMA StreamSend ==
  ASSUME NetFits, NEW n \in Lengths, Send(n)
  PROVE  stream' = stream \o Bytes(n)
<1> HIDE DEF WireByte
<1>1. received \in Seq(WireByte) /\ wire \in Seq(WireByte) /\ Bytes(n) \in Seq(WireByte)
  BY BytesIs DEF NetFits
<1>2. received \o (wire \o Bytes(n)) = (received \o wire) \o Bytes(n)
  BY <1>1
<1> QED
  BY <1>2 DEF Send, stream

-----------------------------------------------------------------------------
(* The reader stays in step *)

\* How far the reader is in a packet
Stands == IF pc = "length" THEN \E n \in Lengths : DigitsOf(n) ELSE rest = rem_len - got
InOrder == link = "open" /\ ~cut /\ pc # "closed"

LEMMA AlignedIs ==
  Aligned <=> (pc # "length" => digits = 0) /\ (InOrder => Framed(stream, rest) /\ Stands)
  BY DEF Aligned, Stands, InOrder

LEMMA AlignedInit == Init => Aligned
<1> SUFFICES ASSUME Init PROVE Framed(stream, rest) /\ digits = 0 /\ rest = rem_len - got
  BY DEF Init, Aligned
<1>1. stream = << >> /\ rest = 0 /\ digits = 0 /\ rem_len - got = 0
  BY DEF Init, stream
<1>2. Framed(<< >>, 0)
  BY DEF Framed, After
<1> QED
  BY <1>1, <1>2

\* The reader has not moved, and the stream has only grown.
LEMMA SendKeepsStep ==
  ASSUME NetFits, PacketFits, Aligned, NEW n \in Lengths, Send(n)
  PROVE  Aligned'
<1> HIDE DEF WireByte
<1>1. /\ stream \in Seq(WireByte) /\ Bytes(n) \in Seq(WireByte) /\ stream' = stream \o Bytes(n)
      /\ rest \in Nat
  BY StreamIs, StreamSend, BytesIs DEF NetFits
<1>2. UNCHANGED <<pc, link, rest, cut, digits, multiplier, rem_len, got>>
  BY DEF Send, packet, history
<1>3. SUFFICES ASSUME InOrder PROVE Framed(stream', rest) /\ Stands'
  BY <1>2 DEF AlignedIs, Aligned, Stands, InOrder
<1>4. Framed(stream, rest) /\ Stands
  BY <1>3, AlignedIs
<1>5. Framed(stream', rest)
  BY <1>1, <1>4, FramedAppend
<1>6. CASE pc = "length"
  <2>1. PICK m \in Lengths : DigitsOf(m)
    BY <1>4, <1>6 DEF Stands
  <2>2. rest <= Len(stream) /\ Len(stream) \in Nat
    BY <1>1, <1>4, FramedHere
  <2>3. ASSUME NEW i \in digits + 1..Size(m) PROVE stream'[i - digits].values = {Digits(m)[i]}
    <3>1. i - digits \in 1..Len(stream)
      <4>1. m \in Nat /\ Size(m) \in Nat /\ digits \in Nat
        BY LengthIs, SizeIs DEF PacketFits, MaxDigits
      <4>2. rest = Size(m) - digits + m
        BY <2>1 DEF DigitsOf
      <4> QED
        BY <1>1, <2>2, <4>1, <4>2
    <3>2. stream'[i - digits] = stream[i - digits]
      BY <1>1, <3>1, ConcatProperties
    <3> QED
      BY <2>1, <3>2 DEF DigitsOf
  <2>4. DigitsOf(m)'
    BY <1>2, <2>1, <2>3 DEF DigitsOf
  <2> QED
    BY <1>2, <1>5, <1>6, <2>4 DEF Stands
<1> QED
  BY <1>2, <1>4, <1>5, <1>6 DEF Stands

LEMMA QuietKeepsStep ==
  ASSUME NetFits, PacketFits, Aligned,
         Arrive \/ PeerCloses \/ PeerResets \/ Tick \/ Yield \/ StartHeader \/ TestGoesOn \/ TestEnds
           \/ Reconnect \/ Spin \/ HeaderEnds \/ LengthEnds \/ BodyEnds \/ UNCHANGED vars
  PROVE  Aligned'
<1>1. CASE UNCHANGED <<stream, pc, link, rest, cut, packet>>
  BY <1>1 DEF Aligned, DigitsOf, packet
<1>2. CASE Arrive
  BY <1>1, <1>2, StreamArrive DEF Arrive, history
<1>3. CASE PeerCloses \/ PeerResets
  BY <1>3 DEF PeerCloses, PeerResets, Aligned, packet
<1>4. CASE Tick \/ Spin \/ UNCHANGED vars
  BY <1>1, <1>4 DEF Tick, Spin, vars, net, history, stream
<1>5. CASE Yield \/ StartHeader \/ TestGoesOn \/ TestEnds
  <2>1. /\ pc \notin {"length", "closed"} /\ pc' \notin {"length", "closed"}
        /\ UNCHANGED <<stream, link, rest, cut, packet>>
    BY <1>5 DEF Yield, StartHeader, StartRead, TestGoesOn, TestEnds, net, history, stream
  <2> QED
    BY <2>1 DEF Aligned, packet
<1>6. CASE Reconnect
  <2>1. /\ pc = "closed" /\ pc' = "yield" /\ stream' = << >> /\ rest' = 0
        /\ UNCHANGED packet
    BY <1>6 DEF Reconnect, stream
  <2>2. Framed(<< >>, 0)
    BY DEF Framed, After
  <2>3. digits = 0 /\ rem_len = 0 /\ got = 0
    BY <2>1 DEF Aligned, PacketFits, BetweenPackets
  <2> QED
    BY <2>1, <2>2, <2>3 DEF Aligned, packet
<1>7. CASE HeaderEnds \/ LengthEnds \/ BodyEnds
  <2>1. link # "open" /\ link' = link /\ digits' = 0
    BY <1>7 DEF HeaderEnds, LengthEnds, BodyEnds, AtEnd, LengthRead, Return, Close, NoPacket, net
  <2> QED
    BY <2>1 DEF Aligned
<1> QED
  BY <1>2, <1>3, <1>4, <1>5, <1>6, <1>7

\* The first byte of a packet
LEMMA HeaderKeepsStep ==
  ASSUME NetFits, PacketFits, Aligned, Header
  PROVE  Aligned'
<1> HIDE DEF WireByte
<1>1. /\ pc = "header" /\ pc' = "length" /\ Recv(1)
      /\ UNCHANGED <<link, cut, digits, multiplier, rem_len, got>>
  BY DEF Header, StartRead, Recv
<1>2. digits = 0 /\ rem_len = 0 /\ got = 0
  BY <1>1 DEF Aligned, PacketFits, BetweenPackets
<1>3. multiplier = 1
  BY <1>2, PlaceIs DEF PacketFits
<1>4. SUFFICES ASSUME link = "open", ~cut
               PROVE  Framed(stream', rest') /\ \E n \in Lengths : DigitsOf(n)'
  BY <1>1 DEF Aligned
<1>5. Framed(stream, rest) /\ rest = 0
  BY <1>1, <1>2, <1>4 DEF Aligned
<1>6. /\ stream \in Seq(WireByte) /\ 1 \in 1..Len(stream)
      /\ stream' = SubSeq(stream, 2, Len(stream)) /\ rest' = stream[1].rest
  BY <1>1, StreamIs, StreamRecv
<1>7. Framed(stream', rest')
  BY <1>5, <1>6, FramedTail
<1>8. PICK n \in Lengths : Starts(stream, 0, n)
  BY <1>5, <1>6 DEF Framed, After
<1>9. /\ n \in Nat /\ Size(n) \in 1..MaxDigits /\ Len(Bytes(n)) = 1 + Size(n) + n
      /\ Len(Bytes(n)) <= Len(stream)
      /\ \A i \in 1..Len(Bytes(n)) : stream[i] = Bytes(n)[i]
  BY <1>6, <1>8, PacketIs DEF Starts
<1>10. rest' = Size(n) - digits' + n
  BY <1>1, <1>2, <1>6, <1>9, PacketIs DEF MaxDigits
<1>11. ASSUME NEW i \in digits' + 1..Size(n) PROVE stream'[i - digits'].values = {Digits(n)[i]}
  <2>1. i \in 1..Size(n) /\ i - digits' = i /\ i + 1 \in 1..Len(Bytes(n))
    BY <1>1, <1>2, <1>9 DEF MaxDigits
  <2>2. stream'[i] = stream[i + 1]
    BY <1>6, <1>9, <2>1
  <2> QED
    BY <1>9, <2>1, <2>2, PacketIs
<1>12. rem_len' = n % multiplier' /\ digits' < Size(n)
  BY <1>1, <1>2, <1>3, <1>9 DEF MaxDigits
<1> QED
  BY <1>7, <1>10, <1>11, <1>12 DEF DigitsOf

\* After the length, what is to be read is the length.
LEMMA LengthReadIs ==
  ASSUME NEW n \in Int, got = 0, LengthRead(n)
  PROVE  /\ pc' \in {"closed", "test", "body"} /\ digits' = 0
         /\ pc' # "closed" => rem_len' - got' = n
<1>1. CASE Close
  BY <1>1 DEF Close, NoPacket
<1>2. CASE n = 0 /\ Return
  BY <1>2 DEF Return, NoPacket
<1>3. CASE StartRead("body") /\ rem_len' = n /\ digits' = 0 /\ got' = got
  BY <1>3 DEF StartRead
<1> QED
  BY <1>1, <1>2, <1>3 DEF LengthRead

\* A byte of the remaining length
LEMMA LengthKeepsStep ==
  ASSUME NetFits, PacketFits, Aligned, NEW v \in Byte, Length(v)
  PROVE  Aligned'
<1> HIDE DEF WireByte
<1>1. pc = "length" /\ Recv(1) /\ v \in received[1].values /\ cut' = cut /\ link' = link
  BY DEF Length, Recv
<1> DEFINE m == rem_len + (v % Radix) * multiplier
<1>2. \/ /\ More(v) /\ rem_len' = m /\ digits' = digits + 1 /\ multiplier' = multiplier * Radix
         /\ pc' = "length" /\ UNCHANGED got
      \/ ~More(v) /\ LengthRead(m)
  BY <1>1 DEF Length
<1>3. LengthRead(m) => /\ pc' \in {"closed", "test", "body"} /\ digits' = 0
                       /\ pc' # "closed" => rem_len' - got' = m
  <2>1. got = 0
    BY <1>1 DEF PacketFits, BetweenPackets
  <2>2. m \in Int
    BY PlaceIs, ReaderAssumption DEF PacketFits, Byte, MaxDigits
  <2> HIDE DEF m
  <2> QED
    BY <2>1, <2>2, LengthReadIs
<1> HIDE DEF m
<1>4. ASSUME ~InOrder PROVE Aligned'
  BY <1>1, <1>2, <1>3, <1>4 DEF Aligned, InOrder
<1>5. SUFFICES ASSUME InOrder PROVE Aligned'
  BY <1>4
<1>6. Framed(stream, rest)
  BY <1>5 DEF Aligned, InOrder
<1>7. PICK n \in Lengths : DigitsOf(n)
  BY <1>1, <1>5 DEF Aligned, InOrder
<1>8. /\ stream \in Seq(WireByte) /\ 1 \in 1..Len(stream)
      /\ stream' = SubSeq(stream, 2, Len(stream)) /\ rest' = stream[1].rest
      /\ stream[1] = received[1]
  BY <1>1, StreamIs, StreamRecv DEF Recv, NetFits
<1>9. Framed(stream', rest')
  BY <1>6, <1>8, FramedTail DEF NetFits
<1> DEFINE d == digits + 1
<1>10. n \in Nat /\ Size(n) \in 1..MaxDigits /\ digits \in 0..MaxDigits - 1 /\ d \in 1..Size(n)
  BY <1>7, PacketIs DEF DigitsOf, PacketFits, MaxDigits
<1>11. v = Digits(n)[d]
  <2>1. stream[1].values = {Digits(n)[d]}
    BY <1>7, <1>10 DEF DigitsOf, MaxDigits
  <2> QED
    BY <1>1, <1>8, <2>1
<1>12. m = n % (Place[d] * Radix) /\ (d = Size(n) => m = n)
  BY <1>7, <1>10, <1>11, DigitRead DEF DigitsOf, PacketFits, m
<1>13. More(v) <=> d < Size(n)
  BY <1>10, <1>11, DigitSays DEF More, MaxDigits
<1>14. rest' = Size(n) - d + n
  <2>1. rest = Size(n) - digits + n /\ rest \in Nat \ {0}
    BY <1>7, <1>10 DEF DigitsOf, MaxDigits
  <2>2. stream[1].rest = rest - 1
    <3>1. 1 \in 1..rest
      BY <2>1
    <3> QED
      BY <1>6, <1>8, <3>1, FramedHere DEF NetFits
  <2> QED
    BY <1>8, <1>10, <2>1, <2>2 DEF MaxDigits
<1>15. CASE d < Size(n)
  <2>1. /\ rem_len' = m /\ digits' = d /\ multiplier' = multiplier * Radix /\ pc' = "length"
    BY <1>2, <1>13, <1>15
  <2>2. rem_len' = n % multiplier'
    BY <1>12, <2>1 DEF PacketFits
  <2>3. ASSUME NEW i \in d + 1..Size(n) PROVE stream'[i - d].values = {Digits(n)[i]}
    <3>1. i \in digits + 1..Size(n) /\ i - digits = i - d + 1 /\ i - d \in 1..rest - 1
      BY <1>7, <1>10 DEF DigitsOf, MaxDigits
    <3>2. rest <= Len(stream)
      BY <1>6, <1>8, FramedHere DEF NetFits
    <3>3. stream'[i - d] = stream[i - digits]
      BY <1>8, <3>1, <3>2 DEF NetFits
    <3> QED
      BY <1>7, <3>1, <3>3 DEF DigitsOf
  <2>4. DigitsOf(n)'
    BY <1>14, <1>15, <2>1, <2>2, <2>3 DEF DigitsOf
  <2> QED
    BY <1>9, <2>1, <2>4 DEF Aligned
<1>16. CASE d = Size(n)
  <2>1. LengthRead(m) /\ m = n /\ rest' = n
    BY <1>2, <1>10, <1>12, <1>13, <1>14, <1>16 DEF MaxDigits
  <2>2. pc' # "length" /\ digits' = 0 /\ (pc' # "closed" => rest' = rem_len' - got')
    BY <1>3, <2>1
  <2> QED
    BY <1>9, <2>2 DEF Aligned
<1> QED
  BY <1>10, <1>15, <1>16 DEF MaxDigits

\* Bytes of a body
LEMMA BodyKeepsStep ==
  ASSUME NetFits, PacketFits, Aligned, NEW k \in 1..readbuf_size, Body(k)
  PROVE  Aligned'
<1> HIDE DEF WireByte
<1>1. pc = "body" /\ k <= rem_len - got /\ Recv(k) /\ link' = link
  BY DEF Body, Recv
<1>2. digits = 0 /\ rem_len \in Nat /\ got \in Nat
  BY <1>1 DEF Aligned, PacketFits
<1>3. k \in Nat \ {0}
  BY ReaderAssumption
<1>4. \/ got + k = rem_len /\ Return /\ UNCHANGED cut
      \/ Return /\ cut'
      \/ got' = got + k /\ UNCHANGED <<pc, digits, rem_len, cut>>
  BY DEF Body
<1>5. digits' = 0 /\ pc' \in {"test", "body"}
  BY <1>1, <1>2, <1>4 DEF Return, NoPacket
<1>6. SUFFICES ASSUME InOrder, ~cut' PROVE Framed(stream', rest') /\ rest' = rem_len' - got'
  BY <1>1, <1>4, <1>5 DEF Aligned, InOrder
<1>7. Framed(stream, rest) /\ rest = rem_len - got
  BY <1>1, <1>6 DEF Aligned, InOrder
<1>8. /\ stream \in Seq(WireByte) /\ k \in 1..Len(stream)
      /\ stream' = SubSeq(stream, k + 1, Len(stream)) /\ rest' = stream[k].rest
  BY <1>1, <1>3, StreamIs, StreamRecv
<1>9. Framed(stream', rest')
  BY <1>7, <1>8, FramedTail DEF NetFits
<1>10. rest' = rest - k
  <2>1. k \in 1..rest
    BY <1>1, <1>2, <1>3, <1>7
  <2> QED
    BY <1>7, <1>8, <2>1, FramedHere DEF NetFits
<1>11. rem_len' - got' = rem_len - got - k
  BY <1>2, <1>3, <1>4, <1>6 DEF Return, NoPacket
<1> QED
  BY <1>2, <1>7, <1>9, <1>10, <1>11

LEMMA AlignedStep == IInv /\ Aligned /\ [Next]_vars => Aligned'
<1> SUFFICES ASSUME IInv, Aligned, [Next]_vars PROVE Aligned'
  OBVIOUS
<1>1. NetFits /\ PacketFits
  BY Parts
<1> QED
  BY <1>1, SendKeepsStep, QuietKeepsStep, HeaderKeepsStep, LengthKeepsStep, BodyKeepsStep
  DEF Next, Reader, Environment

\* The reader begins every packet at its first byte, for all lengths that MQTT can encode, every
\* buffer, and however the stream is cut into pieces, while the connection is open and no body
\* was given up.
THEOREM ReaderInStep == Spec => []InStep
<1>1. IInv /\ Aligned => InStep
  BY DEF IInv, BetweenPackets, Aligned, InStep, TypeOK
<1> QED
  BY <1>1, AlignedInit, AlignedStep, Invariance, PTL DEF Spec
====
