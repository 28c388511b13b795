----------------------------- MODULE PacketReader -----------------------------
(***************************************************************************)
(* How the MQTT client reads packets from a stream of bytes that arrives   *)
(* in pieces: readPacket() and decodePacket() of MQTTClient.c over         *)
(* FreeRTOS_read(), in the loop of MQTTYield().  recv() waits for the      *)
(* first byte as long as it takes; a timer is looked at only after it, and *)
(* decides whether FreeRTOS_read() calls recv() for the rest.              *)
(*                                                                         *)
(* Of a byte only what it can be for the reader is kept: a byte of a       *)
(* remaining length is a digit, any other may be anything once the reader  *)
(* takes it for one.  What cycle() does with a packet is MqttSession's.    *)
(***************************************************************************)
EXTENDS TickTimer, Sequences, FiniteSets

CONSTANTS
  Radix,         \* of the remaining length: 128
  Lengths,       \* of the packets a broker sends, without header and length
  readbuf_size,
  YieldTicks,    \* the time of MQTTYield, 10 ms
  MaxBytes,      \* under way and not yet read
  MaxAge         \* ticks for which one MQTTYield is followed

ASSUME ReaderAssumption ==
  /\ Radix \in Nat \ {0, 1} /\ Lengths \subseteq 0..Radix * Radix * Radix * Radix - 1
  /\ readbuf_size \in Nat /\ YieldTicks \in 1..TICKS - 2
  /\ MaxBytes \in Nat /\ MaxAge \in 0..TICKS

VARIABLES
  clock,
  timer,      \* of MQTTYield
  link,       \* "open", "fin", "reset"
  wire,       \* bytes under way
  received,   \* bytes in the socket
  pc,         \* "yield", "start", "header", "length", "body", "test", "closed"
  read_timer, \* of FreeRTOS_read
  timeout,    \* of decodePacket, in ticks
  digits,     \* of the remaining length read so far, and the multiplier of the next one
  multiplier,
  rem_len,
  got,        \* bytes of the body read so far
  age,        \* ticks since MQTTYield armed its timer
  rest,       \* bytes of the broker's packet after the one read last
  cut,        \* a body was given up in the middle
  ticked      \* a tick has passed since the body was begun

net == <<link, wire, received>>
packet == <<timeout, digits, multiplier, rem_len, got>>
history == <<age, rest, cut, ticked>>
vars == <<clock, timer, net, pc, read_timer, packet, history>>

Byte == 0..2 * Radix - 1
NoTimer == Countdown(0, ClockAt(0))

-----------------------------------------------------------------------------
(* What a broker sends *)

MaxDigits == 4

Place == <<1, Radix, Radix * Radix, Radix * Radix * Radix>>

\* MQTTPacket_encode: the digits, the least first; all but the last are marked.
Size(n) == 1 + Cardinality({i \in 2..MaxDigits : n >= Place[i]})
Digits(n) ==
  [i \in 1..Size(n) |-> ((n \div Place[i]) % Radix) + (IF i < Size(n) THEN Radix ELSE 0)]

\* The bytes of a packet, each with the number of those that follow it
Bytes(n) ==
  LET total == 1 + Size(n) + n
  IN [i \in 1..total |->
       [values |-> IF i \in 2..Size(n) + 1 THEN {Digits(n)[i - 1]} ELSE Byte, rest |-> total - i]]

Init ==
  /\ clock \in Clock /\ timer = NoTimer /\ read_timer = NoTimer
  /\ link = "open" /\ wire = <<>> /\ received = <<>> /\ pc = "yield"
  /\ timeout = 0 /\ digits = 0 /\ multiplier = 1 /\ rem_len = 0 /\ got = 0
  /\ age = 0 /\ rest = 0 /\ cut = FALSE /\ ticked = FALSE

-----------------------------------------------------------------------------
(* The environment *)

Send(n) ==
  /\ link = "open" /\ Len(wire) + Len(received) + Len(Bytes(n)) <= MaxBytes
  /\ wire' = wire \o Bytes(n)
  /\ UNCHANGED <<clock, timer, link, received, pc, read_timer, packet, history>>

Arrive ==
  /\ wire # <<>> /\ wire' = Tail(wire) /\ received' = Append(received, Head(wire))
  /\ UNCHANGED <<clock, timer, link, pc, read_timer, packet, history>>

PeerCloses ==
  /\ link = "open" /\ link' = "fin"
  /\ UNCHANGED <<clock, timer, wire, received, pc, read_timer, packet, history>>

PeerResets ==
  /\ link # "reset" /\ pc # "closed" /\ link' = "reset" /\ wire' = <<>> /\ received' = <<>>
  /\ UNCHANGED <<clock, timer, pc, read_timer, packet, history>>

\* xTickCount; MQTTYield is followed for one wrap at most, of 99 days.
Tick ==
  /\ age < MaxAge /\ clock' = NextTick(clock)
  /\ age' = IF pc \in {"yield", "closed"} THEN 0 ELSE age + 1
  /\ ticked' = (pc = "body")
  /\ UNCHANGED <<timer, net, pc, read_timer, packet, rest, cut>>

-----------------------------------------------------------------------------
(* MQTTYield *)

Yield ==
  /\ pc = "yield" /\ pc' = "start" /\ timer' = Countdown(YieldTicks, clock)
  /\ UNCHANGED <<clock, net, read_timer, packet, history>>

\* Every read of a packet starts with what TimerLeftMS() says is left.
StartRead(s) ==
  /\ pc' = s /\ timer' = Checked(timer, clock)
  /\ read_timer' = Countdown(Left(timer, clock), clock)

StartHeader ==
  /\ pc = "start" /\ StartRead("header") /\ UNCHANGED <<clock, net, packet, history>>

NoPacket ==
  /\ timeout' = 0 /\ digits' = 0 /\ multiplier' = 1 /\ rem_len' = 0 /\ got' = 0
  /\ read_timer' = NoTimer

\* The packet is handed to cycle(), or 0, which cycle() takes for a timeout.
Return == pc' = "test" /\ NoPacket /\ UNCHANGED <<timer, age>>

TestGoesOn ==
  /\ pc = "test" /\ ~Expired(timer, clock) /\ pc' = "start" /\ timer' = Checked(timer, clock)
  /\ UNCHANGED <<clock, net, read_timer, packet, history>>

TestEnds ==
  /\ pc = "test" /\ Expired(timer, clock) /\ pc' = "yield" /\ timer' = NoTimer /\ age' = 0
  /\ UNCHANGED <<clock, net, read_timer, packet, rest, cut, ticked>>

\* The session fails, the receive task closes the connection and opens another one.
Close == pc' = "closed" /\ NoPacket /\ timer' = NoTimer /\ age' = 0

Reconnect ==
  /\ pc = "closed" /\ pc' = "yield"
  /\ link' = "open" /\ wire' = <<>> /\ received' = <<>> /\ rest' = 0 /\ cut' = FALSE
  /\ UNCHANGED <<clock, timer, read_timer, packet, age, ticked>>

-----------------------------------------------------------------------------
(* recv *)

Recv(k) ==
  /\ k <= Len(received) /\ received' = SubSeq(received, k + 1, Len(received))
  /\ rest' = received[k].rest
  /\ UNCHANGED <<link, wire>>

\* After FIN recv() returns 0, over and over until the timer has run out; after RST an error.
AtEnd == received = <<>> /\ wire = <<>> /\ link # "open"
AtEof == link = "fin" /\ Expired(read_timer, clock)

Spin ==
  /\ AtEnd /\ link = "fin" /\ pc \in {"header", "length", "body"}
  /\ ~Expired(read_timer, clock) /\ read_timer' = Checked(read_timer, clock)
  /\ UNCHANGED <<clock, timer, net, pc, packet, history>>

-----------------------------------------------------------------------------
(* readPacket *)

Header ==
  /\ pc = "header" /\ Recv(1) /\ StartRead("length") /\ timeout' = Left(timer, clock)
  /\ UNCHANGED <<clock, digits, multiplier, rem_len, got, age, cut, ticked>>

HeaderEnds ==
  /\ pc = "header" /\ AtEnd
  /\ \/ AtEof /\ Return
     \/ link = "reset" /\ Close
  /\ UNCHANGED <<clock, net, rest, cut, ticked>>

\* mutated form: the byte of the header is not counted.
OverflowsOneMore(n) == n > readbuf_size - Size(n)

Overflows(n) == n > readbuf_size - (1 + Size(n))

\* mutated form: the overflow is returned as 0.
OverflowReturns(n) ==
  \/ (n = 0 \/ Overflows(n)) /\ Return
  \/ /\ n > 0 /\ ~Overflows(n) /\ StartRead("body")
     /\ rem_len' = n /\ timeout' = 0 /\ digits' = 0 /\ multiplier' = 1 /\ UNCHANGED <<got, age>>

\* What follows the remaining length: a packet without a body is complete.
LengthRead(n) ==
  \/ Overflows(n) /\ Close
  \/ n = 0 /\ Return
  \/ /\ n > 0 /\ ~Overflows(n) /\ StartRead("body")
     /\ rem_len' = n /\ timeout' = 0 /\ digits' = 0 /\ multiplier' = 1 /\ UNCHANGED <<got, age>>

\* decodePacket: after four digits it ends, without an error that anybody looks at.
More(v) == v >= Radix /\ digits + 1 < MaxDigits

Length(v) ==
  /\ pc = "length" /\ Recv(1) /\ v \in received[1].values
  /\ LET n == rem_len + (v % Radix) * multiplier
     IN \/ /\ More(v) /\ rem_len' = n /\ digits' = digits + 1 /\ multiplier' = multiplier * Radix
           /\ read_timer' = Countdown(timeout, clock)
           /\ UNCHANGED <<timer, pc, timeout, got, age>>
        \/ ~More(v) /\ LengthRead(n)
  /\ UNCHANGED <<clock, cut, ticked>>

\* An end in the middle of the length is not noticed: what was read of it counts.
LengthEnds ==
  /\ pc = "length" /\ AtEnd /\ (AtEof \/ link = "reset") /\ LengthRead(rem_len)
  /\ UNCHANGED <<clock, net, rest, cut, ticked>>

\* The rest comes with this recv(), or the time is over, or recv() is called again.
Body(k) ==
  /\ pc = "body" /\ k <= rem_len - got /\ Recv(k)
  /\ \/ got + k = rem_len /\ Return /\ UNCHANGED cut
     \/ got + k < rem_len /\ Expired(read_timer, clock) /\ Return /\ cut' = TRUE
     \/ /\ got + k < rem_len /\ ~Expired(read_timer, clock)
        /\ got' = got + k /\ read_timer' = Checked(read_timer, clock)
        /\ UNCHANGED <<timer, pc, timeout, digits, multiplier, rem_len, age, cut>>
  /\ ticked' = (ticked /\ pc' = "body") /\ UNCHANGED clock

BodyEnds ==
  /\ pc = "body" /\ AtEnd /\ (AtEof \/ link = "reset") /\ Return /\ cut' = TRUE
  /\ ticked' = FALSE /\ UNCHANGED <<clock, net, rest>>

-----------------------------------------------------------------------------

Reader ==
  \/ Yield \/ StartHeader \/ TestGoesOn \/ TestEnds \/ Reconnect \/ Spin
  \/ Header \/ HeaderEnds \/ LengthEnds \/ BodyEnds
  \/ \E v \in Byte : Length(v)
  \/ \E k \in 1..readbuf_size : Body(k)

Environment == (\E n \in Lengths : Send(n)) \/ Arrive \/ PeerCloses \/ PeerResets \/ Tick

Next == Reader \/ Environment

Spec == Init /\ [][Next]_vars

-----------------------------------------------------------------------------
(* Properties *)

WireByte == [values : SUBSET Byte, rest : Nat]

\* Whatever length is read, in step or not, the packet fits into readbuf with its header.
TypeOK ==
  /\ clock \in Clock /\ timer \in Timer /\ read_timer \in Timer /\ timeout \in 0..TICKS - 1
  /\ link \in {"open", "fin", "reset"} /\ wire \in Seq(WireByte) /\ received \in Seq(WireByte)
  /\ pc \in {"yield", "start", "header", "length", "body", "test", "closed"}
  /\ digits \in 0..MaxDigits - 1 /\ multiplier = Place[digits + 1]
  /\ rem_len \in Nat /\ (pc = "length" => rem_len < multiplier) /\ got \in 0..rem_len
  /\ pc = "body" => got < rem_len /\ 1 + Size(rem_len) + rem_len <= readbuf_size
  /\ age \in 0..MaxAge /\ rest \in Nat /\ cut \in BOOLEAN /\ ticked \in BOOLEAN

\* While the connection is open and no body was given up, every packet is read from its first
\* byte: no length, and no packet that is too long, leaves the reader in the middle of another.
InStep == pc = "start" /\ link = "open" /\ ~cut => rest = 0

\* A body is not given up before a tick has passed: however little was left of the time of
\* MQTTYield, and however long the reader has waited for the packet, the pieces that are there
\* are read.
CutTakesATick == [][cut' /\ ~cut => ticked \/ link # "open"]_vars

\* MQTTYield's timer has run out exactly when its time is over, though reading a packet asks
\* three times what is left of it, and the counter wraps.
TimerIsExact == pc \notin {"yield", "closed"} => (Expired(timer, clock) <=> age >= YieldTicks)

-----------------------------------------------------------------------------
(* The inductive invariant of PacketReader_proofs *)

\* d ticks, one turn of the counter at most, lead from c to e.
Leads(c, d, e) ==
  /\ d \in 0..TICKS
  /\ e = IF c.count + d < TICKS THEN [c EXCEPT !.count = @ + d]
         ELSE [count |-> c.count + d - TICKS, overflows |-> (c.overflows + 1) % OVERFLOWS]

\* What MQTTYield's timer has left at its last check and the ticks since make up for its age.
TimerFollowsAge ==
  IF pc \in {"yield", "closed"} THEN age = 0
  ELSE timer.wait \in 1..YieldTicks /\ Leads(timer.entered, age + timer.wait - YieldTicks, clock)

\* The timer of a body's read was armed in this tick, with some time, unless one has passed.
FreshReadTimer == pc = "body" /\ ~ticked => read_timer.entered = clock /\ read_timer.wait >= 1

\* Nothing of a packet is left when the next one is begun.
BetweenPackets == (pc # "body" => got = 0) /\ (pc \notin {"length", "body"} => rem_len = 0)

IInv == TypeOK /\ TimerFollowsAge /\ FreshReadTimer /\ BetweenPackets

-----------------------------------------------------------------------------
(* The invariant that InStep follows from *)

stream == received \o wire

\* What is left of a packet after j bytes of s, of r bytes before the first one
After(s, r, j) == IF j = 0 THEN r ELSE s[j].rest

Starts(s, j, n) ==
  j + Len(Bytes(n)) <= Len(s) /\ \A i \in 1..Len(Bytes(n)) : s[j + i] = Bytes(n)[i]

\* The rest of every packet follows, and then another one.
Framed(s, r) ==
  \A j \in 0..Len(s) :
    /\ j + After(s, r, j) <= Len(s)
    /\ \A i \in 1..After(s, r, j) : s[j + i].rest = After(s, r, j) - i
    /\ After(s, r, j) = 0 /\ j < Len(s) => \E n \in Lengths : Starts(s, j, n)

\* The digits read so far are those of a packet that was sent; the others follow.
DigitsOf(n) ==
  /\ digits < Size(n) /\ rem_len = n % multiplier /\ rest = Size(n) - digits + n
  /\ \A i \in digits + 1..Size(n) : stream[i - digits].values = {Digits(n)[i]}

\* The reader is as far in a packet as it takes itself to be.
Aligned ==
  /\ pc # "length" => digits = 0
  /\ link = "open" /\ ~cut /\ pc # "closed" =>
       /\ Framed(stream, rest)
       /\ IF pc = "length" THEN \E n \in Lengths : DigitsOf(n) ELSE rest = rem_len - got
=============================================================================
