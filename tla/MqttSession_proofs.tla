-------------------------- MODULE MqttSession_proofs --------------------------
(***************************************************************************)
(* Proofs about MqttSession, for every value of its constants: the type    *)
(* invariant, the ownership of a session by its connection, the bound on   *)
(* stale pings, the order of requests, and the refinement of               *)
(* GatewaySession.                                                         *)
(***************************************************************************)
EXTENDS MqttSession, SequenceTheorems, TLAPS

-----------------------------------------------------------------------------
(* The call stack *)

\* The innermost call of a well-typed stack is a call, and replacing or removing it, or
\* nesting another one, leaves a well-typed stack.
LEMMA TopType ==
  ASSUME calls \in Seq(Call), InCall
  PROVE  Len(calls) \in Nat \ {0} /\ Top \in Call
  BY EmptySeq, ElementOfSeq, SMT DEF InCall, Top

LEMMA SetTopType ==
  ASSUME calls \in Seq(Call), InCall, NEW f \in Call
  PROVE  /\ [calls EXCEPT ![Len(calls)] = f] \in Seq(Call)
         /\ Len([calls EXCEPT ![Len(calls)] = f]) = Len(calls)
         /\ \A i \in 1..Len(calls) :
              [calls EXCEPT ![Len(calls)] = f][i] = IF i = Len(calls) THEN f ELSE calls[i]
  <1>1. Len(calls) \in 1..Len(calls)
    BY TopType, SMT
  <1> QED
    BY <1>1, ExceptSeq

LEMMA PoppedType ==
  ASSUME calls \in Seq(Call), InCall
  PROVE  /\ Popped \in Seq(Call)
         /\ Len(Popped) = Len(calls) - 1
         /\ \A i \in 1..Len(Popped) : Popped[i] = calls[i]
  <1>1. Len(calls) \in Nat \ {0}
    BY TopType
  <1>2. \A i \in 1..(Len(calls) - 1) : calls[i] \in Call
    BY <1>1, ElementOfSeq, SMT
  <1> DEFINE n == Len(calls) - 1
  <1>3. /\ SubSeq(calls, 1, n) \in Seq(Call)
        /\ Len(SubSeq(calls, 1, n)) = IF 1 <= n THEN n - 1 + 1 ELSE 0
        /\ \A i \in 1..(n - 1 + 1) : SubSeq(calls, 1, n)[i] = calls[1 + i - 1]
    <2>1. 1 \in Int /\ n \in Int
      BY <1>1, SMT
    <2> HIDE DEF n
    <2> QED
      BY <1>2, <2>1, SubSeqProperties DEF n
  <1>4. n \in Nat /\ n - 1 + 1 = n /\ \A i \in 1..n : 1 + i - 1 = i
    BY <1>1, SMT
  <1>5. Len(SubSeq(calls, 1, n)) = n
    BY <1>3, <1>4, SMT
  <1> QED
    BY <1>3, <1>4, <1>5 DEF Popped

LEMMA NewCallType ==
  ASSUME NEW o \in Op, NEW q \in 0..2, NEW i \in PacketId
  PROVE  NewCall(o, q, i) \in Call
  BY SMT DEF NewCall, Call, Nothing

\* The call a callback makes: a publish that is at its send(), or waits for the mutex.
LEMMA NestedType ==
  ASSUME TypeOK, NEW q \in ReplyQos
  PROVE  /\ Nested(q) \in Call /\ Nested(q).op = "PUBLISH" /\ Nested(q).qos = q
         /\ Nested(q).at = IF MutexHeld THEN "lock" ELSE "send"
         /\ getNextPacketId \in 1..MaxPacketId
  <1>1. /\ q \in 0..2 /\ 0 \in PacketId /\ getNextPacketId \in PacketId
        /\ getNextPacketId \in 1..MaxPacketId
    BY QosAssumption, PacketIdAssumption, SMT DEF TypeOK, getNextPacketId, PacketId
  <1> DEFINE c == NewCall("PUBLISH", q, 0)
             d == NewCall("PUBLISH", q, IF q = 0 THEN 0 ELSE getNextPacketId)
  <1>2. c \in Call /\ d \in Call
    BY <1>1, NewCallType DEF Op
  <1>3. c.op = "PUBLISH" /\ c.qos = q /\ d.op = "PUBLISH" /\ d.qos = q /\ d.at = "send"
    BY DEF NewCall
  <1> HIDE DEF c, d
  <1>4. /\ [c EXCEPT !.at = "lock"] \in Call /\ [c EXCEPT !.at = "lock"].op = "PUBLISH"
        /\ [c EXCEPT !.at = "lock"].qos = q /\ [c EXCEPT !.at = "lock"].at = "lock"
    BY <1>2, <1>3 DEF Call
  <1> QED
    BY <1>1, <1>2, <1>3, <1>4 DEF Nested, c, d

\* A step that changes fields of the innermost call keeps the stack well-typed.
LEMMA UpdateType ==
  ASSUME calls \in Seq(Call), InCall,
         NEW s \in {"send", "cycle", "ack", "keepalive", "test"}, NEW l \in BOOLEAN,
         NEW g \in Packet \cup {Nothing, TimedOut}
  PROVE  /\ [Top EXCEPT !.at = s] \in Call
         /\ [Top EXCEPT !.got = g, !.at = s] \in Call
         /\ [Top EXCEPT !.got = g, !.at = s, !.late = l] \in Call
         /\ [Top EXCEPT !.at = s, !.late = l, !.got = g] \in Call
  <1> DEFINE t == Top
  <1>1. t \in Call
    BY TopType
  <1> HIDE DEF t
  <1>2. [t EXCEPT !.at = s] \in Call
    BY <1>1, Zenon DEF Call
  <1>3. [t EXCEPT !.got = g, !.at = s] \in Call
    BY <1>1, Zenon DEF Call
  <1>4. [t EXCEPT !.got = g, !.at = s, !.late = l] \in Call
    BY <1>1, Zenon DEF Call
  <1>5. [t EXCEPT !.at = s, !.late = l, !.got = g] \in Call
    BY <1>1, Zenon DEF Call
  <1> QED
    BY <1>2, <1>3, <1>4, <1>5 DEF t

LEMMA ConstantTypes ==
  /\ 0 \in PacketId /\ 1 \in PacketId
  /\ \A t \in PacketType, a \in {0, 1, 2, Refused, SubFail} : P(t, a) \in Packet
  /\ \A p \in Packet \cup {Nothing, TimedOut} : Ack(p) \in Packet
  /\ \A c \in Call : c.op # "YIELD" => Request(c) \in Packet
  BY PacketIdAssumption, SMT
     DEF PacketId, P, Packet, PacketType, Ack, Call, Op, Request, Nothing, TimedOut

-----------------------------------------------------------------------------
(* Type correctness *)

\* A packet taken from or put on a channel, and what is left of a channel.
LEMMA ChannelTypes ==
  ASSUME NEW c \in Seq(Packet)
  PROVE  /\ \A p \in Packet : Append(c, p) \in Seq(Packet)
         /\ c # <<>> => Head(c) \in Packet /\ Tail(c) \in Seq(Packet)
         /\ \A n \in 0..Len(c) : SubSeq(c, 1, n) \in Seq(Packet)
         /\ \A n \in 0..Len(c) : SubSeq(c, n + 1, Len(c)) \in Seq(Packet)
  <1>1. \A p \in Packet : Append(c, p) \in Seq(Packet)
    BY SMT
  <1>2. c # <<>> => Head(c) \in Packet /\ Tail(c) \in Seq(Packet)
    BY HeadTailProperties
  <1>3. Len(c) \in Nat /\ \A i \in 1..Len(c) : c[i] \in Packet
    BY LenProperties, ElementOfSeq
  <1>4. ASSUME NEW n \in 0..Len(c) PROVE SubSeq(c, 1, n) \in Seq(Packet)
    <2>1. 1 \in Int /\ n \in Int /\ \A i \in 1..n : c[i] \in Packet
      BY <1>3, SMT
    <2> QED
      BY <2>1, SubSeqProperties
  <1>5. ASSUME NEW n \in 0..Len(c) PROVE SubSeq(c, n + 1, Len(c)) \in Seq(Packet)
    <2>1. n + 1 \in Int /\ Len(c) \in Int /\ \A i \in (n + 1)..Len(c) : c[i] \in Packet
      BY <1>3, SMT
    <2> QED
      BY <2>1, SubSeqProperties
  <1> QED
    BY <1>1, <1>2, <1>4, <1>5

\* A well-typed write appends a packet, and a failed one changes nothing.
LEMMA WriteType ==
  ASSUME TypeOK, NEW p \in Packet, Write(p)
  PROVE  up' \in Seq(Packet) /\ connectSent' \in BOOLEAN /\ accepted' \in BOOLEAN /\ prelude' \in Nat
  BY ChannelTypes, SMT DEF TypeOK, Write

LEMMA FailsType ==
  ASSUME TypeOK, InCall, Fails
  PROVE  /\ calls' \in Seq(Call) /\ stage' \in Stage
         /\ isconnected' \in BOOLEAN /\ ping_outstanding' \in BOOLEAN /\ handler' \in BOOLEAN
  <1>1. Popped \in Seq(Call) /\ <<>> \in Seq(Call)
    BY PoppedType, EmptySeq DEF TypeOK
  <1>2. calls' \in Seq(Call) /\ stage' \in Stage
    BY <1>1 DEF Fails, TypeOK, Stage
  <1>3. isconnected' \in BOOLEAN /\ ping_outstanding' \in BOOLEAN /\ handler' \in BOOLEAN
    BY Zenon DEF Fails, TypeOK, MQTTCloseSession, client
  <1> QED
    BY <1>2, <1>3

LEMMA PublishedType ==
  ASSUME TypeOK, InCall, Published
  PROVE  calls' \in Seq(Call) /\ stage' \in Stage
  BY PoppedType DEF TypeOK, Published, Stage

LEMMA GotoType ==
  ASSUME TypeOK, InCall, NEW s \in {"send", "cycle", "ack", "keepalive", "test"}, Goto(s)
  PROVE  calls' \in Seq(Call)
  <1>1. FALSE \in BOOLEAN /\ Nothing \in Packet \cup {Nothing, TimedOut}
    OBVIOUS
  <1>2. [Top EXCEPT !.at = s] \in Call
    BY <1>1, UpdateType DEF TypeOK
  <1> QED
    BY <1>2, SetTopType DEF TypeOK, Goto, SetTop

LEMMA LoopType ==
  ASSUME TypeOK,
         Configure \/ NetworkConnect \/ MQTTClientInit \/ MQTTSubscribe \/ PublishOnline
           \/ MQTTYield \/ Disconnect
  PROVE  TypeOK'
  <1>1. /\ 0 \in PacketId /\ getNextPacketId \in PacketId /\ getNextPacketId \in 1..MaxPacketId
        /\ 1 \in 1..MaxPacketId
    BY PacketIdAssumption, SMT DEF TypeOK, getNextPacketId, PacketId
  <1>2. /\ <<NewCall("CONNECT", 0, 0)>> \in Seq(Call)
        /\ <<NewCall("SUBSCRIBE", 0, getNextPacketId)>> \in Seq(Call)
        /\ <<NewCall("PUBLISH", 0, 0)>> \in Seq(Call)
        /\ <<NewCall("YIELD", 0, 0)>> \in Seq(Call)
    <2>1. ASSUME NEW o \in Op, NEW i \in PacketId PROVE <<NewCall(o, 0, i)>> \in Seq(Call)
      <3>1. NewCall(o, 0, i) \in Call
        BY NewCallType, 0 \in 0..2, SMT
      <3> QED
        BY <3>1, SMT
    <2> QED
      BY <1>1, <2>1 DEF Op
  <1>3. <<>> \in Seq(Packet)
    BY EmptySeq
  <1> USE DEF TypeOK, Stage
  <1>4. CASE Configure
    BY <1>4 DEF Configure, client, pinger, history
  <1>5. CASE NetworkConnect
    BY <1>5, <1>3 DEF NetworkConnect, client, pinger
  <1>6. CASE MQTTClientInit
    BY <1>6, <1>1, <1>2 DEF MQTTClientInit, pinger, history
  <1>7. CASE MQTTSubscribe
    BY <1>7, <1>1, <1>2 DEF MQTTSubscribe, client, pinger, history
  <1>8. CASE PublishOnline
    BY <1>8, <1>2 DEF PublishOnline, client, pinger, history
  <1>9. CASE MQTTYield
    BY <1>9, <1>2 DEF MQTTYield, client, pinger, history
  <1>10. CASE Disconnect
    BY <1>10, <1>3 DEF Disconnect, client, pinger
  <1> QED
    BY <1>4, <1>5, <1>6, <1>7, <1>8, <1>9, <1>10

LEMMA LibraryType ==
  ASSUME TypeOK, LibraryStep
  PROVE  TypeOK'
  <1> USE DEF TypeOK
  <1>1. /\ "PINGREQ" \in PacketType /\ 0 \in {0, 1, 2, Refused, SubFail} /\ P("PINGREQ", 0) \in Packet
    BY ConstantTypes DEF PacketType
  <1>2. /\ \A t \in expired : t \in {"last_sent", "last_received"}
        /\ InCall => Top \in Call
    BY TopType
  <1>3. ASSUME InCall, down # <<>>
        PROVE  /\ Head(down) \in Packet /\ Tail(down) \in Seq(Packet)
               /\ After(Head(down)) \in Call
    <2>1. Head(down) \in Packet /\ Tail(down) \in Seq(Packet)
      BY <1>3, ChannelTypes
    <2>2. FALSE \in BOOLEAN /\ Head(down) \in Packet \cup {Nothing, TimedOut}
      BY <2>1
    <2>3. After(Head(down)) \in Call
      BY <1>3, <2>2, UpdateType DEF After
    <2> QED
      BY <2>1, <2>3
  <1>4. CASE SendRequest
    <2>1. InCall /\ Write(Request(Top)) /\ Sent
      BY <1>4 DEF SendRequest, At
    <2>2. Request(Top) \in Packet
      BY <1>2, <1>4, <2>1, ConstantTypes DEF SendRequest
    <2>3. calls' \in Seq(Call) /\ stage' \in Stage
      BY <1>4, <2>1, PublishedType, GotoType DEF SendRequest
    <2> QED
      BY <1>2, <1>4, <2>1, <2>2, <2>3, WriteType DEF SendRequest, Sent, client, pinger
  <1>5. CASE SendRequestFails
    BY <1>5, FailsType DEF SendRequestFails, At, WriteFails, pinger, history
  <1>6. CASE Receive
    <2>1. InCall /\ down # <<>>
      BY <1>6 DEF Receive, At
    <2>2. calls' \in Seq(Call) /\ down' \in Seq(Packet)
      BY <1>3, <1>6, <2>1, SetTopType DEF Receive, SetTop
    <2>3. isconnected' \in BOOLEAN /\ ping_outstanding' \in BOOLEAN /\ handler' \in BOOLEAN
      BY <1>6, Zenon DEF Receive, client, MQTTCloseSession
    <2> QED
      BY <1>2, <1>6, <2>2, <2>3 DEF Receive, pinger, history
  <1>7. CASE Reply
    <2>1. InCall /\ down # <<>>
      BY <1>7 DEF Reply, At
    <2>3. PICK q \in ReplyQos :
            /\ calls' = Append([calls EXCEPT ![Len(calls)] = After(Head(down))], Nested(q))
            /\ next_packetid' = IF q = 0 \/ MutexHeld THEN next_packetid ELSE getNextPacketId
      BY <1>7 DEF Reply
    <2>4. Nested(q) \in Call /\ getNextPacketId \in 1..MaxPacketId
      BY NestedType
    <2>5. [calls EXCEPT ![Len(calls)] = After(Head(down))] \in Seq(Call)
      BY <1>3, <2>1, SetTopType
    <2>6. calls' \in Seq(Call) /\ next_packetid' \in 1..MaxPacketId
      BY <2>3, <2>4, <2>5, SMT
    <2> QED
      BY <1>2, <1>3, <1>7, <2>1, <2>6 DEF Reply, client, pinger, history
  <1>8. CASE ReceiveEof
    <2>1. [Top EXCEPT !.got = TimedOut, !.at = "keepalive", !.late = TRUE] \in Call
      BY <1>8, UpdateType DEF ReceiveEof, At
    <2>2. calls' \in Seq(Call)
      BY <1>8, <2>1, SetTopType DEF ReceiveEof, At, SetTop
    <2> QED
      BY <1>8, <2>2 DEF ReceiveEof, client, pinger, history
  <1>9. CASE ReceiveFails
    BY <1>9, FailsType DEF ReceiveFails, At, pinger, history
  <1>10. CASE SendAck
    <2>1. /\ InCall /\ Write(Ack(Top.got)) /\ Sent /\ calls' \in Seq(Call)
      BY <1>10, GotoType DEF SendAck, At
    <2>2. Top.got \in Packet \cup {Nothing, TimedOut}
      BY <1>2, <2>1 DEF Call
    <2>3. Ack(Top.got) \in Packet
      BY <2>2, ConstantTypes
    <2> QED
      BY <1>2, <1>10, <2>1, <2>3, WriteType DEF SendAck, Sent, client, pinger
  <1>11. CASE SendAckFails
    <2>1. InCall /\ UNCHANGED <<up, history>>
      BY <1>11 DEF SendAckFails, At, WriteFails
    <2> QED
      BY <1>11, <2>1, FailsType DEF SendAckFails, pinger, history
  <1>12. CASE KeepaliveQuiet
    BY <1>12, GotoType DEF KeepaliveQuiet, At, client, pinger, history
  <1>13. CASE KeepalivePing
    <2>1. calls' \in Seq(Call)
      BY <1>13, GotoType DEF KeepalivePing, At
    <2> QED
      BY <1>1, <1>2, <1>13, <2>1, WriteType DEF KeepalivePing, Sent, pinger
  <1>14. CASE KeepaliveFails
    <2>1. InCall /\ UNCHANGED <<up, history>>
      BY <1>14 DEF KeepaliveFails, At, WriteFails
    <2> QED
      BY <1>14, <2>1, FailsType DEF KeepaliveFails, pinger, history
  <1>15. CASE ConnackAccepted
    BY <1>15, EmptySeq DEF ConnackAccepted, pinger, Stage
  <1>16. CASE Suback
    BY <1>16, EmptySeq DEF Suback, pinger, history, Stage
  <1>17. CASE PublishAcked
    BY <1>17, PublishedType DEF PublishAcked, At, client, pinger, history
  <1>18. CASE GiveUp
    BY <1>18, FailsType DEF GiveUp, At, pinger, history
  <1>19. CASE NextCycle
    <2>1. [Top EXCEPT !.at = "cycle", !.late = FALSE, !.got = Nothing] \in Call
      BY <1>19, UpdateType DEF NextCycle, At
    <2>2. calls' \in Seq(Call)
      BY <1>19, <2>1, SetTopType DEF NextCycle, At, SetTop
    <2> QED
      BY <1>19, <2>2 DEF NextCycle, client, pinger, history
  <1> QED
    BY <1>4, <1>5, <1>6, <1>7, <1>8, <1>9, <1>10, <1>11, <1>12, <1>13, <1>14, <1>15, <1>16,
       <1>17, <1>18, <1>19 DEF LibraryStep

LEMMA PingAndClockType ==
  ASSUME TypeOK, PingTask \/ Clock
  PROVE  TypeOK'
  <1> USE DEF TypeOK
  <1>1. P("PINGREQ", 0) \in Packet
    BY ConstantTypes DEF PacketType
  <1>2. CASE PingCheck
    BY <1>2 DEF PingCheck, client, history
  <1>3. CASE PingWrite
    <2>1. up' \in Seq(Packet) /\ connectSent' \in BOOLEAN /\ accepted' \in BOOLEAN /\ prelude' \in Nat
      BY <1>1, <1>3, WriteType DEF PingWrite, WriteFails, history
    <2> QED
      BY <1>3, <2>1 DEF PingWrite, client
  <1>4. CASE CallTimeout
    <2>1. PICK i \in DOMAIN calls : calls' = [calls EXCEPT ![i].late = TRUE]
      BY <1>4 DEF CallTimeout
    <2>2. i \in 1..Len(calls) /\ calls[i] \in Call
      BY LenProperties, ElementOfSeq
    <2>3. [calls[i] EXCEPT !.late = TRUE] \in Call
      BY <2>2, Zenon DEF Call
    <2>4. [calls EXCEPT ![i] = [calls[i] EXCEPT !.late = TRUE]] \in Seq(Call)
      BY <2>2, <2>3, ExceptSeq
    <2>5. calls' \in Seq(Call)
      BY <2>1, <2>4, Zenon
    <2> QED
      BY <1>4, <2>5 DEF CallTimeout, client, pinger, history
  <1>5. CASE KeepaliveTimeout
    BY <1>5 DEF KeepaliveTimeout, client, pinger, history
  <1>6. CASE PingTimeout
    BY <1>6 DEF PingTimeout, client, history
  <1> QED
    BY <1>2, <1>3, <1>4, <1>5, <1>6 DEF PingTask, Clock

LEMMA OutsideType ==
  ASSUME TypeOK, Broker \/ Tcp
  PROVE  TypeOK'
  <1> USE DEF TypeOK, client, pinger, history
  <1>1. /\ P("CONNACK", 0) \in Packet /\ P("CONNACK", Refused) \in Packet
        /\ P("SUBACK", SubQos) \in Packet /\ P("SUBACK", SubFail) \in Packet
        /\ P("PINGRESP", 0) \in Packet /\ P("UNSUPPORTED", 0) \in Packet
    <2>1. SubQos \in {0, 1, 2, Refused, SubFail}
      BY QosAssumption, SMT
    <2> QED
      BY <2>1, ConstantTypes DEF PacketType
  <1>2. \A q \in 0..SubQos :
          [type |-> "PUBLISH", arg |-> q, id |-> IF q = 0 THEN 0 ELSE 1] \in Packet
    BY QosAssumption, ConstantTypes, SMT DEF Packet, PacketType
  <1>3. /\ up # <<>> => Head(up) \in Packet /\ Tail(up) \in Seq(Packet)
        /\ \A p \in Packet : Append(down, p) \in Seq(Packet)
    BY ChannelTypes
  <1>4. CASE BrokerConnects
    BY <1>1, <1>3, <1>4 DEF BrokerConnects
  <1>5. CASE BrokerAnswers
    <2>1. PICK a \in Answers(Head(up)) :
            /\ down' = down \o a
            /\ broker' = IF a = <<P("SUBACK", SubQos)>> THEN "subscribed" ELSE broker
      BY <1>5 DEF BrokerAnswers
    <2>2. Head(up) \in Packet /\ Tail(up) \in Seq(Packet) /\ Ack(Head(up)) \in Packet
      BY <1>3, <1>5, ConstantTypes DEF BrokerAnswers
    <2>3. Answers(Head(up)) \subseteq Seq(Packet)
      <3>1. /\ <<P("SUBACK", SubQos)>> \in Seq(Packet) /\ <<P("SUBACK", SubFail)>> \in Seq(Packet)
            /\ <<P("PINGRESP", 0)>> \in Seq(Packet) /\ <<Ack(Head(up))>> \in Seq(Packet)
            /\ <<>> \in Seq(Packet)
        BY <1>1, <2>2, EmptySeq, SMT
      <3> QED
        BY <3>1, Zenon DEF Answers
    <2>4. down' \in Seq(Packet)
      BY <2>1, <2>3, ConcatProperties
    <2> QED
      BY <1>5, <2>1, <2>2, <2>4 DEF BrokerAnswers
  <1>6. CASE BrokerPublishes
    BY <1>2, <1>3, <1>6 DEF BrokerPublishes
  <1>7. CASE BrokerSendsUnsupported
    BY <1>1, <1>3, <1>7 DEF BrokerSendsUnsupported
  <1>8. CASE BrokerCloses
    BY <1>8 DEF BrokerCloses
  <1>9. CASE ConnectionReset
    BY <1>9, ChannelTypes, EmptySeq DEF ConnectionReset
  <1>10. CASE PeerVanishes
    BY <1>10, ChannelTypes DEF PeerVanishes
  <1> QED
    BY <1>4, <1>5, <1>6, <1>7, <1>8, <1>9, <1>10 DEF Broker, Tcp

LEMMA TypeInit == Init => TypeOK
  <1>1. <<>> \in Seq(Call) /\ <<>> \in Seq(Packet)
    BY EmptySeq
  <1>2. 1 \in 1..MaxPacketId /\ 0 \in Nat
    BY PacketIdAssumption, SMT
  <1> QED
    BY <1>1, <1>2, Zenon DEF Init, TypeOK, Stage

LEMMA TypeStep == TypeOK /\ [Next]_vars => TypeOK'
  <1> SUFFICES ASSUME TypeOK, [Next]_vars PROVE TypeOK'
    OBVIOUS
  <1>1. CASE UNCHANGED vars
    BY <1>1 DEF TypeOK, vars, client, pinger, history
  <1>2. CASE ReceiveTask
    BY <1>2, LoopType, LibraryType DEF ReceiveTask
  <1>3. CASE PingTask \/ Clock
    BY <1>3, PingAndClockType
  <1>4. CASE Broker \/ Tcp
    BY <1>4, OutsideType
  <1> QED
    BY <1>1, <1>2, <1>3, <1>4 DEF Next

\* Every reachable state is well-typed: the call stack of the library, the packets on the
\* wire and the fields of mqttclient, for every QoS and channel bound.
THEOREM TypeCorrect == Spec => []TypeOK
  BY TypeInit, TypeStep, PTL DEF Spec

-----------------------------------------------------------------------------
(* How a call stack changes *)

\* A step at the innermost call leaves every call its operation.
LEMMA SetTopFits ==
  ASSUME TypeOK, CallsFitStage, InCall, NEW f \in Call, f.op = Top.op, SetTop(f), stage' = stage
  PROVE  /\ CallsFitStage' /\ Len(calls') = Len(calls) /\ InCall'
         /\ \A i \in 1..Len(calls) : calls'[i] = IF i = Len(calls) THEN f ELSE calls[i]
  <1>1. /\ calls' \in Seq(Call) /\ Len(calls') = Len(calls)
        /\ \A i \in 1..Len(calls) : calls'[i] = IF i = Len(calls) THEN f ELSE calls[i]
    BY SetTopType DEF TypeOK, SetTop
  <1>2. Len(calls) \in Nat \ {0}
    BY TopType DEF TypeOK
  <1>3. InCall'
    BY <1>1, <1>2, EmptySeq, SMT DEF InCall
  <1>4. CallsFitStage'
    <2>1. FirstOp' = FirstOp
      BY DEF FirstOp
    <2>2. \A i \in 1..Len(calls) : calls'[i].op = calls[i].op
      BY <1>1 DEF Top
    <2> QED
      BY <1>1, <2>1, <2>2 DEF CallsFitStage, InCall
  <1> QED
    BY <1>1, <1>3, <1>4

\* The innermost call is the one of its stage, or the publish of a callback.
LEMMA TopFits ==
  ASSUME TypeOK, CallsFitStage, InCall
  PROVE  /\ Top.op = "CONNECT" <=> stage = "connect"
         /\ Top.op = "SUBSCRIBE" => stage = "subscribe"
         /\ Top.op = "PUBLISH" /\ Len(calls) = 1 => stage = "online"
         /\ Top.op = IF Len(calls) = 1 THEN FirstOp ELSE "PUBLISH"
  <1>1. Len(calls) \in Nat \ {0}
    BY TopType DEF TypeOK
  <1>2. Top.op = IF Len(calls) = 1 THEN FirstOp ELSE "PUBLISH"
    <2>1. Len(calls) \in 1..Len(calls)
      BY <1>1, SMT
    <2> QED
      BY <2>1 DEF CallsFitStage, Top
  <1>3. stage = "connect" => Len(calls) = 1
    <2>1. stage = "connect" => Len(calls) <= 1
      BY DEF CallsFitStage
    <2>2. \A n \in Nat \ {0} : n <= 1 => n = 1
      BY SMT
    <2> QED
      BY <1>1, <2>1, <2>2
  <1> QED
    BY <1>2, <1>3 DEF FirstOp, CallsFitStage

\* A call that returns leaves the calls around it as they are.
Shrinks == /\ Len(calls') < Len(calls) /\ calls' \in Seq(Call)
           /\ \A i \in 1..Len(calls') : calls'[i] = calls[i]
           /\ stage' \in {stage, "yield", "close"}
           /\ stage' # stage => ~InCall' /\ (stage' = "yield" => stage = "online")

LEMMA ShrinkFits ==
  ASSUME TypeOK, CallsFitStage, InCall, Shrinks
  PROVE  CallsFitStage'
  <1>1. Len(calls) \in Nat /\ Len(calls') \in Nat
    BY LenProperties DEF TypeOK, Shrinks
  <1>2. CASE stage' = stage
    <2>1. FirstOp' = FirstOp
      BY <1>2 DEF FirstOp
    <2>2. \A i \in 1..Len(calls') : i \in 1..Len(calls) /\ calls'[i] = calls[i]
      BY <1>1, SMT DEF Shrinks
    <2>3. \A i \in 1..Len(calls') : calls'[i].op = IF i = 1 THEN FirstOp' ELSE "PUBLISH"
      BY <2>1, <2>2 DEF CallsFitStage
    <2>4. stage' = "connect" => Len(calls') <= 1
      BY <1>1, <1>2, SMT DEF CallsFitStage, Shrinks
    <2> QED
      BY <1>2, <2>3, <2>4 DEF CallsFitStage
  <1>3. CASE stage' # stage
    <2>1. ~InCall' /\ stage' # "connect"
      BY <1>3 DEF Shrinks
    <2>2. Len(calls') = 0
      BY <2>1, EmptySeq DEF InCall
    <2> QED
      BY <2>1, <2>2, SMT DEF CallsFitStage
  <1> QED
    BY <1>2, <1>3

LEMMA PublishedShrinks ==
  ASSUME TypeOK, CallsFitStage, InCall, Top.op = "PUBLISH", Published
  PROVE  Shrinks
  <1>1. /\ calls' \in Seq(Call) /\ Len(calls') = Len(calls) - 1
        /\ \A i \in 1..Len(calls') : calls'[i] = calls[i]
    BY PoppedType DEF TypeOK, Published
  <1>2. Len(calls) \in Nat \ {0} /\ (Len(calls) = 1 => stage = "online")
    BY TopType, TopFits DEF TypeOK
  <1>3. Len(calls) = 1 => ~InCall'
    BY <1>1, EmptySeq, SMT DEF InCall
  <1> QED
    BY <1>1, <1>2, <1>3, SMT DEF Shrinks, Published

\* A call that fails leaves no session behind, and the task in its loop or on its way out.
LEMMA FailsShrinks ==
  ASSUME TypeOK, CallsFitStage, ConnectionFitsStage, InCall, Fails
  PROVE  Shrinks /\ isconnected' = FALSE
  <1>1. CASE Top.op = "PUBLISH"
    <2>1. Published /\ MQTTCloseSession
      BY <1>1 DEF Fails, Published
    <2> QED
      BY <1>1, <2>1, PublishedShrinks DEF MQTTCloseSession
  <1>2. CASE Top.op # "PUBLISH"
    <2>1. calls' = <<>> /\ stage' = "close"
      BY <1>2 DEF Fails
    <2>2. isconnected' = FALSE
      BY <1>2 DEF Fails, MQTTCloseSession, client, TypeOK
    <2>3. Len(calls) \in Nat \ {0}
      BY TopType DEF TypeOK
    <2>4. Len(calls') = 0 /\ calls' \in Seq(Call) /\ ~InCall'
      BY <2>1, EmptySeq DEF InCall
    <2>5. Shrinks
      BY <2>1, <2>3, <2>4, SMT DEF Shrinks
    <2> QED
      BY <2>2, <2>5
  <1> QED
    BY <1>1, <1>2

-----------------------------------------------------------------------------
(* What each kind of step keeps *)

\* Everything but type correctness, which TypeStep settles for all steps at once.
Fits == /\ CallsFitStage /\ ConnectionFitsStage /\ HeardBeforeSession /\ ReadBeforeSession
        /\ RequestsAfterConnack /\ ConnectFirst /\ PingsBeforeConnect

\* A call past its send() has seen CONNECT go out on this connection.
LEMMA PastSend ==
  ASSUME TypeOK, ConnectFirst, InCall, Top.at # "send"
  PROVE  connectSent
  <1>1. CASE Len(calls) = 1
    BY <1>1 DEF ConnectFirst, Top, TypeOK
  <1>2. CASE Len(calls) # 1
    BY <1>2 DEF ConnectFirst, TypeOK
  <1> QED
    BY <1>1, <1>2

\* Before the broker accepts, whatever a call read was no request of ours to acknowledge.
LEMMA TopRead ==
  ASSUME TypeOK, ReadBeforeSession, InCall, broker = "await"
  PROVE  Heard(Top.got) /\ Top.at # "ack"
  <1>1. Len(calls) \in Nat \ {0}
    BY TopType DEF TypeOK
  <1>2. Len(calls) \in 1..Len(calls)
    BY <1>1, SMT
  <1> QED
    BY <1>2 DEF ReadBeforeSession, Top

\* The innermost call moves on.
LEMMA SetTopKeeps ==
  ASSUME TypeOK, Fits, InCall, NEW f \in Call, f.op = Top.op, SetTop(f), stage' = stage,
         broker' = broker, broker = "await" => Heard(f.got) /\ f.at # "ack"
  PROVE  CallsFitStage' /\ ReadBeforeSession'
  <1>1. /\ CallsFitStage' /\ Len(calls') = Len(calls)
        /\ \A i \in 1..Len(calls) : calls'[i] = IF i = Len(calls) THEN f ELSE calls[i]
    BY SetTopFits DEF Fits
  <1>2. \A g : Heard(g)' <=> Heard(g)
    BY DEF Heard, P
  <1>3. ASSUME broker' = "await", NEW i \in 1..Len(calls)
        PROVE  Heard(calls'[i].got) /\ calls'[i].at # "ack"
    BY <1>1, <1>3 DEF Fits, ReadBeforeSession
  <1> QED
    BY <1>1, <1>2, <1>3 DEF ReadBeforeSession

LEMMA GotoKeeps ==
  ASSUME TypeOK, Fits, InCall, NEW s \in {"cycle", "keepalive", "test"}, Goto(s), stage' = stage,
         broker' = broker
  PROVE  CallsFitStage' /\ ReadBeforeSession'
  <1> DEFINE f == [Top EXCEPT !.at = s]
  <1>1. Top \in Call /\ f \in Call
    <2>1. FALSE \in BOOLEAN /\ Nothing \in Packet \cup {Nothing, TimedOut}
      OBVIOUS
    <2> QED
      BY <2>1, TopType, UpdateType DEF TypeOK
  <1>2. f.op = Top.op /\ f.got = Top.got /\ f.at = s
    BY <1>1 DEF Call
  <1>3. broker = "await" => Heard(f.got) /\ f.at # "ack"
    BY <1>2, TopRead DEF Fits
  <1>4. SetTop(f)
    BY DEF Goto
  <1> HIDE DEF f
  <1> QED
    BY <1>1, <1>2, <1>3, <1>4, SetTopKeeps

\* A call returns.
LEMMA ShrinkKeeps ==
  ASSUME TypeOK, Fits, InCall, Shrinks, broker' = broker
  PROVE  CallsFitStage' /\ ReadBeforeSession'
  <1>1. CallsFitStage'
    BY ShrinkFits DEF Fits
  <1>2. Len(calls) \in Nat /\ Len(calls') \in Nat
    BY LenProperties DEF TypeOK, Shrinks
  <1>3. \A i \in 1..Len(calls') : i \in 1..Len(calls) /\ calls'[i] = calls[i]
    BY <1>2, SMT DEF Shrinks
  <1> QED
    BY <1>1, <1>3 DEF Fits, ReadBeforeSession, Heard, P

\* The connection stays what it was while the receive task goes on, or leaves a lost session.
LEMMA ConnectionKept ==
  ASSUME TypeOK, Fits, UNCHANGED accepted, link' = "closed" <=> link = "closed",
         connectSent => connectSent', broker # "await" => broker' # "await",
         isconnected' => isconnected,
         \/ stage' = stage
         \/ stage' = "close" /\ InCall /\ ~isconnected'
         \/ stage' \in {"online", "yield"} /\ stage \in {"subscribe", "online"}
  PROVE  ConnectionFitsStage'
  <1>1. InCall => stage \in {"connect", "subscribe", "online", "yield"}
    BY DEF Fits, CallsFitStage
  <1> QED
    BY <1>1 DEF Fits, ConnectionFitsStage

\* After CONNECT, packets other than the ping task's count no more.
LEMMA PreludeKept ==
  ASSUME Fits, connectSent', UNCHANGED prelude
  PROVE  ConnectFirst' /\ PingsBeforeConnect'
  BY DEF Fits, ConnectFirst, PingsBeforeConnect

LEMMA FailsKeep ==
  ASSUME TypeOK, Fits, InCall, Fails, UNCHANGED <<link, up, down, broker, ping_pc, history>>
  PROVE  Fits'
  <1>1. Shrinks /\ ~isconnected' /\ isconnected' \in BOOLEAN
    BY FailsShrinks DEF Fits
  <1>2. CallsFitStage' /\ ReadBeforeSession'
    BY <1>1, ShrinkKeeps
  <1>3. HeardBeforeSession' /\ RequestsAfterConnack'
    BY DEF Fits, HeardBeforeSession, RequestsAfterConnack, Heard, P
  <1>4. ConnectionFitsStage'
    BY <1>1, ConnectionKept DEF history, Shrinks
  <1>5. ConnectFirst'
    <2>1. Len(calls) = 1 => ~InCall'
      <3>1. Len(calls') \in Nat /\ (InCall' => Len(calls') \in Nat \ {0})
        BY <1>1, LenProperties, EmptySeq, SMT DEF Shrinks, InCall
      <3> QED
        BY <1>1, <3>1, SMT DEF Shrinks
    <2> QED
      BY <2>1 DEF Fits, ConnectFirst, history
  <1>6. PingsBeforeConnect'
    BY DEF Fits, PingsBeforeConnect, history
  <1> QED
    BY <1>2, <1>3, <1>4, <1>5, <1>6 DEF Fits

\* What a write does to the order of packets on the connection.
LEMMA WriteKeeps ==
  ASSUME TypeOK, Fits, NEW p \in Packet, Write(p), UNCHANGED broker,
         p.type \in {"CONNECT", "PINGREQ"} \/ broker # "await"
  PROVE  /\ RequestsAfterConnack' /\ (connectSent => connectSent') /\ accepted' = accepted
         /\ (connectSent \/ p.type = "CONNECT") => connectSent' /\ prelude' = prelude
  <1>1. /\ up' = Append(up, p) /\ up' \in Seq(Packet) /\ Len(up') = Len(up) + 1 /\ Len(up) \in Nat
        /\ \A i \in 1..(Len(up) + 1) : up'[i] = IF i <= Len(up) THEN up[i] ELSE p
    BY SMT DEF Write, TypeOK
  <1>2. DOMAIN up = 1..Len(up) /\ DOMAIN up' = 1..Len(up')
    BY <1>1, LenProperties DEF TypeOK
  <1>3. RequestsAfterConnack'
    <2> SUFFICES ASSUME NEW i \in DOMAIN up', up'[i].type \notin {"CONNECT", "PINGREQ"}
                 PROVE  broker # "await"
      BY DEF RequestsAfterConnack
    <2>1. i \in 1..(Len(up) + 1)
      BY <1>1, <1>2
    <2>2. CASE i <= Len(up)
      <3>1. i \in DOMAIN up /\ up'[i] = up[i]
        BY <1>1, <1>2, <2>1, <2>2, SMT
      <3> QED
        BY <3>1 DEF Fits, RequestsAfterConnack
    <2>3. CASE ~(i <= Len(up))
      BY <1>1, <2>1, <2>3
    <2> QED
      BY <2>2, <2>3
  <1> QED
    BY <1>3 DEF Write, TypeOK

-----------------------------------------------------------------------------
(* The steps of the receive task between calls *)

LEMMA LoopKeeps ==
  ASSUME TypeOK, Fits,
         Configure \/ NetworkConnect \/ MQTTClientInit \/ MQTTSubscribe \/ PublishOnline
           \/ MQTTYield \/ Disconnect
  PROVE  Fits'
  <1> USE DEF Fits
  <1>1. ASSUME NEW o \in Op, NEW i \in PacketId, calls' = <<NewCall(o, 0, i)>>
        PROVE  /\ Len(calls') = 1 /\ InCall'
               /\ calls'[1].op = o /\ Heard(calls'[1].got)
               /\ calls'[1].at = IF o = "YIELD" THEN "cycle" ELSE "send"
    BY <1>1 DEF NewCall, Heard, Nothing, InCall
  <1>2. ASSUME NEW o \in Op, NEW i \in PacketId, calls' = <<NewCall(o, 0, i)>>,
               o = FirstOp, stage' = stage, stage \in {"connect", "subscribe", "online", "yield"}
        PROVE  CallsFitStage' /\ ReadBeforeSession'
    <2>1. 1..Len(calls') = {1} /\ Len(calls') <= 1
      BY <1>1, <1>2, SMT
    <2>2. FirstOp' = FirstOp
      BY <1>2 DEF FirstOp
    <2>3. Heard(calls'[1].got) <=> Heard(calls[1].got)'
      BY DEF Heard, P
    <2> QED
      BY <1>1, <1>2, <2>1, <2>2, <2>3 DEF CallsFitStage, ReadBeforeSession
  <1>3. 0 \in PacketId /\ getNextPacketId \in PacketId
    BY PacketIdAssumption, SMT DEF TypeOK, getNextPacketId, PacketId
  <1>4. ASSUME ~InCall, ~InCall', stage' # "connect"
        PROVE  CallsFitStage' /\ ReadBeforeSession' /\ ConnectFirst'
    <2>1. Len(calls') = 0 /\ 1..Len(calls') = {}
      BY <1>4, EmptySeq, SMT DEF InCall
    <2> QED
      BY <1>4, <2>1 DEF CallsFitStage, ReadBeforeSession, ConnectFirst
  <1>5. ASSUME UNCHANGED <<up, down, broker>>
        PROVE  HeardBeforeSession' /\ RequestsAfterConnack'
    BY <1>5 DEF HeardBeforeSession, RequestsAfterConnack, Heard, P
  <1>6. ASSUME up' = <<>>, down' = <<>>
        PROVE  HeardBeforeSession' /\ RequestsAfterConnack'
    <2>1. DOMAIN up' = {} /\ 1..Len(down') = {}
      BY <1>6, EmptySeq, SMT
    <2> QED
      BY <2>1 DEF HeardBeforeSession, RequestsAfterConnack
  <1>7. CASE Configure
    <2>1. ~InCall /\ ~InCall'
      BY <1>7 DEF Configure, CallsFitStage, InCall
    <2>2. ConnectionFitsStage' /\ PingsBeforeConnect'
      BY <1>7 DEF Configure, ConnectionFitsStage, PingsBeforeConnect, client, pinger, history
    <2> QED
      BY <1>4, <1>5, <1>7, <2>1, <2>2 DEF Configure
  <1>8. CASE NetworkConnect
    <2>1. ~InCall
      BY <1>8 DEF NetworkConnect, CallsFitStage
    <2>2. CallsFitStage' /\ ReadBeforeSession' /\ ConnectFirst'
      <3>1. Len(calls') = 0 /\ 1..Len(calls') = {} /\ ~InCall'
        BY <1>8, <2>1, EmptySeq, SMT DEF InCall, NetworkConnect
      <3>2. Len(calls') <= 1
        BY <3>1, SMT
      <3> QED
        BY <3>1, <3>2 DEF CallsFitStage, ReadBeforeSession, ConnectFirst
    <2>3. ConnectionFitsStage'
      BY <1>8 DEF NetworkConnect, ConnectionFitsStage, client
    <2>4. PingsBeforeConnect'
      BY <1>8, SMT DEF NetworkConnect, PingsBeforeConnect, pinger
    <2> QED
      BY <1>6, <1>8, <2>2, <2>3, <2>4 DEF NetworkConnect
  <1>9. CASE MQTTClientInit
    <2>1. CallsFitStage' /\ ReadBeforeSession'
      BY <1>2, <1>3, <1>9 DEF MQTTClientInit, FirstOp, Op
    <2>2. ConnectFirst'
      BY <1>1, <1>3, <1>9 DEF MQTTClientInit, ConnectFirst, Op
    <2>3. ConnectionFitsStage' /\ PingsBeforeConnect'
      BY <1>9 DEF MQTTClientInit, ConnectionFitsStage, PingsBeforeConnect, pinger, history
    <2> QED
      BY <1>5, <1>9, <2>1, <2>2, <2>3 DEF MQTTClientInit
  <1>10. CASE MQTTSubscribe
    <2>1. CallsFitStage' /\ ReadBeforeSession'
      BY <1>2, <1>3, <1>10 DEF MQTTSubscribe, FirstOp, Op
    <2>2. connectSent /\ ConnectionFitsStage'
      BY <1>10 DEF MQTTSubscribe, ConnectionFitsStage, client, history
    <2> QED
      BY <1>5, <1>10, <2>1, <2>2 DEF MQTTSubscribe, ConnectFirst, PingsBeforeConnect, pinger, history
  <1>11. CASE PublishOnline
    <2>1. connectSent /\ ConnectionFitsStage'
      BY <1>11 DEF PublishOnline, ConnectionFitsStage, client, history
    <2>2. CallsFitStage' /\ ReadBeforeSession'
      <3>1. CASE isconnected
        BY <1>2, <1>3, <1>11, <3>1 DEF PublishOnline, FirstOp, Op
      <3>2. CASE ~isconnected
        BY <1>4, <1>11, <3>2 DEF PublishOnline, InCall
      <3> QED
        BY <3>1, <3>2
    <2> QED
      BY <1>5, <1>11, <2>1, <2>2 DEF PublishOnline, ConnectFirst, PingsBeforeConnect, pinger, history
  <1>12. CASE MQTTYield
    <2>1. CallsFitStage' /\ ReadBeforeSession'
      BY <1>2, <1>3, <1>12 DEF MQTTYield, FirstOp, Op
    <2>2. connectSent /\ ConnectionFitsStage'
      BY <1>12 DEF MQTTYield, ConnectionFitsStage, client, history
    <2> QED
      BY <1>5, <1>12, <2>1, <2>2 DEF MQTTYield, ConnectFirst, PingsBeforeConnect, pinger, history
  <1>13. CASE Disconnect
    <2>1. ~InCall /\ ~InCall' /\ stage' # "connect"
      BY <1>13 DEF Disconnect, CallsFitStage, InCall
    <2>2. ConnectionFitsStage' /\ PingsBeforeConnect'
      BY <1>13 DEF Disconnect, ConnectionFitsStage, PingsBeforeConnect, client, pinger
    <2> QED
      BY <1>4, <1>6, <1>13, <2>1, <2>2 DEF Disconnect
  <1> QED
    BY <1>7, <1>8, <1>9, <1>10, <1>11, <1>12, <1>13

-----------------------------------------------------------------------------
(* The steps of a library call *)

\* What readPacket takes off the connection.
LEMMA TakenKeeps ==
  ASSUME TypeOK, HeardBeforeSession, down # <<>>, broker' = broker
  PROVE  /\ Head(down) \in Packet
         /\ broker = "await" => Heard(Head(down)) /\ ~NeedsAck(Head(down))
         /\ down' = Tail(down) => HeardBeforeSession'
  <1>1. /\ Len(down) \in Nat /\ Len(down) # 0 /\ Head(down) = down[1] /\ Len(Tail(down)) = Len(down) - 1
        /\ \A i \in 1..Len(Tail(down)) : Tail(down)[i] = down[i + 1]
    BY HeadTailProperties, EmptySeq, LenProperties DEF TypeOK
  <1>2. 1 \in 1..Len(down) /\ \A i \in 1..Len(Tail(down)) : i + 1 \in 1..Len(down)
    BY <1>1, SMT
  <1>3. Head(down) \in Packet
    BY ChannelTypes DEF TypeOK
  <1>4. broker = "await" => Heard(Head(down))
    BY <1>1, <1>2 DEF HeardBeforeSession
  <1>5. Heard(Head(down)) => ~NeedsAck(Head(down))
    BY DEF Heard, NeedsAck, P
  <1>6. ASSUME down' = Tail(down), broker' = "await", NEW i \in 1..Len(down')
        PROVE  Heard(down'[i])
    BY <1>1, <1>2, <1>6 DEF HeardBeforeSession
  <1>7. \A g : Heard(g)' <=> Heard(g)
    BY DEF Heard, P
  <1> QED
    BY <1>3, <1>4, <1>5, <1>6, <1>7 DEF HeardBeforeSession

\* The call that has just read packet p.
LEMMA AfterKeeps ==
  ASSUME TypeOK, InCall, NEW p \in Packet
  PROVE  /\ After(p) \in Call /\ After(p).op = Top.op /\ After(p).got = p
         /\ After(p).at = "ack" => NeedsAck(p)
  <1>1. FALSE \in BOOLEAN /\ p \in Packet \cup {Nothing, TimedOut} /\ Top \in Call
    BY TopType DEF TypeOK
  <1>2. After(p) \in Call
    BY <1>1, UpdateType DEF After, TypeOK
  <1> QED
    BY <1>1, <1>2, SMT DEF After, Call

LEMMA SendsKeep ==
  ASSUME TypeOK, Fits, SendRequest \/ SendAck \/ KeepalivePing
  PROVE  Fits'
  <1> USE DEF Fits
  <1>1. ASSUME UNCHANGED <<down, broker>> PROVE HeardBeforeSession'
    BY <1>1 DEF HeardBeforeSession, Heard, P
  <1>2. CASE SendRequest
    <2> DEFINE p == Request(Top)
    <2>1. InCall /\ Top \in Call /\ Top.op # "YIELD" /\ Write(p)
      BY <1>2, TopType DEF SendRequest, At, TypeOK
    <2>2. p \in Packet /\ p.type = Top.op
      BY <2>1, ConstantTypes DEF Request
    <2>3. stage \in {"connect", "subscribe", "online", "yield"} /\ (Top.op = "CONNECT" <=> stage = "connect")
      BY <2>1, TopFits DEF CallsFitStage
    <2>4. p.type = "CONNECT" \/ (connectSent /\ broker # "await")
      BY <2>2, <2>3 DEF ConnectionFitsStage
    <2>5. /\ RequestsAfterConnack' /\ connectSent' /\ prelude' = prelude /\ accepted' = accepted
      <3> HIDE DEF p
      <3> QED
        BY <1>2, <2>1, <2>2, <2>4, WriteKeeps DEF SendRequest
    <2>6. CASE Top.op = "PUBLISH" /\ Top.qos = 0
      <3>1. Published
        BY <1>2, <2>6 DEF SendRequest
      <3>2. Shrinks
        BY <2>1, <2>6, <3>1, PublishedShrinks
      <3>3. CallsFitStage' /\ ReadBeforeSession'
        BY <1>2, <2>1, <3>2, ShrinkKeeps DEF SendRequest
      <3>4. stage' = stage \/ (stage' = "yield" /\ stage = "online")
        BY <2>1, <2>6, <3>1, TopFits DEF Published
      <3>5. ConnectionFitsStage'
        BY <1>2, <2>5, <3>4, ConnectionKept DEF SendRequest, client
      <3> QED
        BY <1>1, <1>2, <2>5, <3>3, <3>5, PreludeKept DEF SendRequest
    <2>7. CASE ~(Top.op = "PUBLISH" /\ Top.qos = 0)
      <3>1. Goto("test") /\ stage' = stage /\ UNCHANGED broker
        BY <1>2, <2>7 DEF SendRequest
      <3>2. CallsFitStage' /\ ReadBeforeSession'
        BY <2>1, <3>1, GotoKeeps
      <3>3. ConnectionFitsStage'
        BY <1>2, <2>5, <3>1, ConnectionKept DEF SendRequest, client
      <3> QED
        BY <1>1, <1>2, <2>5, <3>2, <3>3, PreludeKept DEF SendRequest
    <2> QED
      BY <2>6, <2>7
  <1>3. CASE SendAck
    <2> DEFINE p == Ack(Top.got)
    <2>1. InCall /\ Top \in Call /\ Top.at = "ack" /\ Write(p) /\ Goto("keepalive")
      BY <1>3, TopType DEF SendAck, At, TypeOK
    <2>2. p \in Packet
      BY <2>1, ConstantTypes DEF Call
    <2>3. connectSent /\ broker # "await"
      BY <2>1, PastSend, TopRead
    <2>4. /\ RequestsAfterConnack' /\ connectSent' /\ prelude' = prelude /\ accepted' = accepted
      <3> HIDE DEF p
      <3> QED
        BY <1>3, <2>1, <2>2, <2>3, WriteKeeps DEF SendAck
    <2>5. CallsFitStage' /\ ReadBeforeSession'
      BY <1>3, <2>1, GotoKeeps DEF SendAck
    <2>6. ConnectionFitsStage'
      BY <1>3, <2>4, ConnectionKept DEF SendAck, client
    <2> QED
      BY <1>1, <1>3, <2>4, <2>5, <2>6, PreludeKept DEF SendAck
  <1>4. CASE KeepalivePing
    <2> DEFINE p == P("PINGREQ", 0)
    <2>1. InCall /\ Top.at = "keepalive" /\ Write(p) /\ Goto("test")
      BY <1>4 DEF KeepalivePing, At
    <2>2. p \in Packet /\ p.type = "PINGREQ"
      BY ConstantTypes DEF PacketType, P
    <2>3. connectSent
      BY <2>1, PastSend
    <2>4. /\ RequestsAfterConnack' /\ connectSent' /\ prelude' = prelude /\ accepted' = accepted
      <3> HIDE DEF p
      <3> QED
        BY <1>4, <2>1, <2>2, <2>3, WriteKeeps DEF KeepalivePing
    <2>5. CallsFitStage' /\ ReadBeforeSession'
      BY <1>4, <2>1, GotoKeeps DEF KeepalivePing
    <2>6. ConnectionFitsStage'
      BY <1>4, <2>4, ConnectionKept DEF KeepalivePing
    <2> QED
      BY <1>1, <1>4, <2>4, <2>5, <2>6, PreludeKept DEF KeepalivePing
  <1> QED
    BY <1>2, <1>3, <1>4

LEMMA ReadsKeep ==
  ASSUME TypeOK, Fits, Receive \/ Reply \/ ReceiveEof
  PROVE  Fits'
  <1> USE DEF Fits
  <1>1. InCall /\ connectSent
    <2>1. InCall /\ Top.at = "cycle"
      BY DEF Receive, Reply, ReceiveEof, At
    <2> QED
      BY <2>1, PastSend
  <1>2. ASSUME UNCHANGED <<up, broker, history>>
        PROVE  RequestsAfterConnack' /\ connectSent' /\ UNCHANGED <<prelude, accepted>>
    BY <1>1, <1>2 DEF RequestsAfterConnack, history
  <1>3. CASE Receive
    <2> DEFINE p == Head(down)
    <2>1. down # <<>> /\ SetTop(After(p)) /\ down' = Tail(down)
      BY <1>3 DEF Receive
    <2>2. p \in Packet /\ HeardBeforeSession' /\ (broker = "await" => Heard(p) /\ ~NeedsAck(p))
      BY <1>3, <2>1, TakenKeeps DEF Receive
    <2>3. CallsFitStage' /\ ReadBeforeSession'
      <3> HIDE DEF p
      <3>1. /\ After(p) \in Call /\ After(p).op = Top.op /\ After(p).got = p
            /\ After(p).at = "ack" => NeedsAck(p)
        BY <1>1, <2>2, AfterKeeps
      <3>2. broker = "await" => Heard(After(p).got) /\ After(p).at # "ack"
        BY <2>2, <3>1
      <3>3. stage' = stage /\ broker' = broker
        BY <1>3 DEF Receive
      <3> QED
        BY <1>1, <2>1, <3>1, <3>2, <3>3, SetTopKeeps
    <2>4. isconnected' => isconnected
      BY <1>3 DEF Receive, MQTTCloseSession, client
    <2>5. ConnectionFitsStage'
      BY <1>2, <1>3, <2>4, ConnectionKept DEF Receive
    <2> QED
      BY <1>2, <1>3, <2>2, <2>3, <2>5, PreludeKept DEF Receive
  <1>4. CASE Reply
    <2>1. down # <<>> /\ down' = Tail(down) /\ Head(down).type = "PUBLISH"
      BY <1>4 DEF Reply
    <2>2. /\ Head(down) \in Packet /\ HeardBeforeSession' /\ broker # "await"
      <3>1. ~Heard(Head(down))
        BY <2>1 DEF Heard, P
      <3> QED
        BY <1>4, <2>1, <3>1, TakenKeeps DEF Reply
    <2>3. PICK c \in Call : c.op = "PUBLISH" /\ calls' = Append([calls EXCEPT ![Len(calls)] = After(Head(down))], c)
      <3>1. PICK q \in ReplyQos :
              calls' = Append([calls EXCEPT ![Len(calls)] = After(Head(down))], Nested(q))
        BY <1>4 DEF Reply
      <3> QED
        BY <3>1, NestedType
    <2> DEFINE base == [calls EXCEPT ![Len(calls)] = After(Head(down))]
    <2>4. /\ base \in Seq(Call) /\ Len(base) = Len(calls)
          /\ \A i \in 1..Len(calls) : base[i].op = calls[i].op
      <3>1. After(Head(down)) \in Call /\ After(Head(down)).op = Top.op
        BY <1>1, <2>2, AfterKeeps
      <3> QED
        BY <1>1, <3>1, SetTopType DEF TypeOK, Top
    <2>5. /\ Len(calls) \in Nat \ {0} /\ Len(calls') = Len(calls) + 1
          /\ \A i \in 1..Len(calls') : calls'[i].op = IF i <= Len(calls) THEN calls[i].op ELSE "PUBLISH"
      <3>1. Len(calls) \in Nat \ {0}
        BY <1>1, TopType DEF TypeOK
      <3>2. calls' = Append(base, c)
        BY <2>3
      <3> HIDE DEF base
      <3>3. /\ Len(calls') = Len(base) + 1
            /\ \A i \in 1..(Len(base) + 1) : calls'[i] = IF i <= Len(base) THEN base[i] ELSE c
        BY <2>4, <3>2, SMT
      <3>4. \A i \in 1..(Len(calls) + 1) : i <= Len(calls) => i \in 1..Len(calls)
        BY <3>1, SMT
      <3> QED
        BY <2>3, <2>4, <3>1, <3>3, <3>4
    <2>6. CallsFitStage'
      <3>1. /\ stage' = stage /\ stage \in {"subscribe", "online", "yield"} /\ FirstOp' = FirstOp
        BY <1>4 DEF Reply, ConnectionFitsStage, FirstOp
      <3>2. \A i \in 1..Len(calls') :
              /\ i <= Len(calls) => i \in 1..Len(calls)
              /\ ~(i <= Len(calls)) => i # 1
        BY <2>5, SMT
      <3> QED
        BY <2>5, <3>1, <3>2 DEF CallsFitStage
    <2>7. ConnectionFitsStage'
      BY <1>2, <1>4, ConnectionKept DEF Reply, client
    <2> QED
      BY <1>2, <1>4, <2>2, <2>6, <2>7, PreludeKept DEF Reply, ReadBeforeSession
  <1>5. CASE ReceiveEof
    <2> DEFINE f == [Top EXCEPT !.got = TimedOut, !.at = "keepalive", !.late = TRUE]
    <2>1. f \in Call /\ f.op = Top.op /\ f.got = TimedOut /\ f.at = "keepalive"
      <3>1. Top \in Call /\ f \in Call
        BY <1>1, TopType, UpdateType DEF TypeOK
      <3> QED
        BY <3>1 DEF Call
    <2>2. SetTop(f) /\ stage' = stage /\ broker' = broker /\ UNCHANGED <<down, up, history>>
      BY <1>5 DEF ReceiveEof
    <2>3. Heard(TimedOut)
      BY DEF Heard, TimedOut
    <2>4. CallsFitStage' /\ ReadBeforeSession'
      <3> HIDE DEF f
      <3> QED
        BY <1>1, <2>1, <2>2, <2>3, SetTopKeeps
    <2>5. HeardBeforeSession'
      BY <2>2 DEF HeardBeforeSession, Heard, P
    <2>6. ConnectionFitsStage'
      BY <1>2, <1>5, ConnectionKept DEF ReceiveEof, client
    <2> QED
      BY <1>2, <1>5, <2>4, <2>5, <2>6, PreludeKept DEF ReceiveEof
  <1> QED
    BY <1>3, <1>4, <1>5

LEMMA FailuresKeep ==
  ASSUME TypeOK, Fits,
         SendRequestFails \/ ReceiveFails \/ SendAckFails \/ KeepaliveFails \/ GiveUp
  PROVE  Fits'
  <1>1. InCall /\ Fails /\ UNCHANGED <<link, up, down, broker, ping_pc, history>>
    BY DEF SendRequestFails, ReceiveFails, SendAckFails, KeepaliveFails, GiveUp, WriteFails, At,
           pinger
  <1> QED
    BY <1>1, FailsKeep

LEMMA AnswersKeep ==
  ASSUME TypeOK, Fits,
         KeepaliveQuiet \/ ConnackAccepted \/ Suback \/ PublishAcked \/ NextCycle
  PROVE  Fits'
  <1> USE DEF Fits
  <1>1. InCall /\ connectSent /\ Top \in Call
    <2>1. InCall /\ Top.at # "send"
      BY DEF KeepaliveQuiet, ConnackAccepted, Suback, PublishAcked, NextCycle, At
    <2> QED
      BY <2>1, PastSend, TopType DEF TypeOK
  <1>2. UNCHANGED <<link, up, down, broker, ping_pc, connectSent, prelude>>
    BY DEF KeepaliveQuiet, ConnackAccepted, Suback, PublishAcked, NextCycle, pinger, history
  <1>3. HeardBeforeSession' /\ RequestsAfterConnack' /\ ConnectFirst' /\ PingsBeforeConnect'
    BY <1>1, <1>2, PreludeKept DEF HeardBeforeSession, RequestsAfterConnack, Heard, P
  <1>4. ASSUME calls' = <<>>, stage' # "connect" PROVE CallsFitStage' /\ ReadBeforeSession'
    <2>1. Len(calls') = 0 /\ 1..Len(calls') = {} /\ ~InCall'
      BY <1>4, EmptySeq, SMT DEF InCall
    <2> QED
      BY <1>4, <2>1 DEF CallsFitStage, ReadBeforeSession
  <1>5. CASE KeepaliveQuiet
    <2>1. Goto("test") /\ stage' = stage /\ UNCHANGED <<client, history>>
      BY <1>5 DEF KeepaliveQuiet
    <2>2. CallsFitStage' /\ ReadBeforeSession'
      BY <1>1, <1>2, <2>1, GotoKeeps
    <2>3. ConnectionFitsStage'
      BY <1>2, <2>1, ConnectionKept DEF client, history
    <2> QED
      BY <1>3, <2>2, <2>3
  <1>6. CASE ConnackAccepted
    <2>1. Top.op = "CONNECT" /\ Top.got.type = "CONNACK" /\ Top.got.arg = 0
      BY <1>6 DEF ConnackAccepted, Answered, Awaited
    <2>2. stage = "connect" /\ broker # "await"
      <3>1. ~Heard(Top.got)
        BY <2>1 DEF Heard, P, Refused
      <3> QED
        BY <1>1, <2>1, <3>1, TopFits, TopRead
    <2>3. ConnectionFitsStage'
      BY <1>1, <1>2, <1>6, <2>2 DEF ConnackAccepted, ConnectionFitsStage
    <2> QED
      BY <1>3, <1>4, <1>6, <2>3 DEF ConnackAccepted
  <1>7. CASE Suback
    <2>1. stage = "subscribe"
      BY <1>1, <1>7, TopFits DEF Suback
    <2>2. ConnectionFitsStage'
      BY <1>2, <1>7, <2>1, ConnectionKept DEF Suback, history
    <2> QED
      BY <1>3, <1>4, <1>7, <2>2 DEF Suback
  <1>8. CASE PublishAcked
    <2>1. Published /\ Top.op = "PUBLISH" /\ Shrinks
      BY <1>1, <1>8, PublishedShrinks DEF PublishAcked
    <2>2. CallsFitStage' /\ ReadBeforeSession'
      BY <1>1, <1>2, <2>1, ShrinkKeeps
    <2>3. stage' = stage \/ (stage' = "yield" /\ stage = "online")
      BY <1>1, <2>1, TopFits DEF Published
    <2>4. ConnectionFitsStage'
      BY <1>2, <1>8, <2>3, ConnectionKept DEF PublishAcked, client, history
    <2> QED
      BY <1>3, <2>2, <2>4
  <1>9. CASE NextCycle
    <2> DEFINE f == [Top EXCEPT !.at = "cycle", !.late = FALSE, !.got = Nothing]
    <2>1. f \in Call /\ f.op = Top.op /\ f.got = Nothing /\ f.at = "cycle"
      <3>1. f \in Call
        BY <1>1, UpdateType DEF TypeOK
      <3> QED
        BY <1>1, <3>1 DEF Call
    <2>2. SetTop(f) /\ stage' = stage /\ UNCHANGED <<client, history>>
      BY <1>9 DEF NextCycle
    <2>3. Heard(Nothing)
      BY DEF Heard, Nothing
    <2>4. CallsFitStage' /\ ReadBeforeSession'
      <3> HIDE DEF f
      <3> QED
        BY <1>1, <1>2, <2>1, <2>2, <2>3, SetTopKeeps
    <2>5. ConnectionFitsStage'
      BY <1>2, <2>2, ConnectionKept DEF client, history
    <2> QED
      BY <1>3, <2>4, <2>5
  <1> QED
    BY <1>5, <1>6, <1>7, <1>8, <1>9

-----------------------------------------------------------------------------
(* The ping task, time, the broker and TCP *)

LEMMA PingAndClockKeep ==
  ASSUME TypeOK, Fits, PingTask \/ Clock
  PROVE  Fits'
  <1> USE DEF Fits
  <1>1. UNCHANGED <<stage, client, link, eof, down, broker, accepted>>
    BY DEF PingTask, PingCheck, PingWrite, Write, WriteFails, Clock, CallTimeout, KeepaliveTimeout,
           PingTimeout, history
  <1>2. HeardBeforeSession'
    BY <1>1 DEF HeardBeforeSession, Heard, P
  <1>3. connectSent => connectSent'
    BY DEF PingTask, PingCheck, PingWrite, Write, WriteFails, Clock, CallTimeout, KeepaliveTimeout,
           PingTimeout, history
  <1>4. ConnectionFitsStage'
    BY <1>1, <1>3, ConnectionKept DEF client
  <1>5. ASSUME UNCHANGED <<calls, stage, broker, connectSent>>
        PROVE  CallsFitStage' /\ ReadBeforeSession' /\ ConnectFirst'
    BY <1>5 DEF CallsFitStage, ReadBeforeSession, ConnectFirst, FirstOp, InCall, Heard, P
  <1>6. CASE PingCheck
    <2>1. connectSent
      BY <1>6 DEF PingCheck, ConnectionFitsStage
    <2> QED
      BY <1>2, <1>4, <1>5, <1>6, <2>1
         DEF PingCheck, RequestsAfterConnack, PingsBeforeConnect, history
  <1>7. CASE PingWrite
    <2>1. CASE Write(P("PINGREQ", 0))
      <3>1. P("PINGREQ", 0) \in Packet /\ P("PINGREQ", 0).type = "PINGREQ"
        BY ConstantTypes DEF PacketType, P
      <3>2. RequestsAfterConnack'
        BY <1>1, <2>1, <3>1, WriteKeeps
      <3>3. connectSent' = connectSent /\ prelude' = IF connectSent THEN prelude ELSE prelude + 1
        BY <2>1 DEF Write, P, TypeOK
      <3>4. PingsBeforeConnect'
        BY <1>7, <3>3, SMT DEF PingWrite, PingsBeforeConnect, TypeOK
      <3> QED
        BY <1>1, <1>2, <1>4, <1>5, <1>7, <3>2, <3>3, <3>4 DEF PingWrite
    <2>2. CASE WriteFails(Sending)
      <3>1. PingsBeforeConnect'
        BY <1>7, <2>2, SMT DEF PingWrite, WriteFails, PingsBeforeConnect, TypeOK, history
      <3> QED
        BY <1>1, <1>2, <1>4, <1>5, <1>7, <2>2, <3>1
           DEF PingWrite, WriteFails, RequestsAfterConnack, history
    <2> QED
      BY <1>7, <2>1, <2>2 DEF PingWrite
  <1>8. CASE CallTimeout
    <2>1. PICK i \in DOMAIN calls : calls[i].at \notin {"lock", "send"} /\ calls' = [calls EXCEPT ![i].late = TRUE]
      BY <1>8 DEF CallTimeout
    <2>2. i \in 1..Len(calls) /\ calls[i] \in Call
      BY LenProperties, ElementOfSeq DEF TypeOK
    <2>3. [calls[i] EXCEPT !.late = TRUE] \in Call
      BY <2>2, Zenon DEF Call
    <2>4. /\ Len(calls') = Len(calls)
          /\ \A j \in 1..Len(calls) :
               calls'[j] = IF j = i THEN [calls[i] EXCEPT !.late = TRUE] ELSE calls[j]
      <3>1. calls' = [calls EXCEPT ![i] = [calls[i] EXCEPT !.late = TRUE]]
        BY <2>1, Zenon
      <3> QED
        BY <2>2, <2>3, <3>1, ExceptSeq DEF TypeOK
    <2>5. \A j \in 1..Len(calls) : /\ calls'[j].op = calls[j].op /\ calls'[j].got = calls[j].got
                                   /\ calls'[j].at = calls[j].at
      BY <2>2, <2>4 DEF Call
    <2>6. InCall' <=> InCall
      <3>1. calls \in Seq(Call) /\ calls' \in Seq(Call)
        BY <1>8, TypeStep DEF TypeOK, Next, Clock
      <3> QED
        BY <2>4, <3>1, EmptySeq, SMT DEF InCall
    <2>7. UNCHANGED <<stage, up, broker, ping_pc, history>>
      BY <1>8 DEF CallTimeout, pinger
    <2>8. CallsFitStage'
      BY <2>4, <2>5, <2>6, <2>7 DEF CallsFitStage, FirstOp
    <2>9. ReadBeforeSession'
      BY <2>4, <2>5, <2>7 DEF ReadBeforeSession, Heard, P
    <2>10. ConnectFirst'
      <3>1. ASSUME InCall, ~connectSent PROVE Len(calls') = 1 /\ calls'[1].at = "send"
        <4>1. Len(calls) = 1 /\ calls[1].at = "send"
          BY <3>1 DEF ConnectFirst
        <4>2. 1 \in 1..Len(calls)
          BY <4>1, SMT
        <4> QED
          BY <2>4, <2>5, <4>1, <4>2
      <3> QED
        BY <2>6, <2>7, <3>1 DEF ConnectFirst, history
    <2> QED
      BY <1>2, <1>4, <2>7, <2>8, <2>9, <2>10 DEF RequestsAfterConnack, PingsBeforeConnect, history
  <1>9. CASE KeepaliveTimeout
    BY <1>2, <1>4, <1>5, <1>9
       DEF KeepaliveTimeout, RequestsAfterConnack, PingsBeforeConnect, history, pinger
  <1>10. CASE PingTimeout
    BY <1>2, <1>4, <1>5, <1>10 DEF PingTimeout, RequestsAfterConnack, PingsBeforeConnect, history
  <1> QED
    BY <1>6, <1>7, <1>8, <1>9, <1>10 DEF PingTask, Clock

LEMMA OutsideKeeps ==
  ASSUME TypeOK, Fits, Broker \/ Tcp
  PROVE  Fits'
  <1> USE DEF Fits
  <1>1. UNCHANGED <<stage, calls, client, ping_pc, history>>
    BY DEF Broker, BrokerConnects, BrokerAnswers, BrokerPublishes, BrokerSendsUnsupported,
           BrokerCloses, Tcp, ConnectionReset, PeerVanishes, pinger
  <1>2. broker # "await" => broker' # "await"
    BY DEF Broker, BrokerConnects, BrokerAnswers, BrokerPublishes, BrokerSendsUnsupported,
           BrokerCloses, Tcp, ConnectionReset, PeerVanishes
  <1>3. link' = "closed" <=> link = "closed"
    BY DEF Broker, BrokerConnects, BrokerAnswers, BrokerPublishes, BrokerSendsUnsupported,
           BrokerCloses, Tcp, ConnectionReset, PeerVanishes
  <1>4. ConnectionFitsStage'
    BY <1>1, <1>2, <1>3, ConnectionKept DEF client, history
  <1>5. CallsFitStage' /\ ReadBeforeSession' /\ ConnectFirst' /\ PingsBeforeConnect'
    BY <1>1, <1>2 DEF CallsFitStage, ReadBeforeSession, ConnectFirst, PingsBeforeConnect, FirstOp,
                      InCall, Heard, P, history
  <1>6. /\ DOMAIN up = 1..Len(up) /\ Len(up) \in Nat
        /\ up # <<>> => /\ DOMAIN Tail(up) = 1..(Len(up) - 1)
                        /\ \A i \in 1..(Len(up) - 1) : Tail(up)[i] = up[i + 1]
    BY HeadTailProperties, LenProperties DEF TypeOK
  <1>7. ASSUME NEW n \in 0..Len(up)
        PROVE  LET s == SubSeq(up, n + 1, Len(up))
               IN  DOMAIN s = 1..(Len(up) - n) /\ \A i \in DOMAIN s : s[i] = up[n + i]
    <2>1. n + 1 \in Int /\ Len(up) \in Int /\ \A i \in (n + 1)..Len(up) : up[i] \in Packet
      BY <1>6, ElementOfSeq, SMT DEF TypeOK
    <2> DEFINE s == SubSeq(up, n + 1, Len(up))
    <2>2. /\ s \in Seq(Packet)
          /\ Len(s) = IF n + 1 <= Len(up) THEN Len(up) - (n + 1) + 1 ELSE 0
          /\ \A i \in 1..(Len(up) - (n + 1) + 1) : s[i] = up[n + 1 + i - 1]
      BY <2>1, SubSeqProperties
    <2>3. Len(s) = Len(up) - n
      <3>1. \A m \in Nat : \A k \in 0..m : /\ k + 1 <= m => m - (k + 1) + 1 = m - k
                                           /\ ~(k + 1 <= m) => m - k = 0
        BY SMT
      <3> HIDE DEF s
      <3> QED
        BY <1>6, <2>2, <3>1
    <2>4. DOMAIN s = 1..(Len(up) - n)
      BY <2>2, <2>3, LenProperties
    <2>5. \A i \in 1..(Len(up) - n) : i \in 1..(Len(up) - (n + 1) + 1) /\ n + 1 + i - 1 = n + i
      BY <1>6, SMT
    <2> HIDE DEF s
    <2>6. \A i \in DOMAIN s : s[i] = up[n + i]
      BY <2>2, <2>4, <2>5
    <2> QED
      BY <2>4, <2>6 DEF s
  <1>8. RequestsAfterConnack'
    <2>1. CASE up' = up
      BY <1>2, <2>1 DEF RequestsAfterConnack
    <2>2. CASE up # <<>> /\ up' = Tail(up)
      <3>1. \A i \in 1..(Len(up) - 1) : i + 1 \in 1..Len(up)
        BY <1>6, SMT
      <3> QED
        BY <1>2, <1>6, <2>2, <3>1 DEF RequestsAfterConnack
    <2>3. CASE up' = <<>>
      BY <2>3 DEF RequestsAfterConnack
    <2>4. CASE \E n \in 0..Len(up) : up' = SubSeq(up, n + 1, Len(up))
      <3>1. PICK n \in 0..Len(up) : up' = SubSeq(up, n + 1, Len(up))
        BY <2>4
      <3>2. \A i \in 1..(Len(up) - n) : n + i \in 1..Len(up)
        BY <1>6, SMT
      <3> QED
        BY <1>2, <1>6, <1>7, <3>1, <3>2 DEF RequestsAfterConnack
    <2>5. \/ up' = up \/ (up # <<>> /\ up' = Tail(up)) \/ up' = <<>>
          \/ \E n \in 0..Len(up) : up' = SubSeq(up, n + 1, Len(up))
      BY DEF Broker, BrokerConnects, BrokerAnswers, BrokerPublishes, BrokerSendsUnsupported,
             BrokerCloses, Tcp, ConnectionReset, PeerVanishes
    <2> QED
      BY <2>1, <2>2, <2>3, <2>4, <2>5
  <1>9. HeardBeforeSession'
    <2> SUFFICES ASSUME broker' = "await", NEW j \in 1..Len(down') PROVE Heard(down'[j])
      BY DEF HeardBeforeSession, Heard, P
    <2>1. broker = "await" /\ \A i \in 1..Len(down) : Heard(down[i])
      BY <1>2 DEF HeardBeforeSession
    <2>2. CASE down' = down
      BY <2>1, <2>2
    <2>3. CASE \E n \in 0..Len(down) : down' = SubSeq(down, 1, n)
      <3>1. PICK n \in 0..Len(down) : down' = SubSeq(down, 1, n)
        BY <2>3
      <3>2. Len(down) \in Nat /\ \A i \in 1..Len(down) : down[i] \in Packet
        BY LenProperties, ElementOfSeq DEF TypeOK
      <3>3. 1 \in Int /\ n \in Int /\ \A i \in 1..n : down[i] \in Packet
        BY <3>2, SMT
      <3>4. /\ Len(down') = IF 1 <= n THEN n - 1 + 1 ELSE 0
            /\ \A i \in 1..(n - 1 + 1) : down'[i] = down[1 + i - 1]
        BY <3>1, <3>3, SubSeqProperties
      <3>5. Len(down') = n
        BY <3>2, <3>4, SMT
      <3>6. j \in 1..(n - 1 + 1) /\ 1 + j - 1 \in 1..Len(down)
        BY <3>2, <3>5, SMT
      <3> QED
        BY <2>1, <3>4, <3>6
    <2>4. CASE down' = Append(down, P("CONNACK", Refused))
      <3>1. /\ Len(down') = Len(down) + 1 /\ Len(down) \in Nat
            /\ \A i \in 1..(Len(down) + 1) :
                 down'[i] = IF i <= Len(down) THEN down[i] ELSE P("CONNACK", Refused)
        BY <2>4, SMT DEF TypeOK
      <3>2. j <= Len(down) => j \in 1..Len(down)
        BY <3>1, SMT
      <3>3. Heard(P("CONNACK", Refused))
        BY DEF Heard
      <3> QED
        BY <2>1, <3>1, <3>2, <3>3
    <2>5. \/ down' = down \/ down' = Append(down, P("CONNACK", Refused))
          \/ \E n \in 0..Len(down) : down' = SubSeq(down, 1, n)
      BY <2>1 DEF Broker, BrokerConnects, BrokerAnswers, BrokerPublishes, BrokerSendsUnsupported,
                  BrokerCloses, Tcp, ConnectionReset, PeerVanishes
    <2> QED
      BY <2>2, <2>3, <2>4, <2>5
  <1> QED
    BY <1>4, <1>5, <1>8, <1>9

-----------------------------------------------------------------------------
(* The invariant and what follows from it *)

LEMMA InvariantInit == Init => IInv
  <1> SUFFICES ASSUME Init PROVE IInv
    OBVIOUS
  <1>1. Len(calls) = 0 /\ 1..Len(calls) = {} /\ 1..Len(down) = {} /\ DOMAIN up = {} /\ ~InCall
    BY EmptySeq, SMT DEF Init, InCall
  <1> QED
    BY <1>1, TypeInit
       DEF Init, IInv, CallsFitStage, ConnectionFitsStage, HeardBeforeSession, ReadBeforeSession,
           RequestsAfterConnack, ConnectFirst, PingsBeforeConnect

LEMMA InvariantStep == IInv /\ [Next]_vars => IInv'
  <1> SUFFICES ASSUME TypeOK, Fits, [Next]_vars PROVE TypeOK' /\ Fits'
    BY DEF IInv, Fits
  <1>1. TypeOK'
    BY TypeStep
  <1>2. CASE UNCHANGED vars
    BY <1>1, <1>2 DEF vars, client, pinger, history, Fits, CallsFitStage, ConnectionFitsStage,
                HeardBeforeSession, ReadBeforeSession, RequestsAfterConnack, ConnectFirst,
                PingsBeforeConnect, FirstOp, InCall, Heard, P
  <1>3. CASE ReceiveTask
    BY <1>1, <1>3, LoopKeeps, SendsKeep, ReadsKeep, FailuresKeep, AnswersKeep DEF ReceiveTask, LibraryStep
  <1>4. CASE PingTask \/ Clock
    BY <1>1, <1>4, PingAndClockKeep
  <1>5. CASE Broker \/ Tcp
    BY <1>1, <1>5, OutsideKeeps
  <1> QED
    BY <1>1, <1>2, <1>3, <1>4, <1>5 DEF Next

LEMMA Invariance == Spec => []IInv
  BY InvariantInit, InvariantStep, PTL DEF Spec

\* isconnected belongs to the connection at hand: no interleaving of the two tasks, failure
\* of a nested publish or loss of the connection leaves the flag over for another one.
THEOREM SessionCorrect == Spec => []SessionOnItsConnection
  <1>1. IInv => SessionOnItsConnection
    BY DEF IInv, ConnectionFitsStage, SessionOnItsConnection
  <1> QED
    BY <1>1, Invariance, PTL

\* The unlocked check of isconnected in mqtt_ping_task costs at most one packet ahead of
\* CONNECT per connection, however often the connection is lost and made again.
THEOREM StalePingsBounded == Spec => []AtMostOneStalePing
  <1>1. IInv => AtMostOneStalePing
    BY DEF IInv, PingsBeforeConnect, AtMostOneStalePing
  <1> QED
    BY <1>1, Invariance, PTL

\* No SUBSCRIBE, PUBLISH or acknowledgement is written before the broker accepted the
\* connection, not from a callback either.
THEOREM RequestsOrdered == Spec => []RequestsAfterConnack
  <1>1. IInv => RequestsAfterConnack
    BY DEF IInv
  <1> QED
    BY <1>1, Invariance, PTL

-----------------------------------------------------------------------------
(* The mutex *)

\* What a step may do to the calls: the stack loses calls, one at the top that is no publish
\* moves on, or it starts anew.
LEMMA ShrinkAtOnce ==
  ASSUME TypeOK, PublishesAtOnce, Shrinks
  PROVE  PublishesAtOnce'
  <1>1. Len(calls) \in Nat /\ Len(calls') \in Nat
    BY LenProperties DEF TypeOK, Shrinks
  <1>2. \A i \in 1..Len(calls') : i \in 1..Len(calls) /\ calls'[i] = calls[i]
    BY <1>1, SMT DEF Shrinks
  <1> QED
    BY <1>2 DEF PublishesAtOnce

LEMMA SetTopAtOnce ==
  ASSUME TypeOK, PublishesAtOnce, InCall, Top.op # "PUBLISH",
         NEW f \in Call, f.op = Top.op, f.at # "lock", SetTop(f)
  PROVE  PublishesAtOnce'
  <1>1. /\ Len(calls') = Len(calls)
        /\ \A i \in 1..Len(calls) : calls'[i] = IF i = Len(calls) THEN f ELSE calls[i]
    BY SetTopType DEF TypeOK, SetTop
  <1> QED
    BY <1>1 DEF PublishesAtOnce

LEMMA FreshAtOnce ==
  ASSUME NEW o \in Op, NEW i \in PacketId, calls' = <<NewCall(o, 0, i)>>
  PROVE  PublishesAtOnce'
  <1>1. /\ 1..Len(calls') = {1} /\ calls'[1].op = o /\ calls'[1].qos = 0
        /\ calls'[1].at = IF o = "YIELD" THEN "cycle" ELSE "send"
    BY SMT DEF NewCall
  <1> QED
    BY <1>1 DEF PublishesAtOnce

LEMMA EmptyAtOnce ==
  ASSUME calls' = <<>>
  PROVE  PublishesAtOnce'
  <1>1. 1..Len(calls') = {}
    BY EmptySeq, SMT
  <1> QED
    BY <1>1 DEF PublishesAtOnce

\* A publish is at its send(): a call at any other place is no publish.
LEMMA TopAtOnce ==
  ASSUME TypeOK, PublishesAtOnce, InCall
  PROVE  Top.at # "lock" /\ (Top.op = "PUBLISH" => Top.at = "send" /\ Top.qos = 0)
  <1>1. Len(calls) \in Nat \ {0}
    BY TopType DEF TypeOK
  <1>2. Len(calls) \in 1..Len(calls)
    BY <1>1, SMT
  <1> QED
    BY <1>2 DEF PublishesAtOnce, Top

\* A callback runs in MQTTYield, outside the mutex.
LEMMA ReplyUnlocked ==
  ASSUME IInv, PublishesAtOnce, HandlerAfterSuback, Reply
  PROVE  ~MutexHeld /\ Len(calls) = 1
  <1>1. InCall /\ Top.at = "cycle" /\ handler /\ isconnected
    BY DEF Reply, At
  <1>2. Top.op # "PUBLISH"
    BY <1>1, TopAtOnce DEF IInv
  <1>3. Top.op = (IF Len(calls) = 1 THEN FirstOp ELSE "PUBLISH")
    BY <1>1, TopFits DEF IInv
  <1>4. Len(calls) = 1 /\ Top.op = FirstOp
    BY <1>2, <1>3
  <1>5. stage \notin {"subscribe", "connect", "online"}
    BY <1>1, <1>2, <1>4 DEF HandlerAfterSuback, FirstOp
  <1>6. Top.op = "YIELD"
    BY <1>4, <1>5 DEF FirstOp
  <1>7. 1..Len(calls) = {1} /\ calls[1].op = "YIELD"
    BY <1>4, <1>6, SMT DEF Top
  <1> QED
    BY <1>4, <1>7 DEF MutexHeld

\* One call nested in another.
LEMMA NestOne ==
  ASSUME NEW b \in Seq(Call), Len(b) = 1, NEW c \in Call
  PROVE  /\ 1..Len(Append(b, c)) = {1, 2}
         /\ Append(b, c)[1] = b[1] /\ Append(b, c)[2] = c
  <1>1. /\ Len(Append(b, c)) = Len(b) + 1
        /\ \A i \in 1..Len(b) : Append(b, c)[i] = b[i]
        /\ Append(b, c)[Len(b) + 1] = c
    BY AppendProperties
  <1>2. 1..2 = {1, 2} /\ 1 \in 1..1 /\ 1 + 1 = 2
    BY SMT
  <1> QED
    BY <1>1, <1>2

LEMMA PairAtOnce ==
  ASSUME 1..Len(calls') = {1, 2}, calls'[1].at # "lock", calls'[1].op # "PUBLISH",
         calls'[2].at = "send", calls'[2].qos = 0
  PROVE  PublishesAtOnce'
  BY DEF PublishesAtOnce

LEMMA AtOnceStep ==
  ASSUME IInv, PublishesAtOnce, HandlerAfterSuback, ReplyQos \subseteq {0}, [Next]_vars
  PROVE  PublishesAtOnce'
  <1> USE DEF IInv
  <1>1. ASSUME UNCHANGED calls PROVE PublishesAtOnce'
    BY <1>1 DEF PublishesAtOnce
  <1>2. CASE UNCHANGED vars \/ PingTask \/ Broker \/ Tcp \/ KeepaliveTimeout \/ PingTimeout
               \/ Configure \/ NetworkConnect \/ Disconnect
    BY <1>1, <1>2 DEF vars, PingTask, PingCheck, PingWrite, KeepaliveTimeout, PingTimeout, Broker,
         BrokerConnects, BrokerAnswers, BrokerPublishes, BrokerSendsUnsupported, BrokerCloses, Tcp,
         ConnectionReset, PeerVanishes, Configure, NetworkConnect, Disconnect
  <1>3. CASE MQTTClientInit \/ MQTTSubscribe \/ PublishOnline \/ MQTTYield
    <2>1. 0 \in PacketId /\ getNextPacketId \in PacketId
      BY PacketIdAssumption, SMT DEF TypeOK, getNextPacketId, PacketId
    <2>2. \/ UNCHANGED calls
          \/ \E o \in Op, i \in PacketId : calls' = <<NewCall(o, 0, i)>>
      BY <1>3, <2>1 DEF MQTTClientInit, MQTTSubscribe, PublishOnline, MQTTYield, Op
    <2> QED
      BY <1>1, <2>2, FreshAtOnce
  <1>4. CASE SendRequest
    <2>1. InCall /\ Top \in Call
      BY <1>4, TopType DEF SendRequest, At, TypeOK
    <2>2. CASE Top.op = "PUBLISH"
      <3>1. Published
        BY <1>4, <2>1, <2>2, TopAtOnce DEF SendRequest
      <3> QED
        BY <2>1, <2>2, <3>1, PublishedShrinks, ShrinkAtOnce
    <2>3. CASE Top.op # "PUBLISH"
      <3>1. Goto("test")
        BY <1>4, <2>3 DEF SendRequest
      <3>2. /\ [Top EXCEPT !.at = "test"] \in Call /\ [Top EXCEPT !.at = "test"].op = Top.op
            /\ [Top EXCEPT !.at = "test"].at = "test"
        BY <2>1 DEF Call
      <3> QED
        BY <2>1, <2>3, <3>1, <3>2, SetTopAtOnce DEF Goto
    <2> QED
      BY <2>2, <2>3
  <1>5. CASE SendRequestFails \/ ReceiveFails \/ SendAckFails \/ KeepaliveFails \/ GiveUp
    <2>1. InCall /\ Fails
      BY <1>5 DEF SendRequestFails, ReceiveFails, SendAckFails, KeepaliveFails, GiveUp, At
    <2> QED
      BY <2>1, FailsShrinks, ShrinkAtOnce
  <1>6. CASE Receive \/ ReceiveEof \/ SendAck \/ KeepaliveQuiet \/ KeepalivePing \/ NextCycle
    <2>1. InCall /\ Top.at # "send"
      BY <1>6 DEF Receive, ReceiveEof, SendAck, KeepaliveQuiet, KeepalivePing, NextCycle, At
    <2>2. Top \in Call /\ Top.op # "PUBLISH"
      BY <2>1, TopAtOnce, TopType DEF TypeOK
    <2>3. PICK f \in Call : f.op = Top.op /\ f.at # "lock" /\ SetTop(f)
      <3>1. CASE Receive
        <4>1. Head(down) \in Packet /\ SetTop(After(Head(down)))
          BY <3>1, ChannelTypes DEF Receive, TypeOK
        <4>2. After(Head(down)) \in Call /\ After(Head(down)).op = Top.op
          BY <2>1, <4>1, AfterKeeps
        <4>3. After(Head(down)).at # "lock"
          BY <2>2 DEF After, Call
        <4> QED
          BY <4>1, <4>2, <4>3
      <3>2. CASE ReceiveEof
        BY <2>2, <3>2, Zenon DEF ReceiveEof, Call
      <3>3. CASE SendAck \/ KeepaliveQuiet \/ KeepalivePing
        <4>1. PICK s \in {"keepalive", "test"} : Goto(s)
          BY <3>3 DEF SendAck, KeepaliveQuiet, KeepalivePing
        <4>2. [Top EXCEPT !.at = s] \in Call /\ [Top EXCEPT !.at = s].op = Top.op
              /\ [Top EXCEPT !.at = s].at = s
          BY <2>2 DEF Call
        <4> QED
          BY <4>1, <4>2 DEF Goto
      <3>4. CASE NextCycle
        BY <2>2, <3>4, Zenon DEF NextCycle, Call
      <3> QED
        BY <1>6, <3>1, <3>2, <3>3, <3>4
    <2> QED
      BY <2>1, <2>2, <2>3, SetTopAtOnce
  <1>7. CASE Reply
    <2>1. PICK q \in ReplyQos :
            calls' = Append([calls EXCEPT ![Len(calls)] = After(Head(down))], Nested(q))
      BY <1>7 DEF Reply
    <2>2. q = 0 /\ Len(calls) = 1 /\ InCall /\ Nested(q) \in Call /\ Nested(q).op = "PUBLISH"
          /\ Nested(q).qos = 0 /\ Nested(q).at = "send"
      BY <1>7, ReplyUnlocked, NestedType DEF Reply, At
    <2>3. Head(down) \in Packet
      BY <1>7, ChannelTypes DEF Reply, TypeOK
    <2>4. Top \in Call /\ Top.op # "PUBLISH" /\ After(Head(down)) \in Call
          /\ After(Head(down)).op = Top.op
      BY <1>7, <2>2, <2>3, TopAtOnce, TopType, AfterKeeps DEF TypeOK, Reply, At
    <2>5. After(Head(down)).at # "lock"
      BY <2>4 DEF After, Call
    <2> DEFINE base == [calls EXCEPT ![Len(calls)] = After(Head(down))]
    <2>6. base \in Seq(Call) /\ Len(base) = 1 /\ base[1] = After(Head(down))
      BY <2>2, <2>4, SetTopType DEF TypeOK
    <2>7. 1..Len(calls') = {1, 2} /\ calls'[1] = base[1] /\ calls'[2] = Nested(q)
      <3>1. calls' = Append(base, Nested(q)) /\ Nested(q) \in Call
        BY <2>1, <2>2
      <3> QED
        BY <2>6, <3>1, NestOne
    <2> HIDE DEF base
    <2>8. calls'[1].at # "lock" /\ calls'[1].op # "PUBLISH"
      BY <2>4, <2>5, <2>6, <2>7
    <2>9. calls'[2].at = "send" /\ calls'[2].qos = 0
      BY <2>2, <2>7
    <2> QED
      BY <2>7, <2>8, <2>9, PairAtOnce
  <1>8. CASE ConnackAccepted \/ Suback
    BY <1>8, EmptyAtOnce DEF ConnackAccepted, Suback
  <1>9. CASE PublishAcked
    <2>1. InCall /\ Top.op = "PUBLISH" /\ Published
      BY <1>9 DEF PublishAcked, At
    <2> QED
      BY <2>1, PublishedShrinks, ShrinkAtOnce
  <1>10. CASE CallTimeout
    <2>1. PICK i \in DOMAIN calls : calls' = [calls EXCEPT ![i].late = TRUE]
      BY <1>10 DEF CallTimeout
    <2>2. i \in 1..Len(calls) /\ calls[i] \in Call
      BY LenProperties, ElementOfSeq DEF TypeOK
    <2>3. [calls[i] EXCEPT !.late = TRUE] \in Call
      BY <2>2, Zenon DEF Call
    <2>4. calls' = [calls EXCEPT ![i] = [calls[i] EXCEPT !.late = TRUE]]
      BY <2>1, Zenon
    <2>5. /\ Len(calls') = Len(calls)
          /\ \A j \in 1..Len(calls) :
               calls'[j] = IF j = i THEN [calls[i] EXCEPT !.late = TRUE] ELSE calls[j]
      BY <2>2, <2>3, <2>4, ExceptSeq DEF TypeOK
    <2>6. \A j \in 1..Len(calls) : /\ calls'[j].op = calls[j].op /\ calls'[j].qos = calls[j].qos
                                   /\ calls'[j].at = calls[j].at
      BY <2>2, <2>5 DEF Call
    <2> QED
      BY <2>5, <2>6 DEF PublishesAtOnce
  <1> QED
    BY <1>2, <1>3, <1>4, <1>5, <1>6, <1>7, <1>8, <1>9, <1>10
       DEF Next, ReceiveTask, LibraryStep, Clock

LEMMA HandlerStep ==
  ASSUME IInv, IInv', HandlerAfterSuback, [Next]_vars
  PROVE  HandlerAfterSuback'
  <1> USE DEF IInv
  <1>1. CASE Suback
    BY <1>1 DEF Suback, HandlerAfterSuback
  <1>2. CASE MQTTClientInit
    BY <1>2 DEF MQTTClientInit, HandlerAfterSuback
  <1>3. CASE ConnackAccepted
    <2>1. stage = "connect" /\ InCall /\ handler' = handler /\ stage' = "subscribe"
      BY <1>3, TopFits DEF ConnackAccepted, At
    <2> QED
      BY <2>1 DEF HandlerAfterSuback
  <1>4. ASSUME handler' => handler, stage' = stage \/ stage' \notin {"connect", "subscribe"},
               InCall' => InCall \/ stage' # "connect"
        PROVE  HandlerAfterSuback'
    BY <1>4 DEF HandlerAfterSuback
  <1>5. CASE NetworkConnect
    <2>1. ~InCall /\ calls' = calls
      BY <1>5 DEF NetworkConnect, CallsFitStage
    <2> QED
      BY <1>5, <2>1 DEF NetworkConnect, HandlerAfterSuback, InCall
  <1>6. CASE UNCHANGED vars \/ PingTask \/ Broker \/ Tcp \/ KeepaliveTimeout \/ PingTimeout
               \/ Configure \/ Disconnect
    <2>1. handler' = handler /\ calls' = calls /\ (stage' = stage \/ stage' \in {"netconnect", "config"})
      BY <1>6 DEF vars, client, PingTask, PingCheck, PingWrite, KeepaliveTimeout, PingTimeout, Broker,
         BrokerConnects, BrokerAnswers, BrokerPublishes, BrokerSendsUnsupported, BrokerCloses, Tcp,
         ConnectionReset, PeerVanishes, Configure, Disconnect
    <2> QED
      BY <1>4, <2>1 DEF InCall
  <1>7. CASE MQTTSubscribe \/ PublishOnline \/ MQTTYield
    <2>1. handler' = handler /\ (stage' = stage \/ stage' = "yield")
          /\ stage # "connect" /\ stage' # "connect"
      BY <1>7 DEF MQTTSubscribe, PublishOnline, MQTTYield, client
    <2> QED
      BY <1>4, <2>1
  <1>8. CASE SendRequestFails \/ ReceiveFails \/ SendAckFails \/ KeepaliveFails \/ GiveUp
    <2>1. InCall /\ Fails
      BY <1>8 DEF SendRequestFails, ReceiveFails, SendAckFails, KeepaliveFails, GiveUp, At
    <2>2. Shrinks
      BY <2>1, FailsShrinks
    <2>3. handler' => handler
      BY <2>1 DEF Fails, MQTTCloseSession, client
    <2> QED
      BY <1>4, <2>1, <2>2, <2>3 DEF Shrinks
  <1>9. CASE SendRequest \/ SendAck \/ KeepalivePing \/ Receive \/ Reply \/ ReceiveEof
               \/ KeepaliveQuiet \/ PublishAcked \/ NextCycle \/ CallTimeout
    <2>1. (handler' => handler) /\ (stage' = stage \/ stage' = "yield")
      <3>1. CASE Receive
        <4>1. stage' = stage
          BY <3>1 DEF Receive
        <4>2. handler' => handler
          BY <3>1, Zenon DEF Receive, MQTTCloseSession, client
        <4> QED
          BY <4>1, <4>2
      <3>2. CASE SendRequest
        BY <3>2 DEF SendRequest, Published, client
      <3>3. CASE SendAck \/ KeepalivePing \/ Reply \/ ReceiveEof \/ KeepaliveQuiet
                 \/ PublishAcked \/ NextCycle \/ CallTimeout
        BY <3>3 DEF SendAck, KeepalivePing, Reply, ReceiveEof, KeepaliveQuiet, PublishAcked,
                    NextCycle, CallTimeout, Published, client
      <3> QED
        BY <1>9, <3>1, <3>2, <3>3
    <2>2. InCall
      <3>1. CASE CallTimeout
        <4>1. DOMAIN calls # {}
          BY <3>1 DEF CallTimeout
        <4> QED
          BY <4>1, EmptySeq, SMT DEF InCall
      <3>2. CASE ~CallTimeout
        BY <1>9, <3>2 DEF SendRequest, SendAck, KeepalivePing, Receive, Reply, ReceiveEof,
                          KeepaliveQuiet, PublishAcked, NextCycle, At
      <3> QED
        BY <3>1, <3>2
    <2> QED
      BY <1>4, <2>1, <2>2
  <1> QED
    BY <1>1, <1>2, <1>3, <1>5, <1>6, <1>7, <1>8, <1>9 DEF Next, ReceiveTask, LibraryStep, Clock

\* With replies of QoS 0, the receive task never waits for the mutex it holds, whatever the
\* broker sends and wherever a message arrives; a reply of QoS 1 or 2 lets it happen.
THEOREM NoSelfWait == ReplyQos \subseteq {0} => (Spec => []NeverWaitsForItself)
  <1> SUFFICES ASSUME ReplyQos \subseteq {0} PROVE Spec => []NeverWaitsForItself
    OBVIOUS
  <1>1. Init => PublishesAtOnce /\ HandlerAfterSuback
    <2>1. Init => 1..Len(calls) = {}
      BY EmptySeq, SMT DEF Init
    <2> QED
      BY <2>1 DEF Init, PublishesAtOnce, HandlerAfterSuback
  <1>2. IInv /\ IInv' /\ PublishesAtOnce /\ HandlerAfterSuback /\ [Next]_vars
          => PublishesAtOnce' /\ HandlerAfterSuback'
    BY AtOnceStep, HandlerStep
  <1>3. PublishesAtOnce => NeverWaitsForItself
    BY DEF PublishesAtOnce, NeverWaitsForItself
  <1> QED
    BY <1>1, <1>2, <1>3, Invariance, PTL DEF Spec

-----------------------------------------------------------------------------
(* How deep calls nest *)

LEMMA SmallNumbers ==
  /\ \A n \in Nat \ {0} : n <= 3 /\ n # 3 => n \in {1, 2}
  /\ \A n \in {0, 1, 2} : n <= 3 /\ n # 3
  BY SMT

LEMMA ShrinkNest ==
  ASSUME TypeOK, InCall, AtMostThreeCalls, Shrinks
  PROVE  AtMostThreeCalls'
  <1>1. Len(calls) \in Nat /\ Len(calls') \in Nat /\ Len(calls') < Len(calls) /\ Len(calls) <= 3
    BY LenProperties DEF TypeOK, Shrinks, AtMostThreeCalls
  <1>2. Len(calls') <= 3 /\ Len(calls') # 3
    BY <1>1, SMT
  <1> QED
    BY <1>2 DEF AtMostThreeCalls

\* Three calls do not run on: only the innermost one could.
LEMMA SetTopNest ==
  ASSUME TypeOK, InCall, AtMostThreeCalls, Top.at # "lock", NEW f \in Call, SetTop(f)
  PROVE  AtMostThreeCalls'
  <1>1. Len(calls') = Len(calls)
    BY SetTopType DEF TypeOK, SetTop
  <1> QED
    BY <1>1 DEF AtMostThreeCalls

\* Of two calls one is a publish, and holds the mutex.
LEMMA ReplyNest ==
  ASSUME TypeOK, CallsFitStage, AtMostThreeCalls, Reply
  PROVE  AtMostThreeCalls'
  <1>1. InCall /\ Top.at = "cycle" /\ down # <<>>
    BY DEF Reply, At
  <1>2. Len(calls) \in {1, 2}
    <2>1. Len(calls) \in Nat \ {0} /\ Len(calls) <= 3 /\ Len(calls) # 3
      BY <1>1, TopType DEF TypeOK, AtMostThreeCalls
    <2> QED
      BY <2>1, SmallNumbers, Zenon
  <1>3. PICK q \in ReplyQos :
          calls' = Append([calls EXCEPT ![Len(calls)] = After(Head(down))], Nested(q))
    BY DEF Reply
  <1> DEFINE base == [calls EXCEPT ![Len(calls)] = After(Head(down))]
  <1>4. base \in Seq(Call) /\ Len(base) = Len(calls)
    <2>1. Head(down) \in Packet
      BY <1>1, ChannelTypes DEF TypeOK
    <2>2. After(Head(down)) \in Call
      BY <1>1, <2>1, AfterKeeps
    <2> QED
      BY <1>1, <2>2, SetTopType DEF TypeOK
  <1>5. Nested(q) \in Call /\ (MutexHeld => Nested(q).at = "lock")
    BY NestedType
  <1>6. calls' = Append(base, Nested(q))
    BY <1>3
  <1> HIDE DEF base
  <1>7. Len(calls') = Len(calls) + 1 /\ calls'[Len(calls) + 1] = Nested(q)
    BY <1>4, <1>5, <1>6, AppendProperties
  <1>8. CASE Len(calls) = 1
    <2>1. Len(calls') = 2
      BY <1>7, <1>8, SMT
    <2> QED
      BY <2>1, SMT DEF AtMostThreeCalls
  <1>9. CASE Len(calls) = 2
    <2>1. 2 \in 1..Len(calls) /\ Len(calls') = 3
      BY <1>7, <1>9, SMT
    <2>2. calls[2].op = "PUBLISH"
      BY <2>1 DEF CallsFitStage
    <2>3. MutexHeld
      BY <2>1, <2>2 DEF MutexHeld
    <2>4. Top'.at = "lock"
      BY <1>5, <1>7, <2>3 DEF Top
    <2> QED
      BY <2>1, <2>4, SMT DEF AtMostThreeCalls
  <1> QED
    BY <1>2, <1>8, <1>9

LEMMA NestStep ==
  ASSUME IInv, AtMostThreeCalls, [Next]_vars
  PROVE  AtMostThreeCalls'
  <1> USE DEF IInv
  <1>1. ASSUME UNCHANGED calls PROVE AtMostThreeCalls'
    BY <1>1 DEF AtMostThreeCalls, Top
  <1>2. CASE UNCHANGED vars \/ PingTask \/ Broker \/ Tcp \/ KeepaliveTimeout \/ PingTimeout
               \/ Configure \/ NetworkConnect \/ Disconnect
    BY <1>1, <1>2 DEF vars, PingTask, PingCheck, PingWrite, KeepaliveTimeout, PingTimeout, Broker,
         BrokerConnects, BrokerAnswers, BrokerPublishes, BrokerSendsUnsupported, BrokerCloses, Tcp,
         ConnectionReset, PeerVanishes, Configure, NetworkConnect, Disconnect
  <1>3. ASSUME Len(calls') \in {0, 1} PROVE AtMostThreeCalls'
    BY <1>3, SmallNumbers, Zenon DEF AtMostThreeCalls
  <1>4. CASE MQTTClientInit \/ MQTTSubscribe \/ PublishOnline \/ MQTTYield
    <2>1. UNCHANGED calls \/ \E c : calls' = <<c>>
      BY <1>4 DEF MQTTClientInit, MQTTSubscribe, PublishOnline, MQTTYield
    <2>2. ASSUME NEW c, calls' = <<c>> PROVE Len(calls') \in {0, 1}
      BY <2>2, SMT
    <2> QED
      BY <1>1, <1>3, <2>1, <2>2
  <1>5. CASE ConnackAccepted \/ Suback
    <2>1. calls' = <<>>
      BY <1>5 DEF ConnackAccepted, Suback
    <2>2. Len(calls') = 0
      BY <2>1, SMT
    <2> QED
      BY <1>3, <2>2
  <1>6. CASE SendRequestFails \/ ReceiveFails \/ SendAckFails \/ KeepaliveFails \/ GiveUp
    <2>1. InCall /\ Fails
      BY <1>6 DEF SendRequestFails, ReceiveFails, SendAckFails, KeepaliveFails, GiveUp, At
    <2> QED
      BY <2>1, FailsShrinks, ShrinkNest
  <1>7. CASE PublishAcked \/ (SendRequest /\ Published)
    <2>1. InCall /\ Published
      BY <1>7 DEF PublishAcked, SendRequest, At
    <2>2. Len(calls) \in Nat \ {0} /\ Len(calls') = Len(calls) - 1 /\ Len(calls) <= 3
      BY <2>1, TopType, PoppedType DEF TypeOK, Published, AtMostThreeCalls
    <2>3. Len(calls') <= 3 /\ Len(calls') # 3
      BY <2>2, SMT
    <2> QED
      BY <2>3 DEF AtMostThreeCalls
  <1>8. CASE Receive \/ ReceiveEof \/ SendAck \/ KeepaliveQuiet \/ KeepalivePing \/ NextCycle
               \/ (SendRequest /\ ~Published)
    <2>1. InCall /\ Top.at # "lock"
      BY <1>8 DEF Receive, ReceiveEof, SendAck, KeepaliveQuiet, KeepalivePing, NextCycle,
                  SendRequest, At
    <2>2. Top \in Call
      BY <2>1, TopType DEF TypeOK
    <2>3. PICK f \in Call : SetTop(f)
      <3>1. CASE Receive
        <4>1. Head(down) \in Packet /\ SetTop(After(Head(down)))
          BY <3>1, ChannelTypes DEF Receive, TypeOK
        <4> QED
          BY <2>1, <4>1, AfterKeeps
      <3>2. CASE ReceiveEof
        BY <2>2, <3>2, Zenon DEF ReceiveEof, Call
      <3>3. CASE SendAck \/ KeepaliveQuiet \/ KeepalivePing \/ (SendRequest /\ ~Published)
        <4>1. PICK s \in {"keepalive", "test"} : Goto(s)
          BY <3>3 DEF SendAck, KeepaliveQuiet, KeepalivePing, SendRequest
        <4>2. [Top EXCEPT !.at = s] \in Call
          BY <2>2 DEF Call
        <4> QED
          BY <4>1, <4>2 DEF Goto
      <3>4. CASE NextCycle
        BY <2>2, <3>4, Zenon DEF NextCycle, Call
      <3> QED
        BY <1>8, <3>1, <3>2, <3>3, <3>4
    <2> QED
      BY <2>1, <2>3, SetTopNest
  <1>9. CASE Reply
    BY <1>9, ReplyNest
  <1>10. CASE CallTimeout
    <2>1. PICK i \in DOMAIN calls : calls' = [calls EXCEPT ![i].late = TRUE]
      BY <1>10 DEF CallTimeout
    <2>2. i \in 1..Len(calls) /\ calls[i] \in Call
      BY LenProperties, ElementOfSeq DEF TypeOK
    <2>3. [calls[i] EXCEPT !.late = TRUE] \in Call
      BY <2>2, Zenon DEF Call
    <2>4. calls' = [calls EXCEPT ![i] = [calls[i] EXCEPT !.late = TRUE]]
      BY <2>1, Zenon
    <2>5. /\ Len(calls') = Len(calls)
          /\ \A j \in 1..Len(calls) :
               calls'[j] = IF j = i THEN [calls[i] EXCEPT !.late = TRUE] ELSE calls[j]
      BY <2>2, <2>3, <2>4, ExceptSeq DEF TypeOK
    <2>6. ASSUME Len(calls) = 3 PROVE Top'.at = "lock"
      <3>1. 3 \in 1..Len(calls) /\ calls[3].at = "lock" /\ Top' = calls'[3]
        BY <2>5, <2>6 DEF AtMostThreeCalls, Top
      <3>2. calls[3] \in Call
        BY <3>1, ElementOfSeq DEF TypeOK
      <3> QED
        BY <2>5, <3>1, <3>2 DEF Call
    <2> QED
      BY <2>5, <2>6 DEF AtMostThreeCalls
  <1> QED
    BY <1>2, <1>4, <1>5, <1>6, <1>7, <1>8, <1>9, <1>10
       DEF Next, ReceiveTask, LibraryStep, Clock

\* Whatever QoS messages and replies have, and however many come: on the stack of the receive task
\* are never more than three calls of the library, and the third, if there is one, waits for the
\* mutex.
THEOREM NestingBounded == Spec => []AtMostThreeCalls
  <1>1. Init => AtMostThreeCalls
    <2>1. Init => Len(calls) = 0
      BY SMT DEF Init
    <2> QED
      BY <2>1, SMT DEF AtMostThreeCalls
  <1>2. IInv /\ AtMostThreeCalls /\ [Next]_vars => AtMostThreeCalls'
    BY NestStep
  <1> QED
    BY <1>1, <1>2, Invariance, PTL DEF Spec

-----------------------------------------------------------------------------
(* The ping of keepalive() *)

LEMMA AppendFlight ==
  ASSUME NEW s \in Seq(Packet), NEW p \in Packet, NEW t
  PROVE  InFlight(s, t) \/ p.type = t => InFlight(Append(s, p), t)
  <1>1. /\ Append(s, p) \in Seq(Packet) /\ Len(Append(s, p)) = Len(s) + 1 /\ Len(s) \in Nat
        /\ \A i \in 1..Len(s) : Append(s, p)[i] = s[i]
        /\ Append(s, p)[Len(s) + 1] = p
    BY AppendProperties, LenProperties
  <1>2. DOMAIN Append(s, p) = 1..(Len(s) + 1) /\ DOMAIN s = 1..Len(s)
    BY <1>1, LenProperties
  <1>3. 1..Len(s) \subseteq 1..(Len(s) + 1) /\ Len(s) + 1 \in 1..(Len(s) + 1)
    BY <1>1
  <1> QED
    BY <1>1, <1>2, <1>3 DEF InFlight

LEMMA ConcatFlight ==
  ASSUME NEW s \in Seq(Packet), NEW a \in Seq(Packet), NEW t
  PROVE  InFlight(s, t) \/ InFlight(a, t) => InFlight(s \o a, t)
  <1>1. /\ s \o a \in Seq(Packet) /\ Len(s \o a) = Len(s) + Len(a) /\ Len(s) \in Nat /\ Len(a) \in Nat
        /\ \A i \in 1..Len(s) + Len(a) : (s \o a)[i] = IF i <= Len(s) THEN s[i] ELSE a[i - Len(s)]
    BY ConcatProperties, LenProperties
  <1>2. /\ DOMAIN (s \o a) = 1..(Len(s) + Len(a))
        /\ DOMAIN s = 1..Len(s) /\ DOMAIN a = 1..Len(a)
    BY <1>1, LenProperties
  <1>3. ASSUME NEW i \in 1..Len(s) PROVE i \in 1..(Len(s) + Len(a)) /\ (s \o a)[i] = s[i]
    BY <1>1
  <1>4. ASSUME NEW i \in 1..Len(a)
        PROVE  Len(s) + i \in 1..(Len(s) + Len(a)) /\ (s \o a)[Len(s) + i] = a[i]
    <2>1. Len(s) + i \in 1..(Len(s) + Len(a)) /\ ~(Len(s) + i <= Len(s)) /\ (Len(s) + i) - Len(s) = i
      BY <1>1
    <2> QED
      BY <1>1, <2>1
  <1> QED
    BY <1>2, <1>3, <1>4 DEF InFlight

\* Whatever is taken from a channel, if it is of another type.
LEMMA TailFlight ==
  ASSUME NEW s \in Seq(Packet), s # <<>>, NEW t, Head(s).type # t
  PROVE  InFlight(s, t) => InFlight(Tail(s), t)
  <1> SUFFICES ASSUME InFlight(s, t) PROVE InFlight(Tail(s), t)
    OBVIOUS
  <1>1. /\ Tail(s) \in Seq(Packet) /\ Len(Tail(s)) = Len(s) - 1 /\ Len(s) \in Nat
        /\ \A i \in 1..Len(Tail(s)) : Tail(s)[i] = s[i + 1]
    BY HeadTailProperties, LenProperties
  <1>2. DOMAIN Tail(s) = 1..Len(Tail(s)) /\ DOMAIN s = 1..Len(s)
    BY <1>1, LenProperties
  <1>3. PICK i \in 1..Len(s) : s[i].type = t
    BY <1>2 DEF InFlight
  <1>4. i # 1
    <2>1. Head(s) = s[1]
      OBVIOUS
    <2> QED
      BY <1>3, <2>1
  <1>5. i - 1 \in 1..Len(Tail(s)) /\ (i - 1) + 1 = i
    BY <1>1, <1>4
  <1> QED
    BY <1>1, <1>2, <1>3, <1>5 DEF InFlight

\* A write leaves what is under way, and adds its packet.
LEMMA WriteFlight ==
  ASSUME TypeOK, NEW p \in Packet, Write(p)
  PROVE  InFlight(up, "PINGREQ") \/ p.type = "PINGREQ" => InFlight(up, "PINGREQ")'
  <1>1. up \in Seq(Packet) /\ up' = Append(up, p)
    BY DEF TypeOK, Write
  <1>2. InFlight(up', "PINGREQ") <=> InFlight(up, "PINGREQ")'
    BY DEF InFlight
  <1> QED
    BY <1>1, <1>2, AppendFlight

\* What is under way stays so, and no other ping becomes outstanding.
LEMMA FollowedKept ==
  ASSUME PingFollowed, ping_outstanding' => ping_outstanding,
         InSession' => InSession, Alive' => Alive,
         InFlight(up, "PINGREQ") => InFlight(up, "PINGREQ")' \/ InFlight(down, "PINGRESP")',
         InFlight(down, "PINGRESP") => InFlight(down, "PINGRESP")' \/ ~ping_outstanding'
  PROVE  PingFollowed'
  BY DEF PingFollowed

\* The innermost call fails: the session is closed, or left for good.
LEMMA FailsFollowed ==
  ASSUME IInv, InCall, Fails
  PROVE  PingFollowed'
  <1>1. CASE Top.op = "PUBLISH"
    BY <1>1 DEF Fails, MQTTCloseSession, PingFollowed
  <1>2. CASE Top.op # "PUBLISH"
    <2>1. calls' = <<>> /\ stage' = "close"
      BY <1>2 DEF Fails
    <2> QED
      BY <2>1 DEF PingFollowed, InSession, InCall
  <1> QED
    BY <1>1, <1>2

LEMMA LoopFollowed ==
  ASSUME IInv, PingFollowed,
         Configure \/ NetworkConnect \/ MQTTClientInit \/ MQTTSubscribe \/ PublishOnline
           \/ MQTTYield \/ Disconnect
  PROVE  PingFollowed'
  <1>1. CASE Configure \/ NetworkConnect \/ Disconnect
    <2>1. stage \in {"config", "netconnect", "close"} /\ stage' \in {"netconnect", "connect", "config"}
          /\ calls' = calls
      BY <1>1 DEF Configure, NetworkConnect, Disconnect
    <2>2. ~InCall
      BY <2>1 DEF IInv, CallsFitStage
    <2> QED
      BY <2>1, <2>2 DEF PingFollowed, InSession, InCall
  <1>2. CASE MQTTClientInit
    BY <1>2 DEF MQTTClientInit, PingFollowed
  <1>3. CASE MQTTSubscribe \/ PublishOnline \/ MQTTYield
    <2>1. InSession /\ UNCHANGED <<ping_outstanding, link, eof, up, down>>
      BY <1>3 DEF MQTTSubscribe, PublishOnline, MQTTYield, client, InSession
    <2> QED
      BY <2>1 DEF PingFollowed, Alive, InFlight
  <1> QED
    BY <1>1, <1>2, <1>3

LEMMA CallFollowed ==
  ASSUME IInv, PingFollowed, InCall,
         SendRequest \/ SendAck \/ KeepalivePing \/ Receive \/ Reply \/ ReceiveEof \/ KeepaliveQuiet
           \/ ConnackAccepted \/ Suback \/ PublishAcked \/ NextCycle
  PROVE  PingFollowed'
  <1> up \in Seq(Packet) /\ down \in Seq(Packet) /\ InSession
    BY DEF IInv, TypeOK, InSession
  <1>1. CASE SendRequest \/ SendAck
    <2>1. UNCHANGED <<ping_outstanding, link, eof, down>>
      BY <1>1 DEF SendRequest, SendAck, client
    <2>2. \E p \in Packet : Write(p)
      <3>1. CASE SendRequest
        <4>1. Top \in Call /\ Top.op # "YIELD" /\ Write(Request(Top))
          BY <3>1, TopType DEF SendRequest, IInv, TypeOK
        <4> QED
          BY <4>1, ConstantTypes
      <3>2. CASE SendAck
        <4>1. Top \in Call /\ Write(Ack(Top.got))
          BY <3>2, TopType DEF SendAck, IInv, TypeOK
        <4>2. Top.got \in Packet \cup {Nothing, TimedOut}
          BY <4>1 DEF Call
        <4> QED
          BY <4>1, <4>2, ConstantTypes
      <3> QED
        BY <1>1, <3>1, <3>2
    <2>3. InFlight(up, "PINGREQ") => InFlight(up, "PINGREQ")'
      BY <2>2, WriteFlight DEF IInv
    <2> QED
      BY <2>1, <2>3, FollowedKept DEF Alive, InFlight
  <1>2. CASE KeepalivePing
    <2>1. P("PINGREQ", 0) \in Packet /\ P("PINGREQ", 0).type = "PINGREQ"
      BY ConstantTypes DEF PacketType, P
    <2>2. InFlight(up, "PINGREQ")'
      BY <1>2, <2>1, WriteFlight DEF KeepalivePing, IInv
    <2> QED
      BY <2>2 DEF PingFollowed
  <1>3. CASE Receive
    <2>1. down # <<>> /\ down' = Tail(down) /\ UNCHANGED <<link, eof, up>>
      BY <1>3 DEF Receive
    <2>2. CASE Head(down).type = "PINGRESP"
      BY <1>3, <2>2 DEF Receive, PingFollowed
    <2>3. CASE Head(down).type # "PINGRESP"
      <3>1. ping_outstanding' => ping_outstanding
        BY <1>3, <2>3 DEF Receive, MQTTCloseSession, client
      <3>2. InFlight(down, "PINGRESP") => InFlight(down', "PINGRESP")
        BY <2>1, <2>3, TailFlight
      <3> QED
        BY <2>1, <3>1, <3>2, FollowedKept DEF Alive, InFlight
    <2> QED
      BY <2>2, <2>3
  <1>4. CASE Reply
    <2>1. down # <<>> /\ down' = Tail(down) /\ Head(down).type = "PUBLISH"
          /\ UNCHANGED <<link, eof, up, ping_outstanding>>
      BY <1>4 DEF Reply, client
    <2>2. InFlight(down, "PINGRESP") => InFlight(down', "PINGRESP")
      BY <2>1, TailFlight
    <2> QED
      BY <2>1, <2>2, FollowedKept DEF Alive, InFlight
  <1>5. CASE ReceiveEof \/ ConnackAccepted
    BY <1>5 DEF ReceiveEof, ConnackAccepted, PingFollowed, Alive
  <1>6. CASE KeepaliveQuiet \/ Suback \/ PublishAcked \/ NextCycle
    <2>1. UNCHANGED <<ping_outstanding, link, eof, up, down>>
      BY <1>6 DEF KeepaliveQuiet, Suback, PublishAcked, NextCycle, client
    <2> QED
      BY <2>1, FollowedKept DEF Alive, InFlight
  <1> QED
    BY <1>1, <1>2, <1>3, <1>4, <1>5, <1>6

LEMMA PingAndClockFollowed ==
  ASSUME IInv, PingFollowed, PingTask \/ Clock
  PROVE  PingFollowed'
  <1>1. CASE PingWrite
    <2>1. UNCHANGED <<stage, calls, ping_outstanding, link, eof, down>>
      BY <1>1 DEF PingWrite, client
    <2>2. InFlight(up, "PINGREQ") => InFlight(up, "PINGREQ")'
      <3>1. P("PINGREQ", 0) \in Packet
        BY ConstantTypes DEF PacketType
      <3>2. CASE Write(P("PINGREQ", 0))
        BY <3>1, <3>2, WriteFlight DEF IInv
      <3>3. CASE up' = up
        BY <3>3 DEF InFlight
      <3> QED
        BY <1>1, <3>2, <3>3 DEF PingWrite, WriteFails
    <2> QED
      BY <2>1, <2>2, FollowedKept DEF Alive, InFlight, InSession, InCall
  <1>2. CASE CallTimeout
    <2>1. UNCHANGED <<stage, ping_outstanding, link, eof, up, down>>
      BY <1>2 DEF CallTimeout, client
    <2>2. InCall
      <3>1. DOMAIN calls # {}
        BY <1>2 DEF CallTimeout
      <3> QED
        BY <3>1, EmptySeq, SMT DEF InCall
    <2> QED
      BY <2>1, <2>2, FollowedKept DEF Alive, InFlight, InSession
  <1>3. CASE PingCheck \/ KeepaliveTimeout \/ PingTimeout
    <2>1. UNCHANGED <<stage, calls, ping_outstanding, link, eof, up, down>>
      BY <1>3 DEF PingCheck, KeepaliveTimeout, PingTimeout, client
    <2> QED
      BY <2>1, FollowedKept DEF Alive, InFlight, InSession, InCall
  <1> QED
    BY <1>1, <1>2, <1>3 DEF PingTask, Clock

LEMMA OutsideFollowed ==
  ASSUME IInv, PingFollowed, Broker \/ Tcp
  PROVE  PingFollowed'
  <1> up \in Seq(Packet) /\ down \in Seq(Packet)
    BY DEF IInv, TypeOK
  <1>1. UNCHANGED <<stage, calls, ping_outstanding>>
    BY DEF Broker, BrokerConnects, BrokerAnswers, BrokerPublishes, BrokerSendsUnsupported,
           BrokerCloses, Tcp, ConnectionReset, PeerVanishes, client
  <1>2. InSession' <=> InSession
    BY <1>1 DEF InSession, InCall
  <1>3. CASE BrokerConnects
    <2>1. up # <<>> /\ Head(up).type = "CONNECT" /\ up' = Tail(up) /\ Alive
      BY <1>3 DEF BrokerConnects
    <2>2. InFlight(up, "PINGREQ") => InFlight(up', "PINGREQ")
      BY <2>1, TailFlight
    <2>3. \E p \in Packet : down' = Append(down, p)
      BY <1>3, ConstantTypes DEF BrokerConnects, PacketType
    <2>4. InFlight(down, "PINGRESP") => InFlight(down', "PINGRESP")
      BY <2>3, AppendFlight
    <2> QED
      BY <1>1, <1>2, <2>1, <2>2, <2>4, FollowedKept DEF InFlight
  <1>4. CASE BrokerAnswers
    <2>1. up # <<>> /\ up' = Tail(up) /\ Alive /\ Head(up) \in Packet
      BY <1>4, ChannelTypes DEF BrokerAnswers
    <2> PICK a \in Answers(Head(up)) : down' = down \o a
      BY <1>4 DEF BrokerAnswers
    <2>2. a \in Seq(Packet)
      <3>1. \A p \in Packet : <<p>> \in Seq(Packet)
        BY SMT
      <3>2. P("SUBACK", SubQos) \in Packet /\ P("SUBACK", SubFail) \in Packet
            /\ P("PINGRESP", 0) \in Packet /\ Ack(Head(up)) \in Packet
        BY <2>1, ConstantTypes, QosAssumption, SMT DEF PacketType
      <3>3. <<>> \in Seq(Packet)
        BY EmptySeq
      <3> QED
        BY <3>1, <3>2, <3>3 DEF Answers
    <2>3. InFlight(down, "PINGRESP") \/ InFlight(a, "PINGRESP") => InFlight(down', "PINGRESP")
      BY <2>2, ConcatFlight
    <2>4. CASE Head(up).type = "PINGREQ"
      <3>1. a = <<P("PINGRESP", 0)>>
        BY <2>4 DEF Answers, NeedsAck
      <3>2. InFlight(a, "PINGRESP")
        BY <3>1 DEF InFlight, P
      <3> QED
        BY <2>3, <3>2 DEF PingFollowed, InFlight
    <2>5. CASE Head(up).type # "PINGREQ"
      <3>1. InFlight(up, "PINGREQ") => InFlight(up', "PINGREQ")
        BY <2>1, <2>5, TailFlight
      <3> QED
        BY <1>1, <1>2, <2>1, <2>3, <3>1, FollowedKept DEF InFlight
    <2> QED
      BY <2>4, <2>5
  <1>5. CASE BrokerPublishes \/ BrokerSendsUnsupported
    <2>1. UNCHANGED <<link, eof, up>>
      BY <1>5 DEF BrokerPublishes, BrokerSendsUnsupported
    <2>2. \E p \in Packet : down' = Append(down, p)
      <3>1. CASE BrokerPublishes
        <4> PICK q \in 0..SubQos :
                down' = Append(down, [type |-> "PUBLISH", arg |-> q, id |-> IF q = 0 THEN 0 ELSE 1])
          BY <3>1 DEF BrokerPublishes
        <4>1. q \in {0, 1, 2}
          BY QosAssumption
        <4>2. [type |-> "PUBLISH", arg |-> q, id |-> IF q = 0 THEN 0 ELSE 1] \in Packet
          BY <4>1, ConstantTypes DEF Packet, PacketType
        <4> QED
          BY <4>2
      <3>2. CASE BrokerSendsUnsupported
        BY <3>2, ConstantTypes DEF BrokerSendsUnsupported, PacketType
      <3> QED
        BY <1>5, <3>1, <3>2
    <2>3. InFlight(down, "PINGRESP") => InFlight(down', "PINGRESP")
      BY <2>2, AppendFlight
    <2> QED
      BY <1>1, <1>2, <2>1, <2>3, FollowedKept DEF Alive, InFlight
  <1>6. CASE BrokerCloses \/ Tcp
    <2>1. ~Alive'
      BY <1>6 DEF BrokerCloses, Tcp, ConnectionReset, PeerVanishes, Alive
    <2> QED
      BY <2>1 DEF PingFollowed
  <1> QED
    BY <1>3, <1>4, <1>5, <1>6 DEF Broker

LEMMA FollowedStep ==
  ASSUME IInv, PingFollowed, [Next]_vars
  PROVE  PingFollowed'
  <1>1. CASE UNCHANGED vars
    BY <1>1 DEF vars, client, PingFollowed, InSession, InCall, Alive, InFlight
  <1>2. CASE LibraryStep
    <2>1. InCall
      BY <1>2 DEF LibraryStep, SendRequest, SendRequestFails, Receive, Reply, ReceiveEof, ReceiveFails,
         SendAck, SendAckFails, KeepaliveQuiet, KeepalivePing, KeepaliveFails, ConnackAccepted,
         Suback, PublishAcked, GiveUp, NextCycle, At
    <2>2. CASE SendRequestFails \/ ReceiveFails \/ SendAckFails \/ KeepaliveFails \/ GiveUp
      <3>1. Fails
        BY <2>2 DEF SendRequestFails, ReceiveFails, SendAckFails, KeepaliveFails, GiveUp
      <3> QED
        BY <2>1, <3>1, FailsFollowed
    <2> QED
      BY <1>2, <2>1, <2>2, CallFollowed DEF LibraryStep
  <1>3. CASE ReceiveTask /\ ~LibraryStep
    BY <1>3, LoopFollowed DEF ReceiveTask
  <1> QED
    BY <1>1, <1>2, <1>3, PingAndClockFollowed, OutsideFollowed DEF Next

\* A PINGREQ of keepalive() that is not answered on a live connection is under way, or its
\* PINGRESP is: the pings of mqtt_ping_task and their answers cannot take its place.
THEOREM PingUnderWay == Spec => []PingOutstandingInFlight
  <1>1. Init => PingFollowed
    BY DEF Init, PingFollowed
  <1>2. PingFollowed => PingOutstandingInFlight
    BY DEF PingFollowed, PingOutstandingInFlight, InSession
  <1> QED
    BY <1>1, <1>2, FollowedStep, Invariance, PTL DEF Spec

-----------------------------------------------------------------------------
(* Refinement of GatewaySession *)

\* A step that neither opens, closes nor accepts can at most lose the session.
LEMMA AtMostLoses ==
  ASSUME IInv, accepted' = accepted, link' = "closed" <=> link = "closed",
         isconnected' => isconnected, isconnected' \in BOOLEAN
  PROVE  [Gateway!Next]_<<IF link = "closed" THEN "closed" ELSE "open",
                          IF isconnected THEN "accepted" ELSE IF accepted THEN "lost" ELSE "none">>
  <1>1. isconnected => accepted
    BY DEF IInv, ConnectionFitsStage
  <1>2. CASE isconnected' = isconnected
    BY <1>2
  <1>3. CASE isconnected' # isconnected
    <2>1. isconnected /\ ~isconnected' /\ accepted /\ accepted'
      BY <1>1, <1>3 DEF IInv, TypeOK
    <2>2. Gateway!Lose
      BY <2>1 DEF Gateway!Lose
    <2> QED
      BY <2>2 DEF Gateway!Next
  <1> QED
    BY <1>2, <1>3

LEMMA GatewayInit == Init => Gateway!Init
  BY DEF Init, Gateway!Init

LEMMA GatewayStep ==
  IInv /\ IInv' /\ [Next]_vars =>
    [Gateway!Next]_<<IF link = "closed" THEN "closed" ELSE "open",
                     IF isconnected THEN "accepted" ELSE IF accepted THEN "lost" ELSE "none">>
  <1> SUFFICES ASSUME IInv, IInv', [Next]_vars
               PROVE  [Gateway!Next]_<<IF link = "closed" THEN "closed" ELSE "open",
                        IF isconnected THEN "accepted" ELSE IF accepted THEN "lost" ELSE "none">>
    OBVIOUS
  <1>1. isconnected' \in BOOLEAN
    BY DEF IInv, TypeOK
  <1>2. CASE NetworkConnect
    <2>1. link = "closed" /\ link' = "open" /\ ~accepted /\ ~accepted' /\ ~isconnected /\ ~isconnected'
      BY <1>2 DEF NetworkConnect, IInv, ConnectionFitsStage, client
    <2> QED
      BY <2>1 DEF Gateway!Next, Gateway!Open
  <1>3. CASE Disconnect
    <2>1. link # "closed" /\ link' = "closed" /\ ~accepted' /\ ~isconnected /\ ~isconnected'
      BY <1>3 DEF Disconnect, IInv, ConnectionFitsStage, client
    <2> QED
      BY <2>1 DEF Gateway!Next, Gateway!Close
  <1>4. CASE ConnackAccepted
    <2>1. stage = "connect"
      BY <1>4, TopFits DEF ConnackAccepted, At, IInv
    <2>2. link # "closed" /\ link' = link /\ ~accepted /\ accepted' /\ ~isconnected /\ isconnected'
      BY <1>4, <2>1 DEF ConnackAccepted, IInv, ConnectionFitsStage
    <2> QED
      BY <2>2 DEF Gateway!Next, Gateway!Accept
  <1>5. CASE SendRequestFails \/ ReceiveFails \/ SendAckFails \/ KeepaliveFails \/ GiveUp
    <2>1. InCall /\ Fails /\ UNCHANGED <<link, history>>
      BY <1>5 DEF SendRequestFails, ReceiveFails, SendAckFails, KeepaliveFails, GiveUp, WriteFails, At
    <2>2. isconnected' = FALSE
      BY <2>1, FailsShrinks DEF IInv
    <2> QED
      BY <1>1, <2>1, <2>2, AtMostLoses DEF history
  <1>6. CASE Configure \/ MQTTClientInit \/ MQTTSubscribe \/ PublishOnline \/ MQTTYield
    <2>1. accepted' = accepted /\ link' = link /\ (isconnected' => isconnected)
      BY <1>6 DEF Configure, MQTTClientInit, MQTTSubscribe, PublishOnline, MQTTYield, client, history
    <2> QED
      BY <1>1, <2>1, AtMostLoses
  <1>7. CASE SendRequest \/ SendAck \/ KeepalivePing \/ Receive \/ Reply \/ ReceiveEof
               \/ KeepaliveQuiet \/ Suback \/ PublishAcked \/ NextCycle
    <2>1. accepted' = accepted /\ link' = link /\ (isconnected' => isconnected)
      BY <1>7 DEF SendRequest, SendAck, KeepalivePing, Receive, Reply, ReceiveEof, KeepaliveQuiet,
                  Suback, PublishAcked, NextCycle, Write, MQTTCloseSession, client, history
    <2> QED
      BY <1>1, <2>1, AtMostLoses
  <1>8. CASE PingTask \/ Clock
    <2>1. accepted' = accepted /\ link' = link /\ isconnected' = isconnected
      BY <1>8 DEF PingTask, PingCheck, PingWrite, Write, WriteFails, Clock, CallTimeout,
                  KeepaliveTimeout, PingTimeout, client, history
    <2> QED
      BY <1>1, <2>1, AtMostLoses
  <1>9. CASE Broker \/ Tcp
    <2>1. accepted' = accepted /\ (link' = "closed" <=> link = "closed") /\ isconnected' = isconnected
      BY <1>9 DEF Broker, BrokerConnects, BrokerAnswers, BrokerPublishes, BrokerSendsUnsupported,
                  BrokerCloses, Tcp, ConnectionReset, PeerVanishes, client, history
    <2> QED
      BY <1>1, <2>1, AtMostLoses
  <1>10. CASE UNCHANGED vars
    BY <1>10 DEF vars, client, history
  <1> QED
    BY <1>2, <1>3, <1>4, <1>5, <1>6, <1>7, <1>8, <1>9, <1>10 DEF Next, ReceiveTask, LibraryStep

\* What the rest of the firmware sees of the two tasks, the library, TCP and the broker is the
\* life of a GatewaySession: one session per connection, lost for good when it is lost, and
\* given up before its socket is closed.
THEOREM Refinement == Spec => ImplementsGateway
  BY Invariance, GatewayInit, GatewayStep, PTL DEF Spec, ImplementsGateway, Gateway!Spec

=============================================================================
