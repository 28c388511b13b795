----------------------------- MODULE MqttSession -----------------------------
(***************************************************************************)
(* The MQTT session of the W600 demo: the receive task and the ping task   *)
(* of appstack/MQTT.cpp, the client library lib/MQTT/MQTTClient.c they run,*)
(* one TCP connection as lwIP's recv() and send() show it, and the broker. *)
(*                                                                         *)
(* MQTT_TASK is defined (CMakeLists.txt:120): MQTTConnect, MQTTSubscribe   *)
(* and MQTTPublish run under client->mutex, a mutex that is not recursive  *)
(* and is waited for without a limit; MQTTYield and mqtt_ping run without  *)
(* it.  So the mutex keeps the two tasks apart nowhere: they have the same *)
(* priority, share mqttclient and mqttserver, and any two steps below may  *)
(* interleave.  A step ends at a call into lwIP (recv, send, connect,      *)
(* closesocket), where a task can lose the CPU.                            *)
(*                                                                         *)
(* LWIP_SO_RCVTIMEO is off, so recv() blocks until a packet, an end of     *)
(* stream or an error arrives.  A timer is the set of moments at which it  *)
(* may have run out: it expires by an action of its own, never by reading. *)
(***************************************************************************)
EXTENDS Naturals, Sequences

CONSTANTS
  SubQos,        \* QoS asked for (and granted) by the subscription, Cfg.subscribe.qos
  ReplyQos,      \* the QoS values with which the message callback may publish a reply
  CleanSession,  \* Cfg.cleansession
  Unsupported,   \* TRUE: the broker may send a packet type cycle() has no case for
  MaxPacketId,   \* MAX_PACKET_ID, 65535 in the code
  MaxUp,         \* bound: packets written and not yet consumed by the broker
  MaxDown        \* bound: packets sent by the broker and not yet read

ASSUME QosAssumption == SubQos \in 0..2 /\ ReplyQos \subseteq 0..2
ASSUME FlagAssumption == CleanSession \in BOOLEAN /\ Unsupported \in BOOLEAN
ASSUME PacketIdAssumption == MaxPacketId \in Nat \ {0, 1}
ASSUME BoundAssumption == MaxUp \in Nat \ {0} /\ MaxDown \in Nat \ {0}

VARIABLES
  stage,             \* where mqtt_receive_task is in its loop
  calls,             \* the library calls it is inside, outermost first
  isconnected, ping_outstanding, next_packetid,   \* fields of mqttclient
  handler,           \* the slot of the subscription's handler is filled
  expired,           \* which of last_sent, last_received have run out
  link,              \* the TCP connection behind my_socket
  eof,               \* the peer's FIN: "none", "pending" (not read), "seen" (recv gave 0)
  up, down,          \* packets to and from the broker
  broker,            \* the broker's side of this connection
  ping_pc, pingDue,  \* mqtt_ping_task, and whether keepalive/2 passed since last_ping_tick
  connectSent,       \* history: CONNECT was written on this connection
  accepted,          \* history: an accepting CONNACK was processed on this connection
  prelude            \* history: other packets written on this connection before CONNECT

client == <<isconnected, ping_outstanding, handler>>
pinger == <<ping_pc, pingDue>>
history == <<connectSent, accepted, prelude>>
vars == <<stage, calls, client, next_packetid, expired, link, eof, up, down, broker, pinger, history>>

-----------------------------------------------------------------------------
Stage == {"config", "netconnect", "connect", "subscribe", "online", "yield", "close"}
Op == {"CONNECT", "SUBSCRIBE", "PUBLISH", "YIELD"}
PacketType == {"CONNECT", "CONNACK", "SUBSCRIBE", "SUBACK", "PUBLISH", "PUBACK", "PUBREC",
               "PUBREL", "PUBCOMP", "PINGREQ", "PINGRESP", "UNSUPPORTED"}
Refused == 5
SubFail == 128
PacketId == 0..MaxPacketId   \* 0: the packet carries no id
Packet == [type : PacketType, arg : {0, 1, 2, Refused, SubFail}, id : PacketId]
P(t, a) == [type |-> t, arg |-> a, id |-> 0]

\* What the last readPacket of a call returned; no packet at all and "timed out" included.
Nothing == [type |-> "NOTHING", arg |-> 0, id |-> 0]
TimedOut == [type |-> "TIMEDOUT", arg |-> 0, id |-> 0]

\* A call in progress: its operation and packet id, the step it is at ("lock": it waits for
\* the mutex), whether its own timer ran out, and the last packet it read.
Call == [op : Op, qos : 0..2, id : PacketId,
         at : {"lock", "send", "cycle", "ack", "keepalive", "test"},
         late : BOOLEAN, got : Packet \cup {Nothing, TimedOut}]
NewCall(o, q, i) == [op |-> o, qos |-> q, id |-> i, at |-> IF o = "YIELD" THEN "cycle" ELSE "send",
                     late |-> FALSE, got |-> Nothing]

InCall == calls # <<>>
Top == calls[Len(calls)]
At(s) == InCall /\ Top.at = s
SetTop(f) == calls' = [calls EXCEPT ![Len(calls)] = f]
Goto(s) == SetTop([Top EXCEPT !.at = s])
Popped == SubSeq(calls, 1, Len(calls) - 1)

TypeOK ==
  /\ stage \in Stage /\ calls \in Seq(Call)
  /\ isconnected \in BOOLEAN /\ ping_outstanding \in BOOLEAN /\ handler \in BOOLEAN
  /\ next_packetid \in 1..MaxPacketId
  /\ expired \subseteq {"last_sent", "last_received"}
  /\ link \in {"closed", "open", "dead", "reset"} /\ eof \in {"none", "pending", "seen"}
  /\ up \in Seq(Packet) /\ down \in Seq(Packet)
  /\ broker \in {"await", "session", "subscribed"}
  /\ ping_pc \in {"check", "write"} /\ pingDue \in BOOLEAN
  /\ connectSent \in BOOLEAN /\ accepted \in BOOLEAN /\ prelude \in Nat

Init ==
  /\ stage = "config" /\ calls = <<>>
  /\ isconnected = FALSE /\ ping_outstanding = FALSE /\ handler = FALSE /\ next_packetid = 1
  /\ expired = {}
  /\ link = "closed" /\ eof = "none" /\ up = <<>> /\ down = <<>> /\ broker = "await"
  /\ ping_pc = "check" /\ pingDue = FALSE
  /\ connectSent = FALSE /\ accepted = FALSE /\ prelude = 0

-----------------------------------------------------------------------------
(* send() on my_socket.  A dead peer's packets stay in the send buffer.  A *)
(* full buffer blocks the writer (SO_SNDTIMEO is off), and while one task  *)
(* is blocked there lwIP answers the other with ERR_INPROGRESS.            *)

Full == Len(up) >= MaxUp
Sending == \/ At("send") \/ (At("ack") /\ ~Top.late)
           \/ (At("keepalive") /\ expired # {} /\ ~ping_outstanding)
Write(p) ==
  /\ link \in {"open", "dead"} /\ ~Full
  /\ up' = Append(up, p)
  /\ connectSent' = (connectSent \/ p.type = "CONNECT")
  /\ prelude' = IF connectSent \/ p.type = "CONNECT" THEN prelude ELSE prelude + 1
  /\ UNCHANGED accepted
WriteFails(otherWrites) ==
  /\ link \in {"closed", "reset"} \/ (Full /\ otherWrites)
  /\ UNCHANGED <<up, history>>

\* sendPacket succeeded: last_sent counts down again.
Sent == expired' = expired \ {"last_sent"}

\* mutated form: isconnected is left set
CloseSessionStillConnected ==
  ping_outstanding' = FALSE /\ handler' = (handler /\ ~CleanSession) /\ UNCHANGED isconnected
MQTTCloseSession ==
  /\ isconnected' = FALSE /\ ping_outstanding' = FALSE
  /\ handler' = (handler /\ ~CleanSession)

\* mutated form: the counter never wraps
NextPacketIdUnbounded == next_packetid + 1
getNextPacketId == IF next_packetid = MaxPacketId THEN 1 ELSE next_packetid + 1

\* mutated form: only a publish and MQTTYield close the session when they fail
FailsKeepingSession ==
  IF Top.op = "PUBLISH"
  THEN calls' = Popped /\ stage' = (IF Len(calls) = 1 THEN "yield" ELSE stage) /\ MQTTCloseSession
  ELSE /\ calls' = <<>> /\ stage' = "close"
       /\ IF Top.op = "YIELD" THEN MQTTCloseSession ELSE UNCHANGED client

\* mutated form: mqtt_receive_task calls MQTTYield again after a failure
FailsButYields ==
  /\ calls' = Popped /\ MQTTCloseSession
  /\ stage' = CASE Len(calls) > 1 -> stage
                [] Top.op \in {"PUBLISH", "YIELD"} -> "yield"
                [] OTHER -> "close"

\* The innermost call returns FAILURE.  A publish is made by a callback or by the connect
\* callback, which both ignore the result; every other failure ends in closing the socket.
Fails ==
  IF Top.op = "PUBLISH"
  THEN /\ calls' = Popped
       /\ stage' = IF Len(calls) = 1 THEN "yield" ELSE stage
       /\ MQTTCloseSession
  ELSE /\ calls' = <<>> /\ stage' = "close"
       /\ IF isconnected \/ Top.op = "SUBSCRIBE" THEN MQTTCloseSession ELSE UNCHANGED client

\* The innermost call, a publish, returns SUCCESS.
Published ==
  /\ calls' = Popped
  /\ stage' = IF Len(calls) = 1 THEN "yield" ELSE stage

-----------------------------------------------------------------------------
(* mqtt_receive_task between library calls *)

Configure ==
  /\ stage = "config" /\ stage' = "netconnect"
  /\ UNCHANGED <<calls, client, next_packetid, expired, link, eof, up, down, broker, pinger, history>>

NetworkConnect ==
  /\ stage = "netconnect" /\ stage' = "connect"
  /\ link' = "open" /\ eof' = "none" /\ up' = <<>> /\ down' = <<>> /\ broker' = "await"
  /\ connectSent' = FALSE /\ accepted' = FALSE /\ prelude' = 0
  /\ UNCHANGED <<calls, client, next_packetid, expired, pinger>>

\* mutated form: ping_outstanding survives into the next connection
ClientInitKeepsPing ==
  /\ stage = "connect" /\ ~InCall
  /\ isconnected' = FALSE /\ handler' = FALSE /\ next_packetid' = 1 /\ expired' = {"last_sent"}
  /\ calls' = <<NewCall("CONNECT", 0, 0)>>
  /\ UNCHANGED <<stage, ping_outstanding, link, eof, up, down, broker, pinger, history>>

MQTTClientInit ==
  /\ stage = "connect" /\ ~InCall
  /\ isconnected' = FALSE /\ ping_outstanding' = FALSE /\ handler' = FALSE
  /\ next_packetid' = 1 /\ expired' = {"last_sent"}
  /\ calls' = <<NewCall("CONNECT", 0, 0)>>
  /\ UNCHANGED <<stage, link, eof, up, down, broker, pinger, history>>

MQTTSubscribe ==
  /\ stage = "subscribe" /\ ~InCall
  /\ calls' = <<NewCall("SUBSCRIBE", 0, getNextPacketId)>>
  /\ next_packetid' = getNextPacketId
  /\ UNCHANGED <<stage, client, expired, link, eof, up, down, broker, pinger, history>>

\* The connect callback publishes the Online message, refused without a session.
PublishOnline ==
  /\ stage = "online" /\ ~InCall
  /\ IF isconnected THEN calls' = <<NewCall("PUBLISH", 0, 0)>> /\ UNCHANGED stage
                    ELSE stage' = "yield" /\ UNCHANGED calls
  /\ UNCHANGED <<client, next_packetid, expired, link, eof, up, down, broker, pinger, history>>

MQTTYield ==
  /\ stage = "yield" /\ ~InCall
  /\ calls' = <<NewCall("YIELD", 0, 0)>>
  /\ UNCHANGED <<stage, client, next_packetid, expired, link, eof, up, down, broker, pinger, history>>

\* mqttserver.disconnect: closesocket(my_socket).
Disconnect ==
  /\ stage = "close" /\ stage' = "config"
  /\ link' = "closed" /\ eof' = "none" /\ up' = <<>> /\ down' = <<>> /\ broker' = "await"
  /\ accepted' = FALSE
  /\ UNCHANGED <<calls, client, next_packetid, expired, pinger, connectSent, prelude>>

-----------------------------------------------------------------------------
(* A library call: sendPacket, then waitfor or MQTTYield around cycle *)

Request(c) == [type |-> c.op, arg |-> c.qos, id |-> c.id]

SendRequest ==
  /\ At("send") /\ Top.op # "YIELD" /\ Write(Request(Top)) /\ Sent
  /\ IF Top.op = "PUBLISH" /\ Top.qos = 0
     THEN Published
     ELSE Goto("test") /\ UNCHANGED stage
  /\ UNCHANGED <<client, next_packetid, link, eof, down, broker, pinger>>

SendRequestFails ==
  /\ At("send") /\ WriteFails(ping_pc = "write") /\ Fails
  /\ UNCHANGED <<next_packetid, expired, link, eof, down, broker, pinger>>

\* The packet a received one is answered with, under the same id.
Ack(p) ==
  [type |-> CASE p.type = "PUBLISH" -> IF p.arg = 1 THEN "PUBACK" ELSE "PUBREC"
              [] p.type = "PUBREC"  -> "PUBREL"
              [] OTHER              -> "PUBCOMP",
   arg |-> 0, id |-> p.id]
NeedsAck(p) == p.type \in {"PUBREC", "PUBREL"} \/ (p.type = "PUBLISH" /\ p.arg > 0)

\* cycle() has read packet p: the switch on its type, up to the first send().
After(p) == [Top EXCEPT !.got = p,
                        !.at = IF p.type = "UNSUPPORTED" THEN "test"
                               ELSE IF NeedsAck(p) THEN "ack" ELSE "keepalive"]

\* readPacket returns a packet that needs no callback.
Receive ==
  /\ At("cycle") /\ down # <<>>
  /\ LET p == Head(down) IN
       /\ SetTop(After(p))
       /\ CASE p.type = "PINGRESP" -> ping_outstanding' = FALSE /\ UNCHANGED <<isconnected, handler>>
            [] p.type = "UNSUPPORTED" /\ isconnected -> MQTTCloseSession
            [] OTHER -> UNCHANGED client
  /\ expired' = expired \ {"last_received"}
  /\ down' = Tail(down)
  /\ UNCHANGED <<stage, next_packetid, link, eof, up, broker, pinger, history>>

\* mutated form: MQTTYield holds the mutex while it cycles, as MQTTRun does
MutexHeldInYield == InCall
\* client->mutex is taken by every call but MQTTYield, from its start to its end.
MutexHeld == \E i \in 1..Len(calls) : calls[i].op # "YIELD"

\* The publish of a callback.  Only the receive task takes the mutex: if it is held, this
\* task waits for itself.
Nested(q) ==
  IF MutexHeld THEN [NewCall("PUBLISH", q, 0) EXCEPT !.at = "lock"]
               ELSE NewCall("PUBLISH", q, IF q = 0 THEN 0 ELSE getNextPacketId)

\* A message reaches its handler, and the callback publishes a reply from inside cycle().
Reply ==
  /\ At("cycle") /\ down # <<>> /\ Head(down).type = "PUBLISH"
  /\ handler /\ isconnected
  /\ \E q \in ReplyQos :
       /\ calls' = Append([calls EXCEPT ![Len(calls)] = After(Head(down))], Nested(q))
       /\ next_packetid' = IF q = 0 \/ MutexHeld THEN next_packetid ELSE getNextPacketId
  /\ expired' = expired \ {"last_received"}
  /\ down' = Tail(down)
  /\ UNCHANGED <<stage, client, link, eof, up, broker, pinger, history>>

\* mutated form: the end of stream counts as received data
ReceiveEofRearms ==
  /\ At("cycle") /\ down = <<>>
  /\ eof = "seen" \/ (eof = "pending" /\ link # "reset")
  /\ eof' = "seen" /\ expired' = {}
  /\ SetTop([Top EXCEPT !.got = TimedOut, !.at = "keepalive", !.late = TRUE])
  /\ UNCHANGED <<stage, client, next_packetid, link, up, down, broker, pinger, history>>

\* recv() returned 0: FreeRTOS_read repeats it until the call's time is up.
ReceiveEof ==
  /\ At("cycle") /\ down = <<>>
  /\ eof = "seen" \/ (eof = "pending" /\ link # "reset")
  /\ eof' = "seen"
  /\ SetTop([Top EXCEPT !.got = TimedOut, !.at = "keepalive", !.late = TRUE])
  /\ UNCHANGED <<stage, client, next_packetid, expired, link, up, down, broker, pinger, history>>

\* recv() returned -1: cycle() closes the session if there is one, and returns -1.
ReceiveFails ==
  /\ At("cycle") /\ down = <<>> /\ link = "reset" /\ eof # "seen"
  /\ Fails
  /\ UNCHANGED <<next_packetid, expired, link, eof, up, down, broker, pinger, history>>

\* The acknowledgement is sent under the timer of the call, not one of its own.
SendAck ==
  /\ At("ack") /\ ~Top.late /\ Write(Ack(Top.got)) /\ Sent
  /\ Goto("keepalive")
  /\ UNCHANGED <<stage, client, next_packetid, link, eof, down, broker, pinger>>

SendAckFails ==
  /\ At("ack")
  /\ IF Top.late THEN UNCHANGED <<up, history>> ELSE WriteFails(ping_pc = "write")
  /\ Fails
  /\ UNCHANGED <<next_packetid, expired, link, eof, down, broker, pinger>>

KeepaliveQuiet ==
  /\ At("keepalive") /\ expired = {}
  /\ Goto("test")
  /\ UNCHANGED <<stage, client, next_packetid, expired, link, eof, up, down, broker, pinger, history>>

KeepalivePing ==
  /\ At("keepalive") /\ expired # {} /\ ~ping_outstanding
  /\ Write(P("PINGREQ", 0)) /\ Sent
  /\ ping_outstanding' = TRUE
  /\ Goto("test")
  /\ UNCHANGED <<stage, isconnected, handler, next_packetid, link, eof, down, broker, pinger>>

KeepaliveFails ==
  /\ At("keepalive") /\ expired # {}
  /\ IF ping_outstanding THEN UNCHANGED <<up, history>> ELSE WriteFails(ping_pc = "write")
  /\ Fails
  /\ UNCHANGED <<next_packetid, expired, link, eof, down, broker, pinger>>

Awaited(c) == CASE c.op = "CONNECT"   -> "CONNACK"
                [] c.op = "SUBSCRIBE" -> "SUBACK"
                [] c.op = "PUBLISH"   -> IF c.qos = 1 THEN "PUBACK" ELSE "PUBCOMP"
                [] OTHER              -> "NOTHING"
\* mutated form: waitfor stops at whatever cycle() returns
AnsweredByAnything(c) == c.op # "YIELD" /\ c.got # Nothing
Answered(c) == c.op # "YIELD" /\ c.got.type = Awaited(c)

ConnackAccepted ==
  /\ At("test") /\ Top.op = "CONNECT" /\ Answered(Top) /\ Top.got.arg = 0
  /\ isconnected' = TRUE /\ ping_outstanding' = FALSE /\ accepted' = TRUE
  /\ calls' = <<>> /\ stage' = "subscribe"
  /\ UNCHANGED <<handler, next_packetid, expired, link, eof, up, down, broker, pinger, connectSent, prelude>>

\* SUBACK: a granted subscription installs the handler; a refused one is no failure.
Suback ==
  /\ At("test") /\ Top.op = "SUBSCRIBE" /\ Answered(Top)
  /\ handler' = (handler \/ Top.got.arg # SubFail)
  /\ calls' = <<>> /\ stage' = "online"
  /\ UNCHANGED <<isconnected, ping_outstanding, next_packetid, expired, link, eof, up, down, broker, pinger, history>>

PublishAcked ==
  /\ At("test") /\ Top.op = "PUBLISH" /\ Answered(Top)
  /\ Published
  /\ UNCHANGED <<client, next_packetid, expired, link, eof, up, down, broker, pinger, history>>

\* CONNECT refused, or the command's timer ran out before its answer was read.
GiveUp ==
  /\ At("test") /\ Top.op # "YIELD"
  /\ IF Answered(Top) THEN Top.op = "CONNECT" /\ Top.got.arg # 0 ELSE Top.late
  /\ Fails
  /\ UNCHANGED <<next_packetid, expired, link, eof, up, down, broker, pinger, history>>

\* Another cycle() of waitfor or of MQTTYield; an MQTTYield whose time is up returns
\* SUCCESS and the task calls it again after vTaskDelay(1).
NextCycle ==
  /\ At("test") /\ ~Answered(Top)
  /\ Top.late => Top.op = "YIELD"
  /\ SetTop([Top EXCEPT !.at = "cycle", !.late = FALSE, !.got = Nothing])
  /\ UNCHANGED <<stage, client, next_packetid, expired, link, eof, up, down, broker, pinger, history>>

-----------------------------------------------------------------------------
(* mqtt_ping_task: isconnected is read, and later the socket is written *)

\* mutated form: the ping task stays out while the receive task is in the library
PingCheckBetweenCalls ==
  /\ ping_pc = "check" /\ isconnected /\ pingDue /\ ~InCall
  /\ ping_pc' = "write" /\ pingDue' = FALSE
  /\ UNCHANGED <<stage, calls, client, next_packetid, expired, link, eof, up, down, broker, history>>

PingCheck ==
  /\ ping_pc = "check" /\ isconnected /\ pingDue
  /\ ping_pc' = "write" /\ pingDue' = FALSE
  /\ UNCHANGED <<stage, calls, client, next_packetid, expired, link, eof, up, down, broker, history>>

PingWrite ==
  /\ ping_pc = "write" /\ ping_pc' = "check"
  /\ Write(P("PINGREQ", 0)) \/ WriteFails(Sending)
  /\ UNCHANGED <<stage, calls, client, next_packetid, expired, link, eof, down, broker, pingDue>>

-----------------------------------------------------------------------------
(* Time.  No task is starved for a whole command timeout (3 s) between     *)
(* arming the timer of a request and sending it: that timer runs later.    *)

CallTimeout ==
  \E i \in DOMAIN calls :
    /\ ~calls[i].late /\ calls[i].at \notin {"lock", "send"}
    /\ calls' = [calls EXCEPT ![i].late = TRUE]
    /\ UNCHANGED <<stage, client, next_packetid, expired, link, eof, up, down, broker, pinger, history>>

KeepaliveTimeout ==
  /\ InCall
  /\ \E t \in {"last_sent", "last_received"} \ expired : expired' = expired \cup {t}
  /\ UNCHANGED <<stage, calls, client, next_packetid, link, eof, up, down, broker, pinger, history>>

PingTimeout ==
  /\ ~pingDue /\ pingDue' = TRUE
  /\ UNCHANGED <<stage, calls, client, next_packetid, expired, link, eof, up, down, broker, ping_pc, history>>

-----------------------------------------------------------------------------
(* The broker and the TCP connection, outside the firmware *)

Alive == link = "open" /\ eof = "none"

\* The broker's answers to a packet it accepts.
Answers(p) ==
  CASE p.type = "SUBSCRIBE"              -> {<<P("SUBACK", SubQos)>>, <<P("SUBACK", SubFail)>>}
    [] p.type = "PINGREQ"                -> {<<P("PINGRESP", 0)>>}
    [] NeedsAck(p) \/ p.type = "PUBREC" -> {<<Ack(p)>>}
    [] OTHER                             -> {<<>>}

BrokerConnects ==
  /\ Alive /\ up # <<>> /\ Head(up).type = "CONNECT" /\ broker = "await" /\ Len(down) < MaxDown
  /\ up' = Tail(up)
  /\ \/ /\ down' = Append(down, P("CONNACK", 0)) /\ UNCHANGED eof
        /\ broker' \in {"session"} \cup IF CleanSession THEN {} ELSE {"subscribed"}
     \/ down' = Append(down, P("CONNACK", Refused)) /\ eof' = "pending" /\ UNCHANGED broker
  /\ UNCHANGED <<stage, calls, client, next_packetid, expired, link, pinger, history>>

BrokerAnswers ==
  /\ Alive /\ up # <<>> /\ Head(up).type # "CONNECT" /\ broker # "await" /\ Len(down) < MaxDown
  /\ up' = Tail(up)
  /\ \E a \in Answers(Head(up)) :
       /\ down' = down \o a
       /\ broker' = IF a = <<P("SUBACK", SubQos)>> THEN "subscribed" ELSE broker
  /\ UNCHANGED <<stage, calls, client, next_packetid, expired, link, eof, pinger, history>>

BrokerPublishes ==
  /\ Alive /\ broker = "subscribed" /\ Len(down) < MaxDown
  /\ \E q \in 0..SubQos :
       down' = Append(down, [type |-> "PUBLISH", arg |-> q, id |-> IF q = 0 THEN 0 ELSE 1])
  /\ UNCHANGED <<stage, calls, client, next_packetid, expired, link, eof, up, broker, pinger, history>>

BrokerSendsUnsupported ==
  /\ Unsupported /\ Alive /\ broker # "await" /\ Len(down) < MaxDown
  /\ down' = Append(down, P("UNSUPPORTED", 0))
  /\ UNCHANGED <<stage, calls, client, next_packetid, expired, link, eof, up, broker, pinger, history>>

\* FIN: the broker ends the connection, always so when the first packet is not CONNECT.
BrokerCloses ==
  /\ Alive /\ eof' = "pending"
  /\ UNCHANGED <<stage, calls, client, next_packetid, expired, link, up, down, broker, pinger, history>>

\* RST, or TCP gives up retransmitting to a dead peer: recv() keeps at most what lwIP had
\* already taken out of the receive mailbox.
ConnectionReset ==
  /\ link = "open" \/ (link = "dead" /\ up # <<>>)
  /\ link' = "reset" /\ up' = <<>>
  /\ \E n \in 0..Len(down) : down' = SubSeq(down, 1, n)
  /\ UNCHANGED <<stage, calls, client, next_packetid, expired, eof, broker, pinger, history>>

\* The peer or the path vanishes: what was on its way to us is lost, and of what we sent
\* only the packets TCP has no acknowledgement for remain.
PeerVanishes ==
  /\ link = "open" /\ link' = "dead"
  /\ \E n \in 0..Len(down) : down' = SubSeq(down, 1, n)
  /\ \E n \in 0..Len(up) : up' = SubSeq(up, n + 1, Len(up))
  /\ UNCHANGED <<stage, calls, client, next_packetid, expired, eof, broker, pinger, history>>

-----------------------------------------------------------------------------
LibraryStep ==
  \/ SendRequest \/ SendRequestFails
  \/ Receive \/ Reply \/ ReceiveEof \/ ReceiveFails
  \/ SendAck \/ SendAckFails
  \/ KeepaliveQuiet \/ KeepalivePing \/ KeepaliveFails
  \/ ConnackAccepted \/ Suback \/ PublishAcked \/ GiveUp \/ NextCycle

ReceiveTask ==
  \/ Configure \/ NetworkConnect \/ MQTTClientInit \/ MQTTSubscribe \/ PublishOnline
  \/ MQTTYield \/ Disconnect
  \/ LibraryStep

PingTask == PingCheck \/ PingWrite
Clock == CallTimeout \/ KeepaliveTimeout \/ PingTimeout
Broker == BrokerConnects \/ BrokerAnswers \/ BrokerPublishes \/ BrokerSendsUnsupported \/ BrokerCloses
Tcp == ConnectionReset \/ PeerVanishes

Next == ReceiveTask \/ PingTask \/ Clock \/ Broker \/ Tcp
Spec == Init /\ [][Next]_vars

\* The scheduler runs both tasks, timers run out, and TCP reports a dead peer it has
\* unacknowledged data for.  Nothing is assumed of the broker.
Fairness ==
  /\ WF_vars(ReceiveTask) /\ WF_vars(PingTask)
  /\ WF_vars(CallTimeout) /\ WF_vars(PingTimeout)
  /\ WF_vars(KeepaliveTimeout)
  /\ WF_vars((link = "dead" \/ eof # "none") /\ up # <<>> /\ ConnectionReset)
FairSpec == Spec /\ Fairness

-----------------------------------------------------------------------------
(* Properties *)

\* Whoever finds isconnected set (the ping task, a publisher) has a connection on which
\* this session's CONNACK was read: no path of mqtt_receive_task reconnects or closes the
\* socket with the flag left over.
SessionOnItsConnection ==
  isconnected => /\ link # "closed" /\ accepted /\ broker # "await"
                 /\ stage \in {"subscribe", "online", "yield"}

\* mqtt_ping_task may act on an isconnected it read before a reconnect, but at most once
\* per connection: a broker sees at most one packet ahead of CONNECT.
AtMostOneStalePing == prelude <= 1

\* Apart from CONNECT and PINGREQ, nothing is written on a connection the broker has not
\* accepted: MQTTSubscribe, MQTTPublish and the acks of cycle() come after CONNACK.
RequestsAfterConnack ==
  \A i \in DOMAIN up : up[i].type \notin {"CONNECT", "PINGREQ"} => broker # "await"

\* keepalive() takes ping_outstanding for "PINGRESP not received in keepalive interval":
\* while it is set on a live connection a PINGREQ or its PINGRESP is still under way, although
\* the ping task's own pings are answered on the same connection.
InFlight(s, t) == \E i \in DOMAIN s : s[i].type = t
PingOutstandingInFlight ==
  ping_outstanding /\ InCall /\ Alive => InFlight(up, "PINGREQ") \/ InFlight(down, "PINGRESP")

\* MQTTPublish takes client->mutex, also inside a callback of another call.  A task that
\* waits for the mutex it holds waits for ever: with replies of QoS 0 that never happens,
\* as only a publish that waits for an acknowledgement runs callbacks under the mutex.
NeverWaitsForItself == \A i \in 1..Len(calls) : calls[i].at # "lock"

\* cycle() calls a callback, which publishes, which calls cycle() again on the same stack: at most
\* three calls are nested, whatever QoS the messages and replies have and however many messages
\* come, as the third one stops at the mutex the second one holds.
AtMostThreeCalls == Len(calls) <= 3 /\ (Len(calls) = 3 => Top.at = "lock")

\* The reason for mqtt_ping_task (MQTT.cpp:316): with recv() blocking for ever, a session is
\* not left for ever on a connection whose peer vanished.
DeadPeerNoticed == []<>~(link = "dead" /\ isconnected)

\* A connection reset in any call, a publish inside a callback included, ends in closing it.
ResetNoticed == link = "reset" ~> link # "reset"

\* readPacket takes the peer's FIN for a timeout; the keepalive interval ends the session.
EofNoticed == eof # "none" ~> eof = "none"

\* The life of one connection as the rest of the firmware sees it.
Gateway == INSTANCE GatewaySession WITH
  conn <- IF link = "closed" THEN "closed" ELSE "open",
  session <- IF isconnected THEN "accepted" ELSE IF accepted THEN "lost" ELSE "none"
ImplementsGateway == Gateway!Spec

-----------------------------------------------------------------------------
(* The inductive invariant behind the safety properties: how the stage of  *)
(* mqtt_receive_task, its calls, the connection and the broker fit together *)

\* The outermost call is the one of the stage; every nested one is a publish of a callback,
\* which MQTTConnect never runs.
FirstOp == CASE stage = "connect"   -> "CONNECT"
             [] stage = "subscribe" -> "SUBSCRIBE"
             [] stage = "online"    -> "PUBLISH"
             [] OTHER               -> "YIELD"
CallsFitStage ==
  /\ InCall => stage \in {"connect", "subscribe", "online", "yield"}
  /\ stage = "connect" => Len(calls) <= 1
  /\ \A i \in 1..Len(calls) : calls[i].op = IF i = 1 THEN FirstOp ELSE "PUBLISH"

ConnectionFitsStage ==
  /\ stage \in {"config", "netconnect"} <=> link = "closed"
  /\ accepted => stage \notin {"config", "netconnect", "connect"}
  /\ stage \in {"subscribe", "online", "yield"} => accepted /\ connectSent /\ broker # "await"
  /\ isconnected => stage \in {"subscribe", "online", "yield"}

\* Nothing but a refusal comes from a broker that has not accepted this connection, and
\* cycle() has nothing to acknowledge.
Heard(p) == p.type \in {"NOTHING", "TIMEDOUT"} \/ p = P("CONNACK", Refused)
HeardBeforeSession == broker = "await" => \A i \in 1..Len(down) : Heard(down[i])
ReadBeforeSession ==
  broker = "await" => \A i \in 1..Len(calls) : Heard(calls[i].got) /\ calls[i].at # "ack"

\* Until CONNECT is written the library is in the very call that writes it, and the ping
\* task has at most one write left, decided before this connection was made.
ConnectFirst == InCall /\ ~connectSent => Len(calls) = 1 /\ calls[1].at = "send"
PingsBeforeConnect ==
  /\ prelude <= 1
  /\ ~connectSent => prelude + (IF ping_pc = "write" THEN 1 ELSE 0) <= 1

IInv == /\ TypeOK /\ CallsFitStage /\ ConnectionFitsStage /\ HeardBeforeSession
        /\ ReadBeforeSession /\ RequestsAfterConnack /\ ConnectFirst /\ PingsBeforeConnect

\* Why replies of QoS 0 never wait for the mutex: such a publish is left by the send() it is
\* at, and no handler is installed while MQTTConnect or MQTTSubscribe holds the mutex.
PublishesAtOnce ==
  \A i \in 1..Len(calls) :
    /\ calls[i].at # "lock"
    /\ calls[i].op = "PUBLISH" => calls[i].at = "send" /\ calls[i].qos = 0
HandlerAfterSuback == handler => stage # "subscribe" /\ (InCall => stage # "connect")

\* Between two calls, too, a ping that is outstanding is under way.
InSession == InCall \/ stage \in {"subscribe", "online", "yield"}
PingFollowed ==
  ping_outstanding /\ InSession /\ Alive => InFlight(up, "PINGREQ") \/ InFlight(down, "PINGRESP")
=============================================================================
