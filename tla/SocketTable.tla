------------------------------ MODULE SocketTable ------------------------------
(***************************************************************************)
(* The descriptors of lwIP's socket table and the three tasks that use     *)
(* them: mqtt_receive_task and mqtt_ping_task through my_socket, and the   *)
(* main task inside the NTP query ntp_loop() makes (ntp_client.c).         *)
(*                                                                         *)
(* A descriptor is a number, and lwIP gives a freed number out again to    *)
(* whoever asks next.  A call into lwIP is one step: it waits for the      *)
(* TCP/IP thread, so another task may run between any two of them.         *)
(***************************************************************************)
EXTENDS Integers

CONSTANTS
  NumSockets,   \* NUM_SOCKETS, MEMP_NUM_NETCONN: 8 in lwipopts.h
  NtpServers,   \* NTP_SERVER_MAX_NUM, 3 in the code
  MaxTry,       \* NTP_MAX_TRY_TIMES, 4 in the code
  MayBlock      \* TRUE: send() may find the TCP send buffer full and wait inside lwIP

ASSUME SocketsAssumption == NumSockets \in Nat
ASSUME ServersAssumption == NtpServers \in Nat
ASSUME TryAssumption == MaxTry \in Nat \ {0} /\ MayBlock \in BOOLEAN

VARIABLES
  sockets,            \* sockets[f].conn: whose netconn it is and what it is doing
  mqtt_pc, my_socket, \* mqtt_receive_task, and mqttserver.my_socket
  ping_pc, ping_fd,   \* mqtt_ping_task, and the socket its send() waits on
  ntp_pc,             \* open_connect()
  s,                  \* its descriptors, one per server
  servernum, try,     \* its loop counters
  avail,              \* ip_avial_num: how many names were resolved
  retval              \* an answer was read

mqtt == <<mqtt_pc, my_socket>>
ping == <<ping_pc, ping_fd>>
ntp == <<ntp_pc, s, servernum, try, avail, retval>>
vars == <<sockets, mqtt, ping, ntp>>

Fd == 0..NumSockets - 1
Server == 0..NtpServers - 1
MayFd == Fd \cup {-1}

-----------------------------------------------------------------------------
(* lwIP.  old (history): opened before the running NTP query.              *)
(* dropped (history): its owner's closesocket() was refused, and the owner *)
(* has forgotten the descriptor.                                           *)

Netconn == [by : {"none", "mqtt", "ntp"}, st : {"idle", "connect", "up", "write"},
            old : BOOLEAN, dropped : BOOLEAN]
New(task) == [by |-> task, st |-> "idle", old |-> FALSE, dropped |-> FALSE]
Free == New("none")
Open(f) == f \in Fd /\ sockets[f].by # "none"

\* alloc_socket takes the first free slot.
Lowest(f) == f \in Fd /\ ~Open(f) /\ \A g \in Fd : ~Open(g) => f <= g
NoneFree == \A f \in Fd : Open(f)

\* lwip_close: nothing for a slot without a netconn; ERR_INPROGRESS while a connect() or a
\* send() waits on it; else the netconn is deleted and the slot is free.
Busy(f) == sockets[f].st \in {"connect", "write"}
Closed(f) == IF Open(f) /\ ~Busy(f) THEN [sockets EXCEPT ![f] = Free] ELSE sockets

\* What else a call changes in the table.
Taken(f, task) == [sockets EXCEPT ![f] = New(task)]
Now(f, state) == [sockets EXCEPT ![f].st = state]
Dropped(f) == [sockets EXCEPT ![f].dropped = TRUE]

\* send() and recv() work on a UDP netconn and on an established connection.
Usable(f) == Open(f) /\ (sockets[f].by = "ntp" \/ sockets[f].st \in {"up", "write"})

Init ==
  /\ sockets = [f \in Fd |-> Free]
  /\ mqtt_pc = "init" /\ my_socket = 0
  /\ ping_pc = "check" /\ ping_fd = -1
  /\ ntp_pc = "idle" /\ s = [k \in Server |-> -1]
  /\ servernum = 0 /\ try = 0 /\ avail = 0 /\ retval = FALSE

-----------------------------------------------------------------------------
(* mqtt_receive_task *)

NetworkInit ==
  /\ mqtt_pc = "init" /\ mqtt_pc' = "open" /\ my_socket' = 0
  /\ UNCHANGED <<sockets, ping, ntp>>

\* NetworkConnect up to socket(): the name may not resolve, the table may be full.
MqttSocket ==
  /\ mqtt_pc = "open"
  /\ \/ /\ NoneFree /\ my_socket' = -1
        /\ UNCHANGED <<sockets, mqtt_pc>>
     \/ \E f \in Fd :
          /\ Lowest(f)
          /\ sockets' = Taken(f, "mqtt")
          /\ my_socket' = f /\ mqtt_pc' = "socket"
  /\ UNCHANGED <<ping, ntp>>

\* connect() waits for the handshake on our netconn, fails at once on a slot that is free by
\* now, and returns at once on a UDP netconn that has taken the slot.
MqttConnect ==
  /\ mqtt_pc = "socket"
  /\ CASE sockets[my_socket].by = "mqtt" ->
            mqtt_pc' = "connect" /\ sockets' = Now(my_socket, "connect")
       [] sockets[my_socket].by = "ntp" -> mqtt_pc' = "online" /\ UNCHANGED sockets
       [] OTHER -> mqtt_pc' = "failed" /\ UNCHANGED sockets
  /\ UNCHANGED <<my_socket, ping, ntp>>

MqttConnected ==
  /\ mqtt_pc = "connect"
  /\ \/ mqtt_pc' = "online" /\ sockets' = Now(my_socket, "up")
     \/ mqtt_pc' = "failed" /\ sockets' = Now(my_socket, "idle")
  /\ UNCHANGED <<my_socket, ping, ntp>>

\* mutated form: the socket is left open when connect() fails
MqttConnectFailsLeaving ==
  /\ mqtt_pc = "failed" /\ mqtt_pc' = "open"
  /\ UNCHANGED <<sockets, my_socket, ping, ntp>>

\* connect() failed: the socket is closed, and opened again after a while.
MqttConnectFails ==
  /\ mqtt_pc = "failed" /\ mqtt_pc' = "open"
  /\ sockets' = Closed(my_socket)
  /\ UNCHANGED <<my_socket, ping, ntp>>

\* A send() of the library that finds no room waits; one that finds room is no step here.
MqttSend ==
  /\ MayBlock /\ mqtt_pc = "online" /\ Open(my_socket) /\ sockets[my_socket].st = "up"
  /\ sockets' = Now(my_socket, "write")
  /\ mqtt_pc' = "send"
  /\ UNCHANGED <<my_socket, ping, ntp>>

MqttSent ==
  /\ mqtt_pc = "send" /\ mqtt_pc' = "online"
  /\ sockets' = Now(my_socket, "up")
  /\ UNCHANGED <<my_socket, ping, ntp>>

\* MQTTConnect, MQTTSubscribe or MQTTYield returned FAILURE.
MqttFails ==
  /\ mqtt_pc = "online" /\ mqtt_pc' = "close"
  /\ UNCHANGED <<sockets, my_socket, ping, ntp>>

\* mqttserver.disconnect, whose result nobody looks at.
MqttDisconnect ==
  /\ mqtt_pc = "close" /\ mqtt_pc' = "init"
  /\ sockets' = IF Open(my_socket) /\ Busy(my_socket)
                THEN Dropped(my_socket)
                ELSE Closed(my_socket)
  /\ UNCHANGED <<my_socket, ping, ntp>>

-----------------------------------------------------------------------------
(* mqtt_ping_task *)

\* isconnected is read here, and my_socket only in the send() that follows.
PingCheck ==
  /\ ping_pc = "check" /\ mqtt_pc \in {"online", "send"} /\ ping_pc' = "send"
  /\ UNCHANGED <<sockets, mqtt, ping_fd, ntp>>

\* send() returned: written, or failed because there is no connection or the other task is
\* inside send().
PingSend ==
  /\ ping_pc = "send" /\ ping_pc' = "check"
  /\ UNCHANGED <<sockets, mqtt, ping_fd, ntp>>

PingBlocks ==
  /\ MayBlock /\ ping_pc = "send" /\ Open(my_socket) /\ sockets[my_socket].st = "up"
  /\ sockets' = Now(my_socket, "write")
  /\ ping_pc' = "blocked" /\ ping_fd' = my_socket
  /\ UNCHANGED <<mqtt, ntp>>

\* There is room again, or TCP has given up.
PingUnblocks ==
  /\ ping_pc = "blocked" /\ ping_pc' = "check"
  /\ sockets' = Now(ping_fd, "up")
  /\ ping_fd' = -1
  /\ UNCHANGED <<mqtt, ntp>>

-----------------------------------------------------------------------------
(* open_connect() in the main task *)

Older == [f \in Fd |-> IF Open(f) THEN [sockets[f] EXCEPT !.old = TRUE] ELSE sockets[f]]

\* mutated form: s is not set to -1 before its first use
NtpQueryKeepingDescriptors ==
  /\ ntp_pc = "idle" /\ ntp_pc' = "reset"
  /\ sockets' = Older
  /\ avail' \in 1..NtpServers
  /\ try' = 0 /\ servernum' = 0 /\ retval' = FALSE
  /\ UNCHANGED <<s, mqtt, ping>>

\* The names are resolved; with none resolved open_connect returns at once.
NtpQuery ==
  /\ ntp_pc = "idle" /\ ntp_pc' = "reset"
  /\ sockets' = Older
  /\ avail' \in 1..NtpServers
  /\ s' = [k \in Server |-> -1]
  /\ try' = 0 /\ servernum' = 0 /\ retval' = FALSE
  /\ UNCHANGED <<mqtt, ping>>

\* The top of a try closes what s holds, closed already or not.
NtpReset ==
  /\ ntp_pc = "reset" /\ servernum < NtpServers
  /\ sockets' = Closed(s[servernum])
  /\ s' = [s EXCEPT ![servernum] = -1]
  /\ servernum' = servernum + 1
  /\ UNCHANGED <<ntp_pc, try, avail, retval, mqtt, ping>>

\* An answer ends the loop, at the top of the next try.
NtpTry ==
  /\ ntp_pc = "reset" /\ servernum = NtpServers
  /\ ntp_pc' = IF retval THEN "idle" ELSE "socket"
  /\ servernum' = 0
  /\ UNCHANGED <<sockets, s, try, avail, retval, mqtt, ping>>

NtpSocket ==
  /\ ntp_pc = "socket" /\ servernum < avail
  /\ \/ /\ NoneFree
        /\ s' = [s EXCEPT ![servernum] = -1] /\ servernum' = servernum + 1
        /\ UNCHANGED <<sockets, ntp_pc>>
     \/ \E f \in Fd :
          /\ Lowest(f)
          /\ sockets' = Taken(f, "ntp")
          /\ s' = [s EXCEPT ![servernum] = f]
          /\ ntp_pc' = "sendto" /\ UNCHANGED servernum
  /\ UNCHANGED <<try, avail, retval, mqtt, ping>>

NtpSendtoFails ==
  /\ ntp_pc = "sendto" /\ ntp_pc' = "socket" /\ servernum' = servernum + 1
  /\ sockets' = Closed(s[servernum])
  /\ s' = [s EXCEPT ![servernum] = -1]
  /\ UNCHANGED <<try, avail, retval, mqtt, ping>>

\* On a slot mqtt_receive_task has taken, sendto() is a send() on its connection.
NtpSendto ==
  /\ ntp_pc = "sendto" /\ Usable(s[servernum]) /\ ntp_pc' = "socket" /\ servernum' = servernum + 1
  /\ UNCHANGED <<sockets, s, try, avail, retval, mqtt, ping>>

\* select(): one second without an answer, or the first descriptor that can be read.
NtpSelect ==
  /\ ntp_pc = "socket" /\ servernum = avail
  /\ \/ ntp_pc' = "finish" /\ servernum' = 0
     \/ \E k \in 0..avail - 1 : Usable(s[k]) /\ ntp_pc' = "recv" /\ servernum' = k
  /\ UNCHANGED <<sockets, s, try, avail, retval, mqtt, ping>>

\* recvfrom(): an answer, or a failure and the next descriptor that can be read.
NtpRecv ==
  /\ ntp_pc = "recv"
  /\ \/ Usable(s[servernum]) /\ retval' = TRUE /\ ntp_pc' = "finish" /\ servernum' = 0
     \/ ntp_pc' = "finish" /\ servernum' = 0 /\ UNCHANGED retval
     \/ /\ \E k \in servernum + 1..avail - 1 : Usable(s[k]) /\ servernum' = k
        /\ UNCHANGED <<ntp_pc, retval>>
  /\ UNCHANGED <<sockets, s, try, avail, mqtt, ping>>

\* The end of a try closes the descriptors, and leaves their numbers in s.
NtpFinish ==
  /\ ntp_pc = "finish" /\ servernum < avail
  /\ sockets' = Closed(s[servernum])
  /\ servernum' = servernum + 1
  /\ UNCHANGED <<ntp_pc, s, try, avail, retval, mqtt, ping>>

\* mutated form: one try too many
NtpNextTryOneMore ==
  /\ ntp_pc = "finish" /\ servernum = avail
  /\ ntp_pc' = IF try + 1 <= MaxTry THEN "reset" ELSE "idle"
  /\ try' = try + 1 /\ servernum' = 0
  /\ UNCHANGED <<sockets, s, avail, retval, mqtt, ping>>

NtpNextTry ==
  /\ ntp_pc = "finish" /\ servernum = avail
  /\ ntp_pc' = IF try + 1 < MaxTry THEN "reset" ELSE "idle"
  /\ try' = try + 1 /\ servernum' = 0
  /\ UNCHANGED <<sockets, s, avail, retval, mqtt, ping>>

-----------------------------------------------------------------------------
ReceiveTask ==
  \/ NetworkInit \/ MqttSocket \/ MqttConnect \/ MqttConnected \/ MqttConnectFails
  \/ MqttSend \/ MqttSent \/ MqttFails \/ MqttDisconnect
PingTask == PingCheck \/ PingSend \/ PingBlocks \/ PingUnblocks
MainTask ==
  \/ NtpQuery \/ NtpReset \/ NtpTry \/ NtpSocket \/ NtpSendto \/ NtpSendtoFails
  \/ NtpSelect \/ NtpRecv \/ NtpFinish \/ NtpNextTry

Next == ReceiveTask \/ PingTask \/ MainTask
Spec == Init /\ [][Next]_vars

-----------------------------------------------------------------------------
(* Properties *)

TypeOK ==
  /\ sockets \in [Fd -> Netconn]
  /\ mqtt_pc \in {"init", "open", "socket", "connect", "failed", "online", "send", "close"}
  /\ my_socket \in MayFd \cup {0}
  /\ ping_pc \in {"check", "send", "blocked"} /\ ping_fd \in MayFd
  /\ ntp_pc \in {"idle", "reset", "socket", "sendto", "recv", "finish"}
  /\ s \in [Server -> MayFd]
  /\ servernum \in 0..NtpServers /\ try \in 0..MaxTry /\ avail \in 0..NtpServers
  /\ retval \in BOOLEAN

\* No descriptor leaks: an open netconn is the one its task still holds, through every failure
\* of socket(), connect() and sendto() and every descriptor another task took over.  The one
\* way to lose a netconn for good is a closesocket() lwIP refused.
MqttHolds(f) == mqtt_pc \in {"socket", "connect", "failed", "online", "send", "close"}
               /\ my_socket = f
NtpHolds(f) == ntp_pc # "idle" /\ \E k \in Server : s[k] = f
Held ==
  \A f \in Fd :
    /\ sockets[f].by = "mqtt" => MqttHolds(f) \/ sockets[f].dropped
    /\ sockets[f].by = "ntp" => NtpHolds(f)

\* A query closes its descriptors twice, but never the MQTT connection that was there when
\* it began: a stale number in s can only name a socket opened after the query's own.
MqttLoses(f) == sockets[f].by = "mqtt" /\ sockets'[f].by # "mqtt" /\ mqtt_pc' = mqtt_pc
EstablishedSurvives == [][\A f \in Fd : MqttLoses(f) => ~sockets[f].old]_vars

-----------------------------------------------------------------------------
(* The inductive invariant: what each place in a task knows of the slots   *)
(* its descriptors name.                                                   *)

\* A free slot and a UDP netconn are idle; a netconn that waits is the one some task waits on.
SlotsConsistent ==
  /\ \A f \in Fd : sockets[f].by # "mqtt" => sockets[f].st = "idle"
  /\ ping_pc = "blocked" => ping_fd \in Fd /\ sockets[ping_fd].st = "write"
MqttKnows ==
  /\ mqtt_pc \notin {"init", "open"} => my_socket \in Fd
  /\ mqtt_pc \in {"socket", "failed"} => sockets[my_socket].st = "idle"
  /\ mqtt_pc = "connect" => sockets[my_socket].st = "connect"
  /\ mqtt_pc = "send" => /\ sockets[my_socket].st = "write"
                         /\ ping_pc = "blocked" => ping_fd # my_socket

\* Which descriptors of s are set, and which of those are closed already.
NtpKnows ==
  /\ \A k \in Server :
       /\ ntp_pc = "reset" /\ k < servernum => s[k] = -1
       /\ ntp_pc = "socket" /\ k >= servernum => s[k] = -1
       /\ ntp_pc = "sendto" /\ k > servernum => s[k] = -1
       /\ ntp_pc \in {"recv", "finish"} /\ k >= avail => s[k] = -1
       /\ ntp_pc = "finish" /\ k < servernum /\ s[k] \in Fd => sockets[s[k]].by # "ntp"
  /\ ntp_pc \in {"socket", "finish"} => servernum <= avail
  /\ ntp_pc \in {"sendto", "recv"} => servernum < avail
  /\ ntp_pc # "idle" => try < MaxTry

\* No descriptor of the query names a connection that is older than it.
NtpNamesNothingOlder ==
  ntp_pc # "idle" =>
    \A k \in Server : s[k] \in Fd => ~(sockets[s[k]].by = "mqtt" /\ sockets[s[k]].old)

IInv == /\ TypeOK /\ SlotsConsistent /\ MqttKnows /\ NtpKnows /\ NtpNamesNothingOlder /\ Held

-----------------------------------------------------------------------------
(* What a comment says, and the code does not do *)

\* free_socket: once the slot is free "another task might have allocated it" (sockets.c:448), so
\* a task closes a descriptor once.  Nothing but mqtt_receive_task closes its netconn.
ClosesItsOwn == [][\A f \in Fd : ~MqttLoses(f)]_vars
=============================================================================
