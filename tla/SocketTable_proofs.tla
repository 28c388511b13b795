--------------------------- MODULE SocketTable_proofs ---------------------------
(* Proofs that no descriptor leaks and that an NTP query spares the MQTT   *)
(* connection it finds, for every number of sockets, servers and tries.    *)
EXTENDS SocketTable, TLAPS

(***************************************************************************)
(* What lwIP's operations do to the table, slot by slot.                   *)
(***************************************************************************)

\* A step that changes nothing of a slot but, perhaps, what its netconn is doing.
Moved(t, f, state) ==
  /\ t \in [Fd -> Netconn]
  /\ \A g \in Fd : /\ t[g].by = sockets[g].by /\ t[g].old = sockets[g].old
                   /\ t[g].dropped = sockets[g].dropped
                   /\ t[g].st = IF g = f THEN state ELSE sockets[g].st

\* A step after which slot f is free.
Freed(t, f) ==
  /\ t \in [Fd -> Netconn]
  /\ \A g \in Fd : g # f => t[g] = sockets[g]
  /\ f \in Fd => t[f].by = "none" /\ t[f].st = "idle"

\* A step after which slot f, free until now, is the new netconn of a task.
Filled(t, f, task) ==
  /\ t \in [Fd -> Netconn]
  /\ \A g \in Fd : g # f => t[g] = sockets[g]
  /\ t[f].by = task /\ t[f].st = "idle" /\ ~t[f].old

LEMMA Stating ==
  ASSUME TypeOK, NEW f, NEW x \in {"idle", "connect", "up", "write"}
  PROVE  Moved(Now(f, x), f, x)
BY Zenon DEF TypeOK, Netconn, Now, Moved

\* closesocket() frees the slot, unless a task waits in it or it is free already.
LEMMA Closing ==
  ASSUME TypeOK, SlotsConsistent, NEW f, f \in Fd => ~Busy(f)
  PROVE  Freed(Closed(f), f)
BY DEF TypeOK, SlotsConsistent, Closed, Free, New, Netconn, Open, Freed

LEMMA ClosingBusy ==
  ASSUME NEW f, Busy(f)
  PROVE  Closed(f) = sockets
BY DEF Closed

\* A refused closesocket() only marks the netconn as lost.
LEMMA Dropping ==
  ASSUME TypeOK, NEW f \in Fd
  PROVE  /\ Dropped(f) \in [Fd -> Netconn]
         /\ \A g \in Fd : /\ Dropped(f)[g].by = sockets[g].by /\ Dropped(f)[g].st = sockets[g].st
                          /\ Dropped(f)[g].old = sockets[g].old
                          /\ Dropped(f)[g].dropped = (g = f \/ sockets[g].dropped)
BY Zenon DEF TypeOK, Netconn, Dropped

LEMMA Opening ==
  ASSUME TypeOK, NEW f \in Fd, NEW task \in {"mqtt", "ntp"}
  PROVE  Filled(Taken(f, task), f, task)
BY DEF TypeOK, Netconn, New, Taken, Filled

\* The start of a query changes the history only.
LEMMA Aging ==
  ASSUME TypeOK
  PROVE  /\ Older \in [Fd -> Netconn]
         /\ \A g \in Fd : /\ Older[g].by = sockets[g].by /\ Older[g].st = sockets[g].st
                          /\ Older[g].dropped = sockets[g].dropped
<1>1. ASSUME NEW g \in Fd
      PROVE  /\ [sockets[g] EXCEPT !.old = TRUE] \in Netconn
             /\ [sockets[g] EXCEPT !.old = TRUE].by = sockets[g].by
             /\ [sockets[g] EXCEPT !.old = TRUE].st = sockets[g].st
             /\ [sockets[g] EXCEPT !.old = TRUE].dropped = sockets[g].dropped
  BY DEF TypeOK, Netconn
<1> QED
  BY <1>1 DEF Older, TypeOK

(***************************************************************************)
(* Steps of the MQTT tasks keep what the query knows, and a closed slot    *)
(* takes no wait away from a task.                                         *)
(***************************************************************************)
NtpHeld == \A f \in Fd : sockets[f].by = "ntp" => NtpHolds(f)
MqttHeld == \A f \in Fd : sockets[f].by = "mqtt" => MqttHolds(f) \/ sockets[f].dropped

LEMMA QuietKeepsQuery ==
  ASSUME IInv, UNCHANGED <<sockets, ntp>>
  PROVE  NtpKnows' /\ NtpNamesNothingOlder' /\ NtpHeld'
BY DEF IInv, NtpKnows, NtpNamesNothingOlder, Held, NtpHeld, NtpHolds, ntp

LEMMA QuietKeepsTasks ==
  ASSUME IInv, UNCHANGED <<sockets, mqtt, ping>>
  PROVE  SlotsConsistent' /\ MqttKnows' /\ MqttHeld'
BY DEF IInv, SlotsConsistent, MqttKnows, Held, MqttHeld, MqttHolds, mqtt, ping

LEMMA MoveKeepsQuery ==
  ASSUME IInv, NEW f \in Fd, NEW x, Moved(sockets', f, x), UNCHANGED ntp
  PROVE  NtpKnows' /\ NtpNamesNothingOlder' /\ NtpHeld'
<1> USE ServersAssumption
<1>1. NtpKnows'
  BY DEF IInv, TypeOK, NtpKnows, Moved, ntp, Fd, Server, MayFd
<1>2. NtpNamesNothingOlder'
  BY DEF IInv, TypeOK, NtpNamesNothingOlder, Moved, ntp, Fd, Server, MayFd
<1>3. NtpHeld'
  BY DEF IInv, NtpHeld, Held, NtpHolds, Moved, ntp
<1> QED
  BY <1>1, <1>2, <1>3

LEMMA FreeKeepsQuery ==
  ASSUME IInv, NEW f, Freed(sockets', f), UNCHANGED ntp
  PROVE  NtpKnows' /\ NtpNamesNothingOlder' /\ NtpHeld'
<1> USE ServersAssumption
<1>1. NtpKnows'
  BY DEF IInv, TypeOK, NtpKnows, Freed, ntp, Fd, Server, MayFd
<1>2. NtpNamesNothingOlder'
  BY DEF IInv, TypeOK, NtpNamesNothingOlder, Freed, ntp, Fd, Server, MayFd
<1>3. NtpHeld'
  BY DEF IInv, NtpHeld, Held, NtpHolds, Freed, ntp
<1> QED
  BY <1>1, <1>2, <1>3

LEMMA FreeKeepsTasks ==
  ASSUME IInv, NEW f, Freed(sockets', f), f \in Fd => ~Busy(f), UNCHANGED <<mqtt, ping>>
  PROVE  SlotsConsistent' /\ MqttKnows' /\ MqttHeld'
<1>1. SlotsConsistent'
  BY DEF IInv, SlotsConsistent, Freed, Busy, ping
<1>2. MqttKnows'
  BY DEF IInv, MqttKnows, Freed, Busy, mqtt, ping
<1>3. MqttHeld'
  BY DEF IInv, Held, MqttHeld, MqttHolds, Freed, mqtt
<1> QED
  BY <1>1, <1>2, <1>3

LEMMA ReceiveTaskKeeps == IInv /\ ReceiveTask => IInv'
<1> SUFFICES ASSUME IInv, ReceiveTask PROVE IInv'
  OBVIOUS
<1> USE SocketsAssumption, ServersAssumption, TryAssumption DEF IInv
<1>1. CASE NetworkInit
  <2>1. TypeOK'
    BY <1>1 DEF NetworkInit, TypeOK, MayFd, mqtt, ping, ntp
  <2>2. SlotsConsistent' /\ MqttKnows'
    BY <1>1 DEF NetworkInit, SlotsConsistent, MqttKnows, mqtt, ping
  <2>3. NtpKnows' /\ NtpNamesNothingOlder' /\ NtpHeld'
    BY <1>1, QuietKeepsQuery DEF NetworkInit
  <2>4. Held'
    BY <1>1, <2>3 DEF NetworkInit, Held, NtpHeld, MqttHolds, mqtt
  <2> QED
    BY <2>1, <2>2, <2>3, <2>4 DEF IInv
<1>2. CASE MqttSocket
  <2>1. CASE NoneFree /\ my_socket' = -1 /\ UNCHANGED <<sockets, mqtt_pc>>
    <3>1. TypeOK'
      BY <1>2, <2>1 DEF MqttSocket, NoneFree, Lowest, TypeOK, MayFd, mqtt, ping, ntp
    <3>2. SlotsConsistent' /\ MqttKnows'
      BY <1>2, <2>1 DEF MqttSocket, NoneFree, Lowest, SlotsConsistent, MqttKnows, mqtt, ping
    <3>3. NtpKnows' /\ NtpNamesNothingOlder' /\ NtpHeld'
      BY <1>2, <2>1, QuietKeepsQuery DEF MqttSocket, NoneFree, Lowest
    <3>4. Held'
      BY <1>2, <2>1, <3>3 DEF MqttSocket, NoneFree, Lowest, Held, NtpHeld, MqttHolds, mqtt
    <3> QED
      BY <3>1, <3>2, <3>3, <3>4 DEF IInv
  <2>2. CASE ~NoneFree
    <3>1. PICK f \in Fd : /\ Lowest(f) /\ sockets' = Taken(f, "mqtt")
                          /\ my_socket' = f /\ mqtt_pc' = "socket"
      BY <1>2, <2>2 DEF MqttSocket
    <3>2. Filled(sockets', f, "mqtt")
      BY <3>1, Opening DEF IInv
    <3>3. sockets[f].by = "none" /\ sockets[f].st = "idle"
      BY <3>1 DEF Lowest, Open, SlotsConsistent
    <3>4. mqtt_pc = "open" /\ UNCHANGED <<ping, ntp>>
      BY <1>2 DEF MqttSocket
    <3>5. TypeOK'
      BY <3>1, <3>2, <3>4 DEF TypeOK, Filled, MayFd, ntp, ping
    <3>6. SlotsConsistent' /\ MqttKnows'
      BY <3>1, <3>2, <3>3, <3>4 DEF SlotsConsistent, MqttKnows, Filled, ping
    <3>7. NtpKnows'
      BY <3>2, <3>3, <3>4 DEF TypeOK, NtpKnows, Filled, ntp, Fd, Server, MayFd
    <3>8. NtpNamesNothingOlder'
      BY <3>2, <3>4 DEF TypeOK, NtpNamesNothingOlder, Filled, ntp, Fd, Server, MayFd
    <3>9. Held'
      BY <3>1, <3>2, <3>4 DEF Held, MqttHolds, NtpHolds, Filled, ntp
    <3> QED
      BY <3>5, <3>6, <3>7, <3>8, <3>9 DEF IInv
  <2> QED
    BY <1>2, <2>1, <2>2 DEF MqttSocket, NoneFree, Lowest
<1>3. CASE MqttConnect
  <2>1. CASE sockets[my_socket].by = "mqtt"
    <3>0. Moved(sockets', my_socket, "connect")
      BY <1>3, <2>1, Stating DEF MqttConnect, IInv
    <3>1. TypeOK'
      BY <1>3, <2>1, <3>0 DEF MqttConnect, TypeOK, Moved, Open, MayFd, ntp, ping, mqtt
    <3>2. SlotsConsistent'
      BY <1>3, <2>1, <3>0 DEF MqttConnect, SlotsConsistent, MqttKnows, Moved, Open, mqtt, ping
    <3>3. MqttKnows'
      BY <1>3, <2>1, <3>0 DEF MqttConnect, SlotsConsistent, MqttKnows, Moved, Open, mqtt, ping
    <3>4. NtpKnows' /\ NtpNamesNothingOlder' /\ NtpHeld'
      BY <1>3, <2>1, <3>0, MoveKeepsQuery DEF MqttConnect, MqttKnows, SlotsConsistent, Open
    <3>5. Held'
      BY <1>3, <2>1, <3>0, <3>4 DEF MqttConnect, Held, NtpHeld, MqttHolds, Moved, Open, mqtt
    <3> QED
      BY <3>1, <3>2, <3>3, <3>4, <3>5 DEF IInv
  <2>2. CASE sockets[my_socket].by # "mqtt"
    <3>1. UNCHANGED sockets /\ mqtt_pc' \in {"online", "failed"}
      BY <1>3, <2>2 DEF MqttConnect
    <3>2. TypeOK'
      BY <1>3, <2>2, <3>1 DEF MqttConnect, TypeOK, MayFd, mqtt, ping, ntp
    <3>3. SlotsConsistent' /\ MqttKnows'
      BY <1>3, <2>2, <3>1 DEF MqttConnect, SlotsConsistent, MqttKnows, mqtt, ping
    <3>4. NtpKnows' /\ NtpNamesNothingOlder' /\ NtpHeld'
      BY <1>3, <2>2, <3>1, QuietKeepsQuery DEF MqttConnect
    <3>5. Held'
      BY <1>3, <2>2, <3>1, <3>4 DEF MqttConnect, Held, NtpHeld, MqttHolds, mqtt
    <3> QED
      BY <3>2, <3>3, <3>4, <3>5 DEF IInv
  <2> QED
    BY <2>1, <2>2
<1>4. CASE MqttConnected
  <2>1. PICK x \in {"up", "idle"} :
          /\ sockets' = Now(my_socket, x)
          /\ mqtt_pc' = IF x = "up" THEN "online" ELSE "failed"
    BY <1>4 DEF MqttConnected
  <2>2. mqtt_pc = "connect" /\ UNCHANGED <<my_socket, ping, ntp>>
    BY <1>4 DEF MqttConnected
  <2>3. Moved(sockets', my_socket, x)
    BY <2>1, Stating DEF IInv
  <2>4. TypeOK'
    BY <2>1, <2>2, <2>3 DEF TypeOK, Moved, MayFd, ntp, ping
  <2>5. SlotsConsistent'
    BY <2>1, <2>2, <2>3 DEF SlotsConsistent, MqttKnows, Moved, ping
  <2>6. MqttKnows'
    BY <2>1, <2>2, <2>3 DEF MqttKnows, Moved, ping
  <2>7. NtpKnows' /\ NtpNamesNothingOlder' /\ NtpHeld'
    BY <2>2, <2>3, MoveKeepsQuery DEF MqttKnows
  <2>8. Held'
    BY <2>1, <2>2, <2>3, <2>7 DEF Held, NtpHeld, MqttHolds, Moved
  <2> QED
    BY <2>4, <2>5, <2>6, <2>7, <2>8 DEF IInv
<1>5. CASE MqttConnectFails
  <2>1. mqtt_pc = "failed" /\ mqtt_pc' = "open" /\ UNCHANGED <<my_socket, ping, ntp>>
    BY <1>5 DEF MqttConnectFails
  <2>2. my_socket \in Fd /\ ~Busy(my_socket)
    BY <2>1 DEF MqttKnows, Busy
  <2>3. Freed(sockets', my_socket)
    BY <1>5, <2>2, Closing DEF MqttConnectFails
  <2>4. TypeOK'
    BY <2>1, <2>3 DEF TypeOK, Freed, ntp, ping
  <2>5. SlotsConsistent' /\ MqttKnows'
    BY <2>1, <2>2, <2>3 DEF SlotsConsistent, MqttKnows, Freed, Busy, ping
  <2>6. NtpKnows' /\ NtpNamesNothingOlder' /\ NtpHeld'
    BY <2>1, <2>3, FreeKeepsQuery
  <2>7. Held'
    BY <2>1, <2>2, <2>3, <2>6 DEF Held, NtpHeld, MqttHolds, Freed
  <2> QED
    BY <2>4, <2>5, <2>6, <2>7 DEF IInv
<1>6. CASE MqttSend
  <2>0. Moved(sockets', my_socket, "write")
    BY <1>6, Stating DEF MqttSend, IInv
  <2>1. TypeOK'
    BY <1>6, <2>0 DEF MqttSend, TypeOK, Moved, Open, MayFd, ntp, ping, mqtt
  <2>2. SlotsConsistent'
    BY <1>6, <2>0 DEF MqttSend, SlotsConsistent, MqttKnows, Moved, Open, mqtt, ping
  <2>3. MqttKnows'
    BY <1>6, <2>0 DEF MqttSend, SlotsConsistent, MqttKnows, Moved, Open, mqtt, ping
  <2>4. NtpKnows' /\ NtpNamesNothingOlder' /\ NtpHeld'
    BY <1>6, <2>0, MoveKeepsQuery DEF MqttSend, MqttKnows, SlotsConsistent, Open
  <2>5. Held'
    BY <1>6, <2>0, <2>4 DEF MqttSend, Held, NtpHeld, MqttHolds, Moved, Open, mqtt
  <2> QED
    BY <2>1, <2>2, <2>3, <2>4, <2>5 DEF IInv
<1>7. CASE MqttSent
  <2>0. Moved(sockets', my_socket, "up")
    BY <1>7, Stating DEF MqttSent, IInv
  <2>1. TypeOK'
    BY <1>7, <2>0 DEF MqttSent, TypeOK, Moved, Open, MayFd, ntp, ping, mqtt
  <2>2. SlotsConsistent'
    BY <1>7, <2>0 DEF MqttSent, SlotsConsistent, MqttKnows, Moved, Open, mqtt, ping
  <2>3. MqttKnows'
    BY <1>7, <2>0 DEF MqttSent, SlotsConsistent, MqttKnows, Moved, Open, mqtt, ping
  <2>4. NtpKnows' /\ NtpNamesNothingOlder' /\ NtpHeld'
    BY <1>7, <2>0, MoveKeepsQuery DEF MqttSent, MqttKnows, SlotsConsistent, Open
  <2>5. Held'
    BY <1>7, <2>0, <2>4 DEF MqttSent, Held, NtpHeld, MqttHolds, Moved, Open, mqtt
  <2> QED
    BY <2>1, <2>2, <2>3, <2>4, <2>5 DEF IInv
<1>8. CASE MqttFails
  <2>1. TypeOK'
    BY <1>8 DEF MqttFails, TypeOK, MayFd, mqtt, ping, ntp
  <2>2. SlotsConsistent' /\ MqttKnows'
    BY <1>8 DEF MqttFails, SlotsConsistent, MqttKnows, mqtt, ping
  <2>3. NtpKnows' /\ NtpNamesNothingOlder' /\ NtpHeld'
    BY <1>8, QuietKeepsQuery DEF MqttFails
  <2>4. Held'
    BY <1>8, <2>3 DEF MqttFails, Held, NtpHeld, MqttHolds, mqtt
  <2> QED
    BY <2>1, <2>2, <2>3, <2>4 DEF IInv
<1>9. CASE MqttDisconnect
  <2>1. mqtt_pc = "close" /\ mqtt_pc' = "init" /\ UNCHANGED <<my_socket, ping, ntp>>
    BY <1>9 DEF MqttDisconnect
  <2>2. my_socket \in Fd
    BY <2>1 DEF MqttKnows
  <2>3. CASE Busy(my_socket)
    <3>1. Open(my_socket)
      BY <2>2, <2>3 DEF SlotsConsistent, Busy, Open
    <3>2. /\ sockets' \in [Fd -> Netconn]
          /\ \A g \in Fd : /\ sockets'[g].by = sockets[g].by /\ sockets'[g].st = sockets[g].st
                           /\ sockets'[g].old = sockets[g].old
                           /\ sockets'[g].dropped = (g = my_socket \/ sockets[g].dropped)
      BY <1>9, <2>2, <2>3, <3>1, Dropping DEF MqttDisconnect
    <3>3. TypeOK'
      BY <2>1, <3>2 DEF TypeOK, ntp, ping
    <3>4. SlotsConsistent' /\ MqttKnows'
      BY <2>1, <3>2 DEF SlotsConsistent, MqttKnows, ping
    <3>5. NtpKnows' /\ NtpNamesNothingOlder'
      BY <2>1, <3>2 DEF TypeOK, NtpKnows, NtpNamesNothingOlder, ntp, Fd, Server, MayFd
    <3>6. Held'
      BY <2>1, <3>2 DEF Held, MqttHolds, NtpHolds, ntp
    <3> QED
      BY <3>3, <3>4, <3>5, <3>6 DEF IInv
  <2>4. CASE ~Busy(my_socket)
    <3>1. Freed(sockets', my_socket)
      BY <1>9, <2>4, Closing DEF MqttDisconnect
    <3>2. TypeOK'
      BY <2>1, <3>1 DEF TypeOK, Freed, ntp, ping
    <3>3. SlotsConsistent' /\ MqttKnows'
      BY <2>1, <2>2, <2>4, <3>1 DEF SlotsConsistent, MqttKnows, Freed, Busy, ping
    <3>4. NtpKnows' /\ NtpNamesNothingOlder' /\ NtpHeld'
      BY <2>1, <3>1, FreeKeepsQuery
    <3>5. Held'
      BY <2>1, <2>2, <3>1, <3>4 DEF Held, NtpHeld, MqttHolds, Freed
    <3> QED
      BY <3>2, <3>3, <3>4, <3>5 DEF IInv
  <2> QED
    BY <2>3, <2>4
<1> QED
  BY <1>1, <1>2, <1>3, <1>4, <1>5, <1>6, <1>7, <1>8, <1>9 DEF ReceiveTask

LEMMA PingTaskKeeps == IInv /\ PingTask => IInv'
<1> SUFFICES ASSUME IInv, PingTask PROVE IInv'
  OBVIOUS
<1> USE SocketsAssumption, ServersAssumption, TryAssumption DEF IInv
<1>1. CASE PingCheck
  <2>1. TypeOK'
    BY <1>1 DEF PingCheck, TypeOK, MayFd, mqtt, ping, ntp
  <2>2. SlotsConsistent' /\ MqttKnows'
    BY <1>1 DEF PingCheck, SlotsConsistent, MqttKnows, mqtt, ping
  <2>3. NtpKnows' /\ NtpNamesNothingOlder' /\ NtpHeld'
    BY <1>1, QuietKeepsQuery DEF PingCheck
  <2>4. Held'
    BY <1>1, <2>3 DEF PingCheck, Held, NtpHeld, MqttHolds, mqtt
  <2> QED
    BY <2>1, <2>2, <2>3, <2>4 DEF IInv
<1>2. CASE PingSend
  <2>1. TypeOK'
    BY <1>2 DEF PingSend, TypeOK, MayFd, mqtt, ping, ntp
  <2>2. SlotsConsistent' /\ MqttKnows'
    BY <1>2 DEF PingSend, SlotsConsistent, MqttKnows, mqtt, ping
  <2>3. NtpKnows' /\ NtpNamesNothingOlder' /\ NtpHeld'
    BY <1>2, QuietKeepsQuery DEF PingSend
  <2>4. Held'
    BY <1>2, <2>3 DEF PingSend, Held, NtpHeld, MqttHolds, mqtt
  <2> QED
    BY <2>1, <2>2, <2>3, <2>4 DEF IInv
<1>3. CASE PingBlocks
  <2>0. Moved(sockets', my_socket, "write")
    BY <1>3, Stating DEF PingBlocks, IInv
  <2>1. TypeOK'
    BY <1>3, <2>0 DEF PingBlocks, TypeOK, Moved, Open, MayFd, ntp, ping, mqtt
  <2>2. SlotsConsistent'
    BY <1>3, <2>0 DEF PingBlocks, SlotsConsistent, MqttKnows, Moved, Open, mqtt, ping
  <2>3. MqttKnows'
    BY <1>3, <2>0 DEF PingBlocks, SlotsConsistent, MqttKnows, Moved, Open, mqtt, ping
  <2>4. NtpKnows' /\ NtpNamesNothingOlder' /\ NtpHeld'
    BY <1>3, <2>0, MoveKeepsQuery DEF PingBlocks, MqttKnows, SlotsConsistent, Open
  <2>5. Held'
    BY <1>3, <2>0, <2>4 DEF PingBlocks, Held, NtpHeld, MqttHolds, Moved, Open, mqtt
  <2> QED
    BY <2>1, <2>2, <2>3, <2>4, <2>5 DEF IInv
<1>4. CASE PingUnblocks
  <2>0. Moved(sockets', ping_fd, "up")
    BY <1>4, Stating DEF PingUnblocks, IInv
  <2>1. TypeOK'
    BY <1>4, <2>0 DEF PingUnblocks, TypeOK, Moved, Open, MayFd, ntp, ping, mqtt
  <2>2. SlotsConsistent'
    BY <1>4, <2>0 DEF PingUnblocks, SlotsConsistent, MqttKnows, Moved, Open, mqtt, ping
  <2>3. MqttKnows'
    BY <1>4, <2>0 DEF PingUnblocks, SlotsConsistent, MqttKnows, Moved, Open, mqtt, ping
  <2>4. NtpKnows' /\ NtpNamesNothingOlder' /\ NtpHeld'
    BY <1>4, <2>0, MoveKeepsQuery DEF PingUnblocks, MqttKnows, SlotsConsistent, Open
  <2>5. Held'
    BY <1>4, <2>0, <2>4 DEF PingUnblocks, Held, NtpHeld, MqttHolds, Moved, Open, mqtt
  <2> QED
    BY <2>1, <2>2, <2>3, <2>4, <2>5 DEF IInv
<1> QED
  BY <1>1, <1>2, <1>3, <1>4 DEF PingTask

LEMMA MainTaskKeeps == IInv /\ MainTask => IInv'
<1> SUFFICES ASSUME IInv, MainTask PROVE IInv'
  OBVIOUS
<1> USE SocketsAssumption, ServersAssumption, TryAssumption DEF IInv
<1>1. CASE NtpQuery
  <2>0. /\ sockets' \in [Fd -> Netconn]
        /\ \A g \in Fd : /\ sockets'[g].by = sockets[g].by /\ sockets'[g].st = sockets[g].st
                         /\ sockets'[g].dropped = sockets[g].dropped
    BY <1>1, Aging DEF NtpQuery
  <2>1. ntp_pc = "idle" /\ ntp_pc' = "reset" /\ UNCHANGED <<mqtt, ping>>
    BY <1>1 DEF NtpQuery
  <2>2. s' = [k \in Server |-> -1] /\ avail' \in 1..NtpServers /\ try' = 0 /\ servernum' = 0
        /\ retval' = FALSE
    BY <1>1 DEF NtpQuery
  <2>3. TypeOK'
    <3>1. s' \in [Server -> MayFd]
      BY <2>2 DEF MayFd
    <3>2. avail' \in 0..NtpServers /\ servernum' \in 0..NtpServers /\ try' \in 0..MaxTry
      BY <2>2
    <3>3. retval' \in BOOLEAN
      BY <2>2
    <3> QED
      BY <2>0, <2>1, <3>1, <3>2, <3>3 DEF TypeOK, mqtt, ping
  <2>4. SlotsConsistent' /\ MqttKnows'
    BY <2>0, <2>1 DEF SlotsConsistent, MqttKnows, mqtt, ping
  <2>5. NtpKnows' /\ NtpNamesNothingOlder'
    BY <2>1, <2>2 DEF NtpKnows, NtpNamesNothingOlder, Fd, Server
  <2>6. Held'
    BY <2>0, <2>1 DEF Held, MqttHolds, NtpHolds, mqtt
  <2> QED
    BY <2>3, <2>4, <2>5, <2>6 DEF IInv
<1>2. CASE NtpReset
  <2>0. UNCHANGED <<mqtt, ping>> /\ sockets' = Closed(s[servernum]) /\ servernum \in Server
    BY <1>2 DEF NtpReset, TypeOK, NtpKnows, Server
  <2>1. CASE Busy(s[servernum]) /\ s[servernum] \in Fd
    <3>1. UNCHANGED sockets /\ sockets[s[servernum]].by # "ntp"
      BY <2>0, <2>1, ClosingBusy DEF Busy, SlotsConsistent
    <3>2. TypeOK'
      BY <1>2, <3>1 DEF NtpReset, TypeOK, NtpKnows, Server, MayFd, mqtt, ping
    <3>3. SlotsConsistent' /\ MqttKnows'
      BY <2>0, <3>1 DEF SlotsConsistent, MqttKnows, mqtt, ping
    <3>4. NtpKnows'
      BY <1>2, <3>1 DEF NtpReset, TypeOK, NtpKnows, Server, MayFd, Fd
    <3>5. NtpNamesNothingOlder'
      BY <1>2, <3>1 DEF NtpReset, TypeOK, NtpNamesNothingOlder, Server, MayFd, Fd
    <3>6. Held'
      BY <1>2, <2>0, <3>1 DEF NtpReset, TypeOK, Held, MqttHolds, NtpHolds, Server, mqtt
    <3> QED
      BY <3>2, <3>3, <3>4, <3>5, <3>6 DEF IInv
  <2>2. CASE ~(Busy(s[servernum]) /\ s[servernum] \in Fd)
    <3>1. Freed(sockets', s[servernum])
      BY <2>0, <2>2, Closing
    <3>2. TypeOK'
      BY <1>2, <3>1 DEF NtpReset, TypeOK, NtpKnows, Freed, Server, MayFd, mqtt, ping
    <3>3. SlotsConsistent' /\ MqttKnows' /\ MqttHeld'
      BY <2>0, <2>2, <3>1, FreeKeepsTasks
    <3>4. NtpKnows'
      BY <1>2, <3>1 DEF NtpReset, TypeOK, NtpKnows, Freed, Server, MayFd, Fd
    <3>5. NtpNamesNothingOlder'
      BY <1>2, <3>1 DEF NtpReset, TypeOK, NtpNamesNothingOlder, Freed, Server, MayFd, Fd
    <3>6. Held'
      BY <1>2, <3>1, <3>3 DEF NtpReset, TypeOK, Held, MqttHeld, NtpHolds, Freed, Server
    <3> QED
      BY <3>2, <3>3, <3>4, <3>5, <3>6 DEF IInv
  <2> QED
    BY <2>1, <2>2
<1>3. CASE NtpTry
  <2>1. TypeOK'
    BY <1>3 DEF NtpTry, TypeOK, NtpKnows, Server, MayFd, mqtt, ping
  <2>2. SlotsConsistent' /\ MqttKnows' /\ MqttHeld'
    BY <1>3, QuietKeepsTasks DEF NtpTry
  <2>3. NtpKnows' /\ NtpNamesNothingOlder'
    BY <1>3
      DEF NtpTry, TypeOK, NtpKnows, NtpNamesNothingOlder, Server, MayFd, Fd
  <2>4. Held'
    BY <1>3, <2>2
      DEF NtpTry, TypeOK, NtpKnows, Held, MqttHeld, NtpHolds, Server, Fd
  <2> QED
    BY <2>1, <2>2, <2>3, <2>4 DEF IInv
<1>4. CASE NtpSocket
  <2>1. CASE NoneFree /\ servernum' = servernum + 1 /\ UNCHANGED <<sockets, ntp_pc>>
    <3>1. TypeOK'
      BY <1>4, <2>1 DEF NtpSocket, NoneFree, Lowest, TypeOK, NtpKnows, Server, MayFd, mqtt, ping
    <3>2. SlotsConsistent' /\ MqttKnows' /\ MqttHeld'
      BY <1>4, <2>1, QuietKeepsTasks DEF NtpSocket, NoneFree, Lowest
    <3>3. NtpKnows' /\ NtpNamesNothingOlder'
      BY <1>4, <2>1
        DEF NtpSocket, NoneFree, Lowest, TypeOK, NtpKnows, NtpNamesNothingOlder, Server, MayFd, Fd
    <3>4. Held'
      BY <1>4, <2>1, <3>2
        DEF NtpSocket, NoneFree, Lowest, TypeOK, NtpKnows, Held, MqttHeld, NtpHolds, Server, Fd
    <3> QED
      BY <3>1, <3>2, <3>3, <3>4 DEF IInv
  <2>2. CASE ~NoneFree
    <3>1. PICK f \in Fd : /\ Lowest(f) /\ sockets' = Taken(f, "ntp")
                          /\ s' = [s EXCEPT ![servernum] = f]
                          /\ ntp_pc' = "sendto" /\ UNCHANGED servernum
      BY <1>4, <2>2 DEF NtpSocket
    <3>2. Filled(sockets', f, "ntp")
      BY <3>1, Opening DEF IInv
    <3>3. sockets[f].by = "none" /\ sockets[f].st = "idle"
      BY <3>1 DEF Lowest, Open, SlotsConsistent
    <3>4. /\ ntp_pc = "socket" /\ servernum < avail /\ servernum \in Server
          /\ UNCHANGED <<try, avail, retval, mqtt, ping>>
      BY <1>4 DEF NtpSocket, TypeOK, Server
    <3>5. TypeOK'
      BY <3>1, <3>2, <3>4 DEF TypeOK, Filled, MayFd, mqtt, ping
    <3>6. SlotsConsistent' /\ MqttKnows'
      BY <3>2, <3>3, <3>4 DEF SlotsConsistent, MqttKnows, Filled, mqtt, ping
    <3>7. NtpKnows'
      BY <3>1, <3>4 DEF TypeOK, NtpKnows, Server
    <3>8. NtpNamesNothingOlder'
      BY <3>1, <3>2, <3>4 DEF TypeOK, NtpNamesNothingOlder, Filled, Fd, Server, MayFd
    <3>9. Held'
      BY <3>1, <3>2, <3>3, <3>4
      DEF TypeOK, NtpKnows, Held, MqttHolds, NtpHolds, Filled, Fd, Server, mqtt
    <3> QED
      BY <3>5, <3>6, <3>7, <3>8, <3>9 DEF IInv
  <2> QED
    BY <1>4, <2>1, <2>2 DEF NtpSocket, NoneFree, Lowest
<1>5. CASE NtpSendto
  <2>1. TypeOK'
    BY <1>5 DEF NtpSendto, TypeOK, NtpKnows, Server, MayFd, mqtt, ping
  <2>2. SlotsConsistent' /\ MqttKnows' /\ MqttHeld'
    BY <1>5, QuietKeepsTasks DEF NtpSendto
  <2>3. NtpKnows' /\ NtpNamesNothingOlder'
    BY <1>5
      DEF NtpSendto, TypeOK, NtpKnows, NtpNamesNothingOlder, Server, MayFd, Fd
  <2>4. Held'
    BY <1>5, <2>2
      DEF NtpSendto, TypeOK, NtpKnows, Held, MqttHeld, NtpHolds, Server, Fd
  <2> QED
    BY <2>1, <2>2, <2>3, <2>4 DEF IInv
<1>6. CASE NtpSendtoFails
  <2>0. UNCHANGED <<mqtt, ping>> /\ sockets' = Closed(s[servernum]) /\ servernum \in Server
    BY <1>6 DEF NtpSendtoFails, TypeOK, NtpKnows, Server
  <2>1. CASE Busy(s[servernum]) /\ s[servernum] \in Fd
    <3>1. UNCHANGED sockets /\ sockets[s[servernum]].by # "ntp"
      BY <2>0, <2>1, ClosingBusy DEF Busy, SlotsConsistent
    <3>2. TypeOK'
      BY <1>6, <3>1 DEF NtpSendtoFails, TypeOK, NtpKnows, Server, MayFd, mqtt, ping
    <3>3. SlotsConsistent' /\ MqttKnows'
      BY <2>0, <3>1 DEF SlotsConsistent, MqttKnows, mqtt, ping
    <3>4. NtpKnows'
      BY <1>6, <3>1 DEF NtpSendtoFails, TypeOK, NtpKnows, Server, MayFd, Fd
    <3>5. NtpNamesNothingOlder'
      BY <1>6, <3>1 DEF NtpSendtoFails, TypeOK, NtpNamesNothingOlder, Server, MayFd, Fd
    <3>6. Held'
      BY <1>6, <2>0, <3>1 DEF NtpSendtoFails, TypeOK, Held, MqttHolds, NtpHolds, Server, mqtt
    <3> QED
      BY <3>2, <3>3, <3>4, <3>5, <3>6 DEF IInv
  <2>2. CASE ~(Busy(s[servernum]) /\ s[servernum] \in Fd)
    <3>1. Freed(sockets', s[servernum])
      BY <2>0, <2>2, Closing
    <3>2. TypeOK'
      BY <1>6, <3>1 DEF NtpSendtoFails, TypeOK, NtpKnows, Freed, Server, MayFd, mqtt, ping
    <3>3. SlotsConsistent' /\ MqttKnows' /\ MqttHeld'
      BY <2>0, <2>2, <3>1, FreeKeepsTasks
    <3>4. NtpKnows'
      BY <1>6, <3>1 DEF NtpSendtoFails, TypeOK, NtpKnows, Freed, Server, MayFd, Fd
    <3>5. NtpNamesNothingOlder'
      BY <1>6, <3>1 DEF NtpSendtoFails, TypeOK, NtpNamesNothingOlder, Freed, Server, MayFd, Fd
    <3>6. Held'
      BY <1>6, <3>1, <3>3 DEF NtpSendtoFails, TypeOK, Held, MqttHeld, NtpHolds, Freed, Server
    <3> QED
      BY <3>2, <3>3, <3>4, <3>5, <3>6 DEF IInv
  <2> QED
    BY <2>1, <2>2
<1>7. CASE NtpSelect
  <2>1. TypeOK'
    BY <1>7 DEF NtpSelect, TypeOK, NtpKnows, Server, MayFd, mqtt, ping
  <2>2. SlotsConsistent' /\ MqttKnows' /\ MqttHeld'
    BY <1>7, QuietKeepsTasks DEF NtpSelect
  <2>3. NtpKnows' /\ NtpNamesNothingOlder'
    BY <1>7
      DEF NtpSelect, TypeOK, NtpKnows, NtpNamesNothingOlder, Server, MayFd, Fd
  <2>4. Held'
    BY <1>7, <2>2
      DEF NtpSelect, TypeOK, NtpKnows, Held, MqttHeld, NtpHolds, Server, Fd
  <2> QED
    BY <2>1, <2>2, <2>3, <2>4 DEF IInv
<1>8. CASE NtpRecv
  <2>1. TypeOK'
    <3>1. retval' \in BOOLEAN
      BY <1>8, Zenon DEF NtpRecv, TypeOK
    <3>2. servernum' \in 0..NtpServers /\ ntp_pc' \in {"recv", "finish"}
      BY <1>8 DEF NtpRecv, TypeOK
    <3>3. UNCHANGED <<sockets, s, try, avail, mqtt, ping>>
      BY <1>8 DEF NtpRecv
    <3> QED
      BY <3>1, <3>2, <3>3 DEF TypeOK, mqtt, ping
  <2>2. SlotsConsistent' /\ MqttKnows' /\ MqttHeld'
    BY <1>8, QuietKeepsTasks DEF NtpRecv
  <2>3. NtpKnows' /\ NtpNamesNothingOlder'
    BY <1>8
      DEF NtpRecv, TypeOK, NtpKnows, NtpNamesNothingOlder, Server, MayFd, Fd
  <2>4. Held'
    BY <1>8, <2>2
      DEF NtpRecv, TypeOK, NtpKnows, Held, MqttHeld, NtpHolds, Server, Fd
  <2> QED
    BY <2>1, <2>2, <2>3, <2>4 DEF IInv
<1>9. CASE NtpFinish
  <2>0. UNCHANGED <<mqtt, ping>> /\ sockets' = Closed(s[servernum]) /\ servernum \in Server
    BY <1>9 DEF NtpFinish, TypeOK, NtpKnows, Server
  <2>1. CASE Busy(s[servernum]) /\ s[servernum] \in Fd
    <3>1. UNCHANGED sockets /\ sockets[s[servernum]].by # "ntp"
      BY <2>0, <2>1, ClosingBusy DEF Busy, SlotsConsistent
    <3>2. TypeOK'
      BY <1>9, <3>1 DEF NtpFinish, TypeOK, NtpKnows, Server, MayFd, mqtt, ping
    <3>3. SlotsConsistent' /\ MqttKnows'
      BY <2>0, <3>1 DEF SlotsConsistent, MqttKnows, mqtt, ping
    <3>4. NtpKnows'
      BY <1>9, <3>1 DEF NtpFinish, TypeOK, NtpKnows, Server, MayFd, Fd
    <3>5. NtpNamesNothingOlder'
      BY <1>9, <3>1 DEF NtpFinish, TypeOK, NtpNamesNothingOlder, Server, MayFd, Fd
    <3>6. Held'
      BY <1>9, <2>0, <3>1 DEF NtpFinish, TypeOK, Held, MqttHolds, NtpHolds, Server, mqtt
    <3> QED
      BY <3>2, <3>3, <3>4, <3>5, <3>6 DEF IInv
  <2>2. CASE ~(Busy(s[servernum]) /\ s[servernum] \in Fd)
    <3>1. Freed(sockets', s[servernum])
      BY <2>0, <2>2, Closing
    <3>2. TypeOK'
      BY <1>9, <3>1 DEF NtpFinish, TypeOK, NtpKnows, Freed, Server, MayFd, mqtt, ping
    <3>3. SlotsConsistent' /\ MqttKnows' /\ MqttHeld'
      BY <2>0, <2>2, <3>1, FreeKeepsTasks
    <3>4. NtpKnows'
      BY <1>9, <3>1 DEF NtpFinish, TypeOK, NtpKnows, Freed, Server, MayFd, Fd
    <3>5. NtpNamesNothingOlder'
      BY <1>9, <3>1 DEF NtpFinish, TypeOK, NtpNamesNothingOlder, Freed, Server, MayFd, Fd
    <3>6. Held'
      BY <1>9, <3>1, <3>3 DEF NtpFinish, TypeOK, Held, MqttHeld, NtpHolds, Freed, Server
    <3> QED
      BY <3>2, <3>3, <3>4, <3>5, <3>6 DEF IInv
  <2> QED
    BY <2>1, <2>2
<1>10. CASE NtpNextTry
  <2>1. TypeOK'
    BY <1>10 DEF NtpNextTry, TypeOK, NtpKnows, Server, MayFd, mqtt, ping
  <2>2. SlotsConsistent' /\ MqttKnows' /\ MqttHeld'
    BY <1>10, QuietKeepsTasks DEF NtpNextTry
  <2>3. NtpKnows' /\ NtpNamesNothingOlder'
    BY <1>10
      DEF NtpNextTry, TypeOK, NtpKnows, NtpNamesNothingOlder, Server, MayFd, Fd
  <2>4. Held'
    BY <1>10, <2>2
      DEF NtpNextTry, TypeOK, NtpKnows, Held, MqttHeld, NtpHolds, Server, Fd
  <2> QED
    BY <2>1, <2>2, <2>3, <2>4 DEF IInv
<1> QED
  BY <1>1, <1>2, <1>3, <1>4, <1>5, <1>6, <1>7, <1>8, <1>9, <1>10 DEF MainTask

LEMMA InvariantInit == Init => IInv
<1> SUFFICES ASSUME Init PROVE IInv
  OBVIOUS
<1> USE SocketsAssumption, ServersAssumption, TryAssumption DEF Init
<1>1. TypeOK
  <2>1. sockets \in [Fd -> Netconn] /\ s \in [Server -> MayFd]
    BY DEF Free, New, Netconn, MayFd
  <2>2. retval \in BOOLEAN
    OBVIOUS
  <2>3. servernum \in 0..NtpServers /\ try \in 0..MaxTry /\ avail \in 0..NtpServers
    OBVIOUS
  <2> QED
    BY <2>1, <2>2, <2>3 DEF TypeOK, MayFd
<1>2. SlotsConsistent /\ MqttKnows
  BY DEF SlotsConsistent, MqttKnows, Free, New
<1>3. NtpKnows /\ NtpNamesNothingOlder
  BY DEF NtpKnows, NtpNamesNothingOlder
<1>4. Held
  BY DEF Held, Free, New
<1> QED
  BY <1>1, <1>2, <1>3, <1>4 DEF IInv

LEMMA InvariantStep == IInv /\ [Next]_vars => IInv'
<1> SUFFICES ASSUME IInv, [Next]_vars PROVE IInv'
  OBVIOUS
<1>1. CASE ReceiveTask
  BY <1>1, ReceiveTaskKeeps
<1>2. CASE PingTask
  BY <1>2, PingTaskKeeps
<1>3. CASE MainTask
  BY <1>3, MainTaskKeeps
<1>4. CASE UNCHANGED vars
  BY <1>4 DEF IInv, TypeOK, SlotsConsistent, MqttKnows, NtpKnows, NtpNamesNothingOlder, Held,
              MqttHolds, NtpHolds, vars, mqtt, ping, ntp
<1> QED
  BY <1>1, <1>2, <1>3, <1>4 DEF Next

LEMMA Invariance == Spec => []IInv
<1> QED
  BY InvariantInit, InvariantStep, PTL DEF Spec

\* A step of the main task closes only what s names, and s names nothing older than the query.
LEMMA StepSparesOlder ==
  IInv /\ [Next]_vars => \A f \in Fd : MqttLoses(f) => ~sockets[f].old
<1> SUFFICES ASSUME IInv, [Next]_vars, NEW f \in Fd, MqttLoses(f) PROVE ~sockets[f].old
  OBVIOUS
<1> USE ServersAssumption DEF IInv
<1>1. sockets[f].by = "mqtt" /\ sockets'[f].by # "mqtt" /\ mqtt_pc' = mqtt_pc
  BY DEF MqttLoses
<1>2. ASSUME NEW k \in Server, ntp_pc # "idle", sockets' = Closed(s[k]) PROVE ~sockets[f].old
  <2>1. s[k] = f
    BY <1>1, <1>2 DEF Closed, TypeOK, Open
  <2> QED
    BY <1>1, <1>2, <2>1 DEF NtpNamesNothingOlder
<1>3. CASE ReceiveTask
  BY <1>1, <1>3 DEF ReceiveTask, NetworkInit, MqttSocket, MqttConnect, MqttConnected,
    MqttConnectFails, MqttSend, MqttSent, MqttFails, MqttDisconnect
<1>4. CASE PingTask
  <2>1. UNCHANGED sockets \/ \E g : Moved(sockets', g, "write") \/ Moved(sockets', g, "up")
    BY <1>4, Stating DEF PingTask, PingCheck, PingSend, PingBlocks, PingUnblocks
  <2> QED
    BY <1>1, <2>1 DEF Moved
<1>5. CASE NtpQuery
  BY <1>1, <1>5, Aging DEF NtpQuery
<1>6. CASE NtpReset \/ NtpSendtoFails \/ NtpFinish
  <2>1. servernum \in Server /\ ntp_pc # "idle" /\ sockets' = Closed(s[servernum])
    BY <1>6 DEF NtpReset, NtpSendtoFails, NtpFinish, TypeOK, NtpKnows, Server
  <2> QED
    BY <1>2, <2>1
<1>7. CASE NtpSocket
  <2>1. CASE UNCHANGED sockets
    BY <1>1, <2>1
  <2>2. CASE sockets' # sockets
    <3>1. PICK g \in Fd : Lowest(g) /\ sockets' = Taken(g, "ntp")
      BY <1>7, <2>2 DEF NtpSocket
    <3>2. Filled(sockets', g, "ntp")
      BY <3>1, Opening
    <3>3. f # g
      BY <1>1, <3>1 DEF Lowest, Open
    <3> QED
      BY <1>1, <3>2, <3>3 DEF Filled
  <2> QED
    BY <2>1, <2>2
<1>8. CASE NtpTry \/ NtpSendto \/ NtpSelect \/ NtpRecv \/ NtpNextTry \/ UNCHANGED vars
  BY <1>1, <1>8 DEF NtpTry, NtpSendto, NtpSelect, NtpRecv, NtpNextTry, vars
<1> QED
  BY <1>3, <1>4, <1>5, <1>6, <1>7, <1>8 DEF Next, MainTask

(***************************************************************************)
(* The theorems.                                                           *)
(***************************************************************************)

\* Every variable keeps its type, whatever the three tasks do to each other's descriptors.
THEOREM TypeCorrect == Spec => []TypeOK
<1>1. IInv => TypeOK
  BY DEF IInv
<1> QED
  BY Invariance, <1>1, PTL

\* No netconn is lost but by a closesocket() lwIP refused.
THEOREM NoLeak == Spec => []Held
<1>1. IInv => Held
  BY DEF IInv
<1> QED
  BY Invariance, <1>1, PTL

\* An NTP query never closes an MQTT connection that was open when it began.
THEOREM QuerySparesSession == Spec => EstablishedSurvives
<1>1. IInv /\ [Next]_vars => [\A f \in Fd : MqttLoses(f) => ~sockets[f].old]_vars
  BY StepSparesOlder
<1> QED
  BY Invariance, <1>1, PTL DEF Spec, EstablishedSurvives

================================================================================
