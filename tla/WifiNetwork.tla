------------------------------ MODULE WifiNetwork ------------------------------
(***************************************************************************)
(* How the firmware gets onto a network: wifinetwork.c starts a station or *)
(* an access point, the Wi-Fi driver reports what becomes of it to two     *)
(* callbacks, the first of which (tls_sys.c) queues a message for the      *)
(* system task and the second of which (wifinetwork.c) sets the status     *)
(* that the application reads.  The system task brings the interface up    *)
(* or down, starts and stops the DHCP client (AddressLease, which          *)
(* DhcpClient implements), and connects again.                             *)
(*                                                                         *)
(* Messages get lost: what is sent to the system task is allocated first,  *)
(* and nobody hears of it when that fails or the queue is full.            *)
(*                                                                         *)
(* The driver is a binary.  What is assumed of it: a request to connect is *)
(* answered by one success or failure, some time after the system task has *)
(* handled what was queued before, and at boot not before                  *)
(* wifinetwork_init() has returned; without a name of a network in the     *)
(* parameters it is refused.  A connected station or access point is lost  *)
(* with a report.  An access point is refused before a station can have    *)
(* connected.  tls_wifi_auto_connect_flag() is on and the parameter        *)
(* WPROTOCOL at its default, a station, as nothing in the firmware changes *)
(* them, and wifinetwork_init() has the memory to register its callback.   *)
(***************************************************************************)
EXTENDS Naturals, Sequences, SequencesExt

CONSTANTS
  Address, NoAddress, MaxLease,
  SYS_MSG_SIZE,  \* length of the system task's queue
  MaxStations    \* that an access point admits

ASSUME NetworkAssumption ==
  /\ NoAddress \notin Address /\ MaxLease \in Nat
  /\ SYS_MSG_SIZE \in Nat \ {0} /\ MaxStations \in 0..255

VARIABLES
  sys, up, phase, addr, left, told,  \* the station's interface, as in AddressLease
  stored,        \* the parameters name a network: TLS_PARAM_ID_SSID
  link,          \* the driver's station: "idle", "joining", "joined"
  softap,        \* the driver's access point: "idle", "creating", "running"
  queue,         \* messages for the system task
  status,        \* wifinet_status
  ethif_status,  \* what tls_netif_get_ethif() tells the demos and the libraries
  ap,            \* the access point's interface, and its DHCP and DNS servers
  stations,      \* the number of stations with the access point
  starved        \* history: the interfaces for which memory was missing since they were last down

Netif == INSTANCE AddressLease

station == <<phase, addr, left, told>>
netif == <<sys, up, station>>
driver == <<stored, link, softap, stations>>
vars == <<netif, driver, queue, status, ethif_status, ap, starved>>

-----------------------------------------------------------------------------
(* The callbacks *)

Status ==
  [is_enable : BOOLEAN, is_ap : BOOLEAN, is_connect_ap : BOOLEAN, is_sta_ip_ok : BOOLEAN,
   is_ap_running : BOOLEAN, softap_sta_num : 0..255]

ZeroStatus ==
  [is_enable |-> FALSE, is_ap |-> FALSE, is_connect_ap |-> FALSE, is_sta_ip_ok |-> FALSE,
   is_ap_running |-> FALSE, softap_sta_num |-> 0]

StationMessage == {"NET_UP", "NET_DOWN", "CONNECT_FAILED"}
ApMessage == {"NET2_UP", "NET2_DOWN", "NET2_FAIL"}
Message == StationMessage \cup ApMessage \cup {"AUTO_MODE_RUN"}

Interface(m) == IF m \in StationMessage THEN "station" ELSE "softap"

\* mutated form: the queue grows
SendGrowing(m) == queue' = Append(queue, m) /\ UNCHANGED starved

\* tls_mem_alloc() may fail at any time, and what does not fit into the queue is lost as well:
\* the result of tls_os_queue_send() is not looked at.
tls_sys_send_msg(m) ==
  \/ Len(queue) < SYS_MSG_SIZE /\ queue' = Append(queue, m) /\ UNCHANGED starved
  \/ UNCHANGED queue /\ starved' = starved \cup {Interface(m)}

\* NETIF_IP_NET_UP
IpNetUp ==
  /\ status' = [status EXCEPT !.is_sta_ip_ok = TRUE] /\ ethif_status' = TRUE
  /\ UNCHANGED <<queue, starved>>

\* mutated form: the status is left to the next success
JoinFailedKeepsStatus ==
  /\ tls_sys_send_msg("CONNECT_FAILED") /\ UNCHANGED <<status, ethif_status>>

\* NETIF_WIFI_JOIN_FAILED, from the driver or from the DHCP client
WifiJoinFailed ==
  /\ tls_sys_send_msg("CONNECT_FAILED") /\ status' = ZeroStatus
  /\ UNCHANGED ethif_status

NoReport == UNCHANGED <<queue, status, ethif_status, starved>>

\* NETIF_IP_NET2_UP
IpNet2Up == status' = [status EXCEPT !.is_ap_running = TRUE]

-----------------------------------------------------------------------------
(* wifinetwork_init() has asked for a connection, or for an access point, and does not look whether
   it was refused.  task_start() has told the system task to connect as well, in either mode. *)

OffAp == [up |-> FALSE, addressed |-> FALSE, serving |-> FALSE]

StationInit ==
  /\ stored = TRUE /\ link = "joining" /\ softap = "idle" /\ starved = {}

ApInit ==
  /\ stored \in BOOLEAN /\ link = "idle" /\ softap \in {"creating", "idle"}
  /\ starved = IF queue = <<>> THEN {"station"} ELSE {}

Init ==
  /\ Netif!Init
  /\ queue \in {<<>>, <<"AUTO_MODE_RUN">>}
  /\ StationInit \/ ApInit
  /\ status = ZeroStatus /\ ethif_status = FALSE /\ ap = OffAp /\ stations = 0

Quiet == queue = <<>> /\ sys = "idle"

-----------------------------------------------------------------------------
(* What the driver reports of a station *)

ApAlone == UNCHANGED <<softap, ap, stations>>

JoinSuccess ==
  /\ link = "joining" /\ Quiet /\ link' = "joined"
  /\ tls_sys_send_msg("NET_UP")
  /\ status' = [ZeroStatus EXCEPT !.is_enable = TRUE, !.is_connect_ap = TRUE]
  /\ ApAlone /\ UNCHANGED <<netif, stored, ethif_status>>

JoinFailed ==
  /\ link = "joining" /\ Quiet /\ link' = "idle"
  /\ WifiJoinFailed /\ ApAlone /\ UNCHANGED <<netif, stored>>

Disconnected ==
  /\ link = "joined" /\ link' = "idle"
  /\ tls_sys_send_msg("NET_DOWN") /\ status' = ZeroStatus
  /\ ApAlone /\ UNCHANGED <<netif, stored, ethif_status>>

-----------------------------------------------------------------------------
(* What the DHCP client does in the thread of lwIP.  netif_status_changed() passes its reports
   on to the two callbacks. *)

Client == UNCHANGED <<driver, ap>>

Obtain(a) ==
  /\ Netif!Obtain(a) /\ Client
  /\ IF a = addr THEN NoReport ELSE IpNetUp

Lose ==
  /\ Netif!Lose /\ Client
  /\ IF told' = "failed" THEN WifiJoinFailed ELSE NoReport

\* mutated form: the search ends without a report
GiveUpSilently == Netif!GiveUp /\ Client /\ NoReport

\* Ten tries take longer than the system task needs for the message of the last search.
GiveUp ==
  /\ ~Contains(queue, "CONNECT_FAILED") /\ Netif!GiveUp /\ Client /\ WifiJoinFailed

Waits == (Netif!Tick \/ Netif!Resume) /\ Client /\ NoReport

-----------------------------------------------------------------------------
(* The system task, and the station *)

Take(ms) == sys = "idle" /\ queue # <<>> /\ Head(queue) \in ms /\ queue' = Tail(queue)

Unread == UNCHANGED <<stored, softap, stations, status, ap>>

\* The default of WPROTOCOL: it is a station that connects, with the network of the parameters.
tls_auto_reconnect == link' = IF stored THEN "joining" ELSE link

AutoModeRun ==
  /\ Take({"AUTO_MODE_RUN"}) /\ tls_auto_reconnect
  /\ Unread /\ UNCHANGED <<netif, ethif_status, starved>>

TakeNetUp ==
  /\ Take({"NET_UP"}) /\ Netif!NetUpClear /\ Unread /\ UNCHANGED <<link, ethif_status, starved>>

\* The result of tls_dhcp_start() is not looked at.
NetUp ==
  /\ \/ Netif!NetUpRaise /\ UNCHANGED starved
     \/ /\ Netif!NetUpStart
        /\ starved' = IF phase' = "off" THEN starved \cup {"station"} ELSE starved
  /\ Unread /\ UNCHANGED <<link, queue, ethif_status>>

\* mutated form: after a failure there is nothing to take down
ConnectFailedOnlyConnects ==
  /\ \/ Take({"NET_DOWN"}) /\ Netif!NetDownStop /\ UNCHANGED link
     \/ Take({"CONNECT_FAILED"}) /\ UNCHANGED netif /\ tls_auto_reconnect
  /\ Unread /\ UNCHANGED <<ethif_status, starved>>

TakeNetDown ==
  /\ Take({"NET_DOWN", "CONNECT_FAILED"}) /\ Netif!NetDownStop
  /\ Unread /\ UNCHANGED <<link, ethif_status, starved>>

\* mutated form: connecting again is left to the driver
NetDownOnly ==
  /\ Netif!NetDown /\ ethif_status' = FALSE /\ starved' = starved \ {"station"}
  /\ Unread /\ UNCHANGED <<link, queue>>

\* sys_net_down() ends with tls_auto_reconnect(), and with that a loss is made good.
NetDown ==
  /\ Netif!NetDown /\ ethif_status' = FALSE /\ tls_auto_reconnect
  /\ starved' = starved \ {"station"}
  /\ Unread /\ UNCHANGED queue

-----------------------------------------------------------------------------
(* The access point *)

StationAlone == UNCHANGED <<up, station, stored, ethif_status>>

SoftapSuccess ==
  /\ softap = "creating" /\ Quiet /\ softap' = "running"
  /\ tls_sys_send_msg("NET2_UP")
  /\ status' = [ZeroStatus EXCEPT !.is_enable = TRUE, !.is_ap = TRUE]
  /\ StationAlone /\ UNCHANGED <<sys, link, ap, stations>>

SoftapFailed ==
  /\ softap = "creating" /\ Quiet /\ link # "joined" /\ ~up /\ softap' = "idle"
  /\ tls_sys_send_msg("NET2_FAIL") /\ status' = ZeroStatus
  /\ StationAlone /\ UNCHANGED <<sys, link, ap, stations>>

SoftapClosed ==
  /\ softap = "running" /\ softap' = "idle"
  /\ tls_sys_send_msg("NET2_DOWN") /\ status' = ZeroStatus
  /\ StationAlone /\ UNCHANGED <<sys, link, ap, stations>>

\* softap_sta_num has eight bits.  Stations may leave an access point that is closed already, and
\* other reports set the number to zero: then it goes below.
Event(online) ==
  /\ IF online THEN softap = "running" /\ stations < MaxStations /\ stations' = stations + 1
               ELSE stations > 0 /\ stations' = stations - 1
  /\ status' = [status EXCEPT !.softap_sta_num = (IF online THEN @ + 1 ELSE @ + 255) % 256]
  /\ StationAlone /\ UNCHANGED <<sys, link, softap, queue, ap, starved>>

ApStep == StationAlone /\ UNCHANGED <<softap, stations>>

\* sys_net2_up(): the flag, the address, the servers
TakeNet2Up ==
  /\ Take({"NET2_UP"}) /\ sys' = "up2" /\ ap' = [ap EXCEPT !.up = TRUE]
  /\ ApStep /\ UNCHANGED <<link, status, starved>>

\* netif_status_changed2() reports an address that is new.
Net2Address ==
  /\ sys = "up2" /\ sys' = "addressed2" /\ ap' = [ap EXCEPT !.addressed = TRUE]
  /\ IF ap.addressed THEN UNCHANGED status ELSE IpNet2Up
  /\ ApStep /\ UNCHANGED <<link, queue, starved>>

\* The results of tls_dhcps_start() and tls_dnss_start() are not looked at.
Net2Serve ==
  /\ sys = "addressed2" /\ sys' = "idle"
  /\ \/ ap' = [ap EXCEPT !.serving = TRUE] /\ UNCHANGED starved
     \/ UNCHANGED ap /\ starved' = starved \cup {"softap"}
  /\ ApStep /\ UNCHANGED <<link, queue, status>>

\* mutated form: the servers stay when the interface goes
ServersStay ==
  /\ \/ Take({"NET2_DOWN"}) /\ sys' = "stop2"
     \/ Take({"NET2_FAIL"}) /\ sys' = "fail2"
  /\ UNCHANGED ap /\ ApStep /\ UNCHANGED <<link, status, starved>>

\* sys_net2_down(), and tls_auto_reconnect() after a failure
TakeNet2Down ==
  /\ \/ Take({"NET2_DOWN"}) /\ sys' = "stop2"
     \/ Take({"NET2_FAIL"}) /\ sys' = "fail2"
  /\ ap' = [ap EXCEPT !.serving = FALSE] /\ ApStep /\ UNCHANGED <<link, status, starved>>

\* netif_set_down() takes the address from an interface that is up.
Net2Down ==
  /\ \/ sys = "stop2" /\ UNCHANGED link
     \/ sys = "fail2" /\ tls_auto_reconnect
  /\ sys' = "idle" /\ ap' = [ap EXCEPT !.up = FALSE, !.addressed = ap.addressed /\ ~ap.up]
  /\ starved' = starved \ {"softap"}
  /\ ApStep /\ UNCHANGED <<queue, status>>

-----------------------------------------------------------------------------

SystemTask ==
  \/ AutoModeRun \/ TakeNetUp \/ NetUp \/ TakeNetDown \/ NetDown
  \/ TakeNet2Up \/ Net2Address \/ Net2Serve \/ TakeNet2Down \/ Net2Down

Joins == JoinSuccess \/ JoinFailed \/ SoftapSuccess \/ SoftapFailed

\* A search of the DHCP client has an end, and so has a request to connect.
SearchEnds == (phase = "search" /\ \E a \in Address : Obtain(a)) \/ GiveUp

Next ==
  \/ Joins \/ Disconnected \/ SoftapClosed
  \/ \E online \in BOOLEAN : Event(online)
  \/ (\E a \in Address : Obtain(a)) \/ Lose \/ GiveUp \/ Waits
  \/ SystemTask

Spec == Init /\ [][Next]_vars /\ WF_vars(SystemTask) /\ WF_vars(Joins) /\ WF_vars(SearchEnds)

-----------------------------------------------------------------------------
(* Properties *)

TypeOK ==
  /\ sys \in {"idle", "cleared", "raised", "stopped", "up2", "addressed2", "stop2", "fail2"}
  /\ up \in BOOLEAN /\ phase \in {"off", "search", "bound", "given_up"}
  /\ addr \in Address \cup {NoAddress} /\ left \in 0..MaxLease
  /\ told \in {"nothing", "up", "failed"}
  /\ stored \in BOOLEAN /\ link \in {"idle", "joining", "joined"}
  /\ softap \in {"idle", "creating", "running"} /\ stations \in 0..MaxStations
  /\ queue \in Seq(Message) /\ Len(queue) <= SYS_MSG_SIZE
  /\ status \in Status /\ ethif_status \in BOOLEAN
  /\ ap \in [up : BOOLEAN, addressed : BOOLEAN, serving : BOOLEAN]
  /\ starved \subseteq {"station", "softap"}

\* The interface is brought up only when the DHCP client is off: no NET_UP overtakes or follows
\* another without a NET_DOWN between them, whatever was lost.  DhcpClient relies on it.
UpAfterDown == sys = "idle" /\ queue # <<>> /\ Head(queue) = "NET_UP" => phase = "off" /\ ~up

\* When the system task has caught up, the interface is up exactly if the station is connected,
\* and a client that has given up is not left alone, unless a message or the client's memory was
\* missing since the interface was last taken down: taking it down makes every loss good.
\* The status never claims a connection that the driver does not have.
InterfaceFollowsLink ==
  /\ Quiet /\ "station" \notin starved =>
       IF link = "joined" THEN up /\ phase \in {"search", "bound"}
       ELSE ~up /\ phase = "off" /\ addr = NoAddress /\ ~ethif_status
  /\ status.is_connect_ap => link = "joined"

\* When the system task has caught up, interface, address and servers of the access point are
\* there exactly if it runs, unless memory was missing for it since it was last taken down.  The
\* status never claims an access point that the driver does not have.
AccessPointFollowsLink ==
  /\ Quiet /\ "softap" \notin starved =>
       IF softap = "running" THEN ap.up /\ ap.addressed /\ ap.serving ELSE ap = OffAp
  /\ status.is_ap => softap = "running"

\* A station that lost its connection, or could not join, asks for it again, unless the message
\* of that was lost.
Reconnects == (stored /\ link = "idle") ~> (link = "joining" \/ "station" \in starved)

\* A status that claims an address which is gone does not do so for ever.
LossNoticed ==
  (status.is_sta_ip_ok /\ addr = NoAddress) ~> (~status.is_sta_ip_ok \/ addr # NoAddress)

-----------------------------------------------------------------------------
(* The inductive invariant of WifiNetwork_proofs *)

AtHead(m) == queue # <<>> /\ queue[1] = m
Waiting(ms) == \E j \in 1..Len(queue) : queue[j] \in ms

\* What is sent unasked comes behind an answer of the driver.
AnswersFirst == \A j \in 2..Len(queue) : queue[j] \in {"NET_DOWN", "CONNECT_FAILED", "NET2_DOWN"}

\* The interface is about to be taken down.
GoesDown == Waiting({"NET_DOWN", "CONNECT_FAILED"}) \/ sys = "stopped"

StationWork == {"cleared", "raised", "stopped"}
IsOff == phase = "off" /\ ~up /\ addr = NoAddress /\ ~ethif_status

\* How far the station's interface is
StationPlace ==
  /\ AtHead("NET_UP") => IsOff /\ sys = "idle" /\ link # "joining"
  /\ AtHead("AUTO_MODE_RUN") \/ AtHead("NET2_FAIL") => sys = "idle"
  /\ AtHead("AUTO_MODE_RUN") \/ AtHead("NET2_FAIL") \/ sys = "fail2" => IsOff /\ link # "joined"
  /\ link = "joining" => IsOff /\ sys \notin {"cleared", "raised"}
  /\ phase # "off" => up /\ sys \notin StationWork
  /\ sys = "cleared" => IsOff
  /\ sys = "raised" => up
  /\ ~up => IsOff

StationFits ==
  /\ StationPlace
  /\ ~stored => IsOff /\ link = "idle" /\ sys \notin StationWork /\ ~Waiting(StationMessage)
  /\ phase = "given_up" => GoesDown \/ "station" \in starved
  /\ stored /\ link = "idle" => GoesDown \/ "station" \in starved \/ AtHead("AUTO_MODE_RUN")
  /\ link = "joined" /\ phase = "off" =>
       \/ GoesDown \/ "station" \in starved
       \/ sys \in {"cleared", "raised"} \/ AtHead("NET_UP")
  /\ status.is_connect_ap => link = "joined" /\ ~GoesDown

ApFits ==
  /\ AtHead("NET2_UP") => ap = OffAp /\ sys = "idle"
  /\ sys = "up2" => ap = [OffAp EXCEPT !.up = TRUE]
  /\ sys = "addressed2" => ap = [OffAp EXCEPT !.up = TRUE, !.addressed = TRUE]
  /\ AtHead("NET2_FAIL") \/ sys = "fail2" => ap = OffAp
  /\ ~ap.up => ap = OffAp
  /\ softap = "creating" =>
       ap = OffAp /\ ~Waiting(ApMessage) /\ sys \notin {"up2", "addressed2", "stop2", "fail2"}
  /\ softap = "running" =>
       /\ ~Waiting({"NET2_DOWN", "NET2_FAIL"}) /\ sys \notin {"stop2", "fail2"}
       /\ \/ AtHead("NET2_UP") \/ sys \in {"up2", "addressed2"} \/ "softap" \in starved
          \/ ap.up /\ ap.addressed /\ ap.serving
  /\ softap = "idle" /\ (ap # OffAp \/ AtHead("NET2_UP")) =>
       Waiting({"NET2_DOWN"}) \/ sys = "stop2" \/ "softap" \in starved
  /\ sys = "stop2" => ~ap.serving
  /\ status.is_ap => softap = "running"

IInv == TypeOK /\ AnswersFirst /\ StationFits /\ ApFits
=============================================================================
