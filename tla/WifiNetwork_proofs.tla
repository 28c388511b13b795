-------------------------- MODULE WifiNetwork_proofs --------------------------
(***************************************************************************)
(* Proofs about the way onto a network, for every length of the system     *)
(* task's queue and every set of addresses, whichever messages are lost:   *)
(* when the system task has caught up, the interface of the station and    *)
(* that of the access point are as the driver reported last, unless memory *)
(* was missing since they were last taken down.                            *)
(***************************************************************************)
EXTENDS WifiNetwork, SequenceTheorems, TLAPS

-----------------------------------------------------------------------------
(* The queue *)

\* A message is appended, or memory was missing.
LEMMA Sent ==
  ASSUME TypeOK, NEW m \in Message, tls_sys_send_msg(m)
  PROVE  /\ queue' \in Seq(Message) /\ Len(queue) \in Nat
         /\ \A j \in 1..Len(queue) : queue'[j] = queue[j]
         /\ \/ /\ Len(queue) < SYS_MSG_SIZE /\ Len(queue') = Len(queue) + 1
               /\ queue'[Len(queue) + 1] = m /\ starved' = starved
            \/ queue' = queue /\ starved' = starved \cup {Interface(m)}
<1> queue \in Seq(Message) /\ Len(queue) \in Nat
  BY LenProperties DEF TypeOK
<1>1. CASE Len(queue) < SYS_MSG_SIZE /\ queue' = Append(queue, m) /\ UNCHANGED starved
  BY <1>1, AppendProperties
<1>2. CASE UNCHANGED queue /\ starved' = starved \cup {Interface(m)}
  BY <1>2
<1> QED
  BY <1>1, <1>2 DEF tls_sys_send_msg

LEMMA HeadIs ==
  ASSUME queue \in Seq(Message)
  PROVE  Len(queue) \in Nat /\ (queue # <<>> <=> Len(queue) > 0)
<1>1. Len(queue) \in Nat /\ (queue # <<>> => Len(queue) # 0)
  BY LenProperties, EmptySeq
<1> QED
  BY <1>1

\* What a message sent does to the head of the queue and to what waits in it
LEMMA SentSeen ==
  ASSUME TypeOK, NEW m \in Message, tls_sys_send_msg(m)
  PROVE  /\ \A k : AtHead(k) => AtHead(k)'
         /\ \A k : AtHead(k)' => AtHead(k) \/ (queue = <<>> /\ k = m)
         /\ \A ms : Waiting(ms) => Waiting(ms)'
         /\ \A ms : Waiting(ms)' => Waiting(ms) \/ m \in ms
         /\ \A ms : m \in ms => Waiting(ms)' \/ Interface(m) \in starved'
         /\ queue = <<>> => AtHead(m)' \/ Interface(m) \in starved'
         /\ starved \subseteq starved' /\ starved' \subseteq starved \cup {Interface(m)}
<1> queue \in Seq(Message)
  BY DEF TypeOK
<1>1. Len(queue) \in Nat /\ (queue # <<>> <=> Len(queue) > 0)
  BY HeadIs
<1>2. CASE queue' = queue /\ starved' = starved \cup {Interface(m)}
  BY <1>2 DEF AtHead, Waiting
<1>3. CASE /\ Len(queue') = Len(queue) + 1 /\ queue'[Len(queue) + 1] = m /\ starved' = starved
           /\ queue' \in Seq(Message) /\ \A j \in 1..Len(queue) : queue'[j] = queue[j]
  <2>1. queue' # <<>>
    BY <1>1, <1>3
  <2>2. \A k : AtHead(k) => AtHead(k)'
    BY <1>1, <1>3, <2>1 DEF AtHead
  <2>3. \A k : AtHead(k)' => AtHead(k) \/ (queue = <<>> /\ k = m)
    <3>1. CASE queue = <<>>
      BY <1>1, <1>3, <3>1 DEF AtHead
    <3>2. CASE queue # <<>>
      BY <1>1, <1>3, <3>2 DEF AtHead
    <3> QED
      BY <3>1, <3>2
  <2>4. \A ms : Waiting(ms) => Waiting(ms)'
    BY <1>1, <1>3 DEF Waiting
  <2>5. \A ms : Waiting(ms)' => Waiting(ms) \/ m \in ms
    BY <1>1, <1>3 DEF Waiting
  <2>6. \A ms : m \in ms => Waiting(ms)'
    BY <1>1, <1>3 DEF Waiting
  <2>7. queue = <<>> => AtHead(m)'
    BY <1>1, <1>3, <2>1 DEF AtHead
  <2> QED
    BY <1>3, <2>2, <2>3, <2>4, <2>5, <2>6, <2>7
<1> QED
  BY <1>2, <1>3, Sent

\* What taking the first message does to the queue
LEMMA TakenSeen ==
  ASSUME TypeOK, AnswersFirst, NEW ms, Take(ms)
  PROVE  /\ sys = "idle" /\ AtHead(queue[1]) /\ queue[1] \in ms
         /\ queue' \in Seq(Message) /\ Len(queue') <= SYS_MSG_SIZE
         /\ AnswersFirst'
         /\ \A k : AtHead(k)' => k \in {"NET_DOWN", "CONNECT_FAILED", "NET2_DOWN"}
         /\ \A ns : Waiting(ns)' => Waiting(ns)
         /\ \A ns : Waiting(ns) => Waiting(ns)' \/ queue[1] \in ns
<1> queue \in Seq(Message) /\ queue # <<>> /\ queue' = Tail(queue) /\ Head(queue) \in ms
    /\ sys = "idle" /\ Len(queue) <= SYS_MSG_SIZE /\ SYS_MSG_SIZE \in Nat
  BY NetworkAssumption DEF TypeOK, Take
<1>1. Len(queue) \in Nat \ {0} /\ Head(queue) = queue[1]
  BY HeadIs
<1>2. /\ queue' \in Seq(Message) /\ Len(queue') = Len(queue) - 1
      /\ \A j \in 1..Len(queue') : queue'[j] = queue[j + 1]
  BY <1>1, HeadTailProperties
<1>3. \A j \in 1..Len(queue') : j + 1 \in 2..Len(queue)
  BY <1>1, <1>2
<1>4. AnswersFirst'
  BY <1>1, <1>2, <1>3 DEF AnswersFirst
<1>5. \A k : AtHead(k)' => k \in {"NET_DOWN", "CONNECT_FAILED", "NET2_DOWN"}
  <2> SUFFICES ASSUME NEW k, queue' # <<>>, queue'[1] = k
               PROVE  k \in {"NET_DOWN", "CONNECT_FAILED", "NET2_DOWN"}
    BY DEF AtHead
  <2>1. 1 \in 1..Len(queue')
    BY <1>1, <1>2, EmptySeq
  <2> QED
    BY <1>2, <1>3, <2>1 DEF AnswersFirst
<1>6. \A ns : Waiting(ns)' => Waiting(ns)
  BY <1>1, <1>2, <1>3 DEF Waiting
<1>7. \A ns : Waiting(ns) => Waiting(ns)' \/ queue[1] \in ns
  <2> SUFFICES ASSUME NEW ns, NEW j \in 1..Len(queue), queue[j] \in ns, queue[1] \notin ns
               PROVE  Waiting(ns)'
    BY DEF Waiting
  <2>1. j - 1 \in 1..Len(queue') /\ (j - 1) + 1 = j
    BY <1>1, <1>2
  <2> QED
    BY <1>2, <2>1 DEF Waiting
<1> QED
  BY <1>1, <1>2, <1>4, <1>5, <1>6, <1>7 DEF AtHead

\* There is one head, and it waits.
LEMMA HeadWaits ==
  ASSUME TypeOK
  PROVE  /\ \A k, l : AtHead(k) /\ AtHead(l) => k = l
         /\ \A k, ms : AtHead(k) /\ k \in ms => Waiting(ms)
         /\ queue = <<>> => (\A k : ~AtHead(k)) /\ (\A ms : ~Waiting(ms))
<1> queue \in Seq(Message)
  BY DEF TypeOK
<1>1. Len(queue) \in Nat /\ (queue # <<>> <=> Len(queue) > 0)
  BY HeadIs
<1> QED
  BY <1>1 DEF AtHead, Waiting

\* A queue that stays as it is
LEMMA SameQueue ==
  ASSUME UNCHANGED queue
  PROVE  /\ \A k : AtHead(k)' <=> AtHead(k)
         /\ \A ms : Waiting(ms)' <=> Waiting(ms)
         /\ AnswersFirst' <=> AnswersFirst
  BY DEF AtHead, Waiting, AnswersFirst

\* What is sent goes behind an answer, or is one and finds the queue empty.
LEMMA SentBehind ==
  ASSUME TypeOK, AnswersFirst, NEW m \in Message, tls_sys_send_msg(m),
         m \in {"NET_DOWN", "CONNECT_FAILED", "NET2_DOWN"} \/ queue = <<>>
  PROVE  AnswersFirst'
<1> queue \in Seq(Message)
  BY DEF TypeOK
<1>1. Len(queue) \in Nat /\ (queue # <<>> <=> Len(queue) > 0)
  BY HeadIs
<1> QED
  BY <1>1, Sent DEF AnswersFirst

-----------------------------------------------------------------------------
(* Types *)

StationTypes ==
  /\ sys \in {"idle", "cleared", "raised", "stopped", "up2", "addressed2", "stop2", "fail2"}
  /\ up \in BOOLEAN /\ phase \in {"off", "search", "bound", "given_up"}
  /\ addr \in Address \cup {NoAddress} /\ left \in 0..MaxLease
  /\ told \in {"nothing", "up", "failed"}

ReportTypes ==
  /\ queue \in Seq(Message) /\ Len(queue) <= SYS_MSG_SIZE
  /\ status \in Status /\ ethif_status \in BOOLEAN /\ starved \subseteq {"station", "softap"}

OtherTypes ==
  /\ stored \in BOOLEAN /\ link \in {"idle", "joining", "joined"}
  /\ softap \in {"idle", "creating", "running"}
  /\ ap \in [up : BOOLEAN, addressed : BOOLEAN, serving : BOOLEAN]
  /\ stations \in 0..MaxStations

LEMMA Types == TypeOK <=> StationTypes /\ ReportTypes /\ OtherTypes
  BY DEF TypeOK, StationTypes, ReportTypes, OtherTypes

LEMMA ZeroType == ZeroStatus \in Status
  BY DEF ZeroStatus, Status

LEMMA NoLease == 0 \in 0..MaxLease
  BY NetworkAssumption

LEMMA InitQueue ==
  ASSUME Init
  PROVE  queue \in Seq(Message) /\ Len(queue) \in {0, 1}
<1>1. "AUTO_MODE_RUN" \in Message
  BY DEF Message
<1>2. CASE queue = <<>>
  BY <1>2, EmptySeq
<1>3. CASE queue = <<"AUTO_MODE_RUN">>
  BY <1>1, <1>3
<1> QED
  BY <1>2, <1>3 DEF Init

LEMMA InitTypes == Init => TypeOK
<1> SUFFICES ASSUME Init PROVE TypeOK
  OBVIOUS
<1>1. StationTypes
  BY NoLease, Zenon DEF Init, Netif!Init, StationTypes
<1>2. ReportTypes
  <2>1. queue \in Seq(Message) /\ Len(queue) \in {0, 1}
    BY InitQueue
  <2>2. Len(queue) <= SYS_MSG_SIZE
    BY <2>1, NetworkAssumption
  <2>3. starved \subseteq {"station", "softap"}
    BY DEF Init, StationInit, ApInit
  <2> QED
    BY <2>1, <2>2, <2>3, ZeroType, Zenon DEF Init, ReportTypes
<1>3. OtherTypes
  <2>1. stations \in 0..MaxStations
    BY NetworkAssumption DEF Init
  <2>2. ap \in [up : BOOLEAN, addressed : BOOLEAN, serving : BOOLEAN]
    BY DEF Init, OffAp
  <2> QED
    BY <2>1, <2>2 DEF Init, StationInit, ApInit, OtherTypes
<1> QED
  BY <1>1, <1>2, <1>3, Types

LEMMA SentTypes ==
  ASSUME TypeOK, NEW m \in Message, tls_sys_send_msg(m),
         status' \in Status, ethif_status' \in BOOLEAN
  PROVE  ReportTypes'
<1>1. Interface(m) \in {"station", "softap"}
  BY DEF Interface
<1>2. Len(queue) <= SYS_MSG_SIZE /\ starved \subseteq {"station", "softap"} /\ SYS_MSG_SIZE \in Nat
  BY NetworkAssumption DEF TypeOK
<1>3. queue' \in Seq(Message) /\ Len(queue') <= SYS_MSG_SIZE
  BY <1>2, Sent
<1>4. starved' \subseteq {"station", "softap"}
  BY <1>1, <1>2, Sent
<1> QED
  BY <1>3, <1>4 DEF ReportTypes

LEMMA TakenTypes ==
  ASSUME TypeOK, NEW ms, Take(ms), status' \in Status, ethif_status' \in BOOLEAN,
         UNCHANGED starved
  PROVE  ReportTypes'
<1>1. queue \in Seq(Message) /\ queue # <<>> /\ queue' = Tail(queue) /\ SYS_MSG_SIZE \in Nat
      /\ Len(queue) \in Nat /\ Len(queue) <= SYS_MSG_SIZE
  BY NetworkAssumption, LenProperties DEF Take, TypeOK
<1>2. queue' \in Seq(Message) /\ Len(queue') = Len(queue) - 1
  BY <1>1, HeadTailProperties
<1> QED
  BY <1>1, <1>2 DEF ReportTypes, TypeOK

\* What the DHCP client does and reports.
LEMMA ClientTypes ==
  ASSUME TypeOK, (\E a \in Address : Obtain(a)) \/ Lose \/ GiveUp \/ Waits
  PROVE  TypeOK'
<1> StationTypes /\ ReportTypes /\ OtherTypes
  BY Types
<1>1. CASE \E a \in Address : Obtain(a)
  <2> PICK a \in Address : Obtain(a)
    BY <1>1
  <2>1. StationTypes'
    BY DEF Obtain, Netif!Obtain, StationTypes
  <2>2. ReportTypes'
    BY DEF Obtain, IpNetUp, NoReport, ReportTypes, Status
  <2>3. OtherTypes'
    BY DEF Obtain, Client, driver, OtherTypes
  <2> QED
    BY <2>1, <2>2, <2>3 DEF TypeOK, StationTypes, ReportTypes, OtherTypes
<1>2. CASE Lose
  <2>1. StationTypes'
    BY <1>2, NetworkAssumption DEF Lose, Netif!Lose, StationTypes
  <2>2. ReportTypes'
    <3>1. CASE WifiJoinFailed
      BY <3>1, SentTypes, ZeroType DEF WifiJoinFailed, ReportTypes, Message, StationMessage
    <3>2. CASE NoReport
      BY <3>2 DEF NoReport, ReportTypes
    <3> QED
      BY <1>2, <3>1, <3>2 DEF Lose
  <2>3. OtherTypes'
    BY <1>2 DEF Lose, Client, driver, OtherTypes
  <2> QED
    BY <2>1, <2>2, <2>3 DEF TypeOK, StationTypes, ReportTypes, OtherTypes
<1>3. CASE GiveUp
  <2>1. StationTypes'
    BY <1>3 DEF GiveUp, Netif!GiveUp, StationTypes
  <2>2. ReportTypes'
    BY <1>3, SentTypes, ZeroType DEF GiveUp, WifiJoinFailed, ReportTypes, Message, StationMessage
  <2>3. OtherTypes'
    BY <1>3 DEF GiveUp, Client, driver, OtherTypes
  <2> QED
    BY <2>1, <2>2, <2>3 DEF TypeOK, StationTypes, ReportTypes, OtherTypes
<1>4. CASE Waits
  <2>1. StationTypes'
    BY <1>4, NetworkAssumption DEF Waits, Netif!Tick, Netif!Resume, StationTypes
  <2>2. ReportTypes' /\ OtherTypes'
    BY <1>4 DEF Waits, NoReport, Client, driver, ReportTypes, OtherTypes
  <2> QED
    BY <2>1, <2>2 DEF TypeOK, StationTypes, ReportTypes, OtherTypes
<1> QED
  BY <1>1, <1>2, <1>3, <1>4

\* What the driver reports.
LEMMA DriverTypes ==
  ASSUME TypeOK,
         Joins \/ Disconnected \/ SoftapClosed \/ (\E online \in BOOLEAN : Event(online))
  PROVE  TypeOK'
<1> StationTypes /\ ReportTypes /\ OtherTypes
  BY Types
<1>1. CASE JoinSuccess \/ JoinFailed \/ SoftapSuccess \/ SoftapFailed \/ Disconnected
           \/ SoftapClosed
  <2>1. StationTypes'
    BY <1>1 DEF JoinSuccess, JoinFailed, SoftapSuccess, SoftapFailed, Disconnected, SoftapClosed,
                netif, station, StationAlone, StationTypes
  <2>2. status' \in Status /\ ethif_status' \in BOOLEAN
    BY <1>1, ZeroType
    DEF JoinSuccess, JoinFailed, SoftapSuccess, SoftapFailed, Disconnected, SoftapClosed,
        WifiJoinFailed, StationAlone, ReportTypes, Status
  <2>3. \E m \in Message : tls_sys_send_msg(m)
    BY <1>1
    DEF JoinSuccess, JoinFailed, SoftapSuccess, SoftapFailed, Disconnected, SoftapClosed,
        WifiJoinFailed, Message, StationMessage, ApMessage
  <2>4. ReportTypes'
    BY <2>2, <2>3, SentTypes
  <2>5. OtherTypes'
    BY <1>1 DEF JoinSuccess, JoinFailed, SoftapSuccess, SoftapFailed, Disconnected, SoftapClosed,
                ApAlone, StationAlone, OtherTypes
  <2> QED
    BY <2>1, <2>4, <2>5 DEF TypeOK, StationTypes, ReportTypes, OtherTypes
<1>2. CASE \E online \in BOOLEAN : Event(online)
  <2> PICK online \in BOOLEAN : Event(online)
    BY <1>2
  <2>1. StationTypes'
    BY DEF Event, StationAlone, station, StationTypes
  <2>2. status.softap_sta_num \in 0..255
    BY DEF ReportTypes, Status
  <2>3. (IF online THEN status.softap_sta_num + 1 ELSE status.softap_sta_num + 255) % 256 \in 0..255
    BY <2>2
  <2>4. ReportTypes'
    BY <2>3 DEF Event, StationAlone, ReportTypes, Status
  <2>5. OtherTypes'
    BY NetworkAssumption DEF Event, StationAlone, OtherTypes
  <2> QED
    BY <2>1, <2>4, <2>5 DEF TypeOK, StationTypes, ReportTypes, OtherTypes
<1> QED
  BY <1>1, <1>2 DEF Joins

\* What the system task does.
LEMMA SystemTypes ==
  ASSUME TypeOK, SystemTask
  PROVE  TypeOK'
<1> StationTypes /\ ReportTypes /\ OtherTypes
  BY Types
<1>1. CASE AutoModeRun \/ TakeNetUp \/ TakeNetDown \/ TakeNet2Up \/ TakeNet2Down
  <2>1. StationTypes'
    BY <1>1, NetworkAssumption
    DEF AutoModeRun, TakeNetUp, TakeNetDown, TakeNet2Up, TakeNet2Down, ApStep, StationAlone,
        netif, station,
        Netif!NetUpClear, Netif!NetDownStop, StationTypes
  <2>2. status' \in Status /\ ethif_status' \in BOOLEAN
    BY <1>1 DEF AutoModeRun, TakeNetUp, TakeNetDown, TakeNet2Up, TakeNet2Down, ApStep,
                StationAlone, Unread, netif, ReportTypes
  <2>3. \E ms \in SUBSET Message : Take(ms)
    <3>1. {"NET_UP"} \in SUBSET Message /\ {"NET_DOWN", "CONNECT_FAILED"} \in SUBSET Message
          /\ {"NET2_UP"} \in SUBSET Message /\ {"NET2_DOWN"} \in SUBSET Message
          /\ {"NET2_FAIL"} \in SUBSET Message
          /\ {"AUTO_MODE_RUN"} \in SUBSET Message
      BY DEF Message, StationMessage, ApMessage
    <3> QED
      BY <1>1, <3>1 DEF AutoModeRun, TakeNetUp, TakeNetDown, TakeNet2Up, TakeNet2Down
  <2>4. ReportTypes'
    <3>1. UNCHANGED starved
      BY <1>1 DEF AutoModeRun, TakeNetUp, TakeNetDown, TakeNet2Up, TakeNet2Down
    <3> QED
      BY <2>2, <2>3, <3>1, TakenTypes
  <2>5. OtherTypes'
    BY <1>1 DEF AutoModeRun, TakeNetUp, TakeNetDown, TakeNet2Up, TakeNet2Down, ApStep,
                StationAlone, tls_auto_reconnect, Unread, OtherTypes
  <2> QED
    BY <2>1, <2>4, <2>5 DEF TypeOK, StationTypes, ReportTypes, OtherTypes
<1>2. CASE NetUp \/ NetDown
  <2>1. StationTypes'
    BY <1>2, NoLease, Zenon
    DEF NetUp, NetDown, Netif!NetUpRaise, Netif!NetUpStart, Netif!NetDown, StationTypes
  <2>2. ReportTypes' /\ OtherTypes'
    BY <1>2 DEF NetUp, NetDown, tls_auto_reconnect, Unread, ReportTypes, OtherTypes
  <2> QED
    BY <2>1, <2>2 DEF TypeOK, StationTypes, ReportTypes, OtherTypes
<1>3. CASE Net2Address \/ Net2Serve \/ Net2Down
  <2>1. StationTypes'
    BY <1>3 DEF Net2Address, Net2Serve, Net2Down, ApStep, StationAlone, station, StationTypes
  <2>2. ReportTypes'
    <3>1. queue' = queue /\ ethif_status' = ethif_status /\ status' \in Status
      BY <1>3 DEF Net2Address, Net2Serve, Net2Down, ApStep, StationAlone, IpNet2Up,
                  ReportTypes, Status
    <3>2. starved' \in {starved, starved \cup {"softap"}, starved \ {"softap"}}
      BY <1>3 DEF Net2Address, Net2Serve, Net2Down
    <3> QED
      BY <3>1, <3>2 DEF ReportTypes
  <2>3. OtherTypes'
    BY <1>3 DEF Net2Address, Net2Serve, Net2Down, tls_auto_reconnect, ApStep, StationAlone,
                OtherTypes
  <2> QED
    BY <2>1, <2>2, <2>3 DEF TypeOK, StationTypes, ReportTypes, OtherTypes
<1> QED
  BY <1>1, <1>2, <1>3 DEF SystemTask

LEMMA StepTypes ==
  ASSUME TypeOK, [Next]_vars
  PROVE  TypeOK'
<1>1. CASE UNCHANGED vars
  BY <1>1 DEF vars, netif, station, driver, TypeOK
<1>2. CASE Joins \/ Disconnected \/ SoftapClosed \/ (\E online \in BOOLEAN : Event(online))
  BY <1>2, DriverTypes
<1>3. CASE (\E a \in Address : Obtain(a)) \/ Lose \/ GiveUp \/ Waits
  BY <1>3, ClientTypes
<1>4. CASE SystemTask
  BY <1>4, SystemTypes
<1> QED
  BY <1>1, <1>2, <1>3, <1>4 DEF Next

-----------------------------------------------------------------------------
(* The station *)

\* A step of the access point that leaves the queue alone
LEMMA StationKeeps ==
  ASSUME StationFits, UNCHANGED <<up, phase, addr, ethif_status, stored, link, queue>>,
         \/ sys' = sys
         \/ sys \notin StationWork \cup {"idle"} /\ sys' \notin StationWork \cup {"fail2"},
         status'.is_connect_ap => status.is_connect_ap,
         "station" \in starved => "station" \in starved'
  PROVE  StationFits'
BY SameQueue DEF StationFits, StationPlace, GoesDown, IsOff, StationWork

\* The driver reports something of the access point.
LEMMA StationHears ==
  ASSUME TypeOK, StationFits, NEW m \in ApMessage, tls_sys_send_msg(m),
         UNCHANGED <<sys, up, phase, addr, ethif_status, stored, link>>,
         ~status'.is_connect_ap, m = "NET2_FAIL" => link # "joined" /\ ~up /\ sys = "idle"
  PROVE  StationFits'
<1>1. m \in Message /\ m \notin StationMessage /\ m # "AUTO_MODE_RUN"
  BY DEF ApMessage, StationMessage, Message
<1>2. /\ AtHead("NET_UP")' => AtHead("NET_UP")
      /\ AtHead("NET_UP") => AtHead("NET_UP")'
      /\ AtHead("AUTO_MODE_RUN")' => AtHead("AUTO_MODE_RUN")
      /\ AtHead("AUTO_MODE_RUN") => AtHead("AUTO_MODE_RUN")'
      /\ AtHead("NET2_FAIL")' => AtHead("NET2_FAIL") \/ m = "NET2_FAIL"
      /\ Waiting(StationMessage)' => Waiting(StationMessage)
      /\ Waiting({"NET_DOWN", "CONNECT_FAILED"}) => Waiting({"NET_DOWN", "CONNECT_FAILED"})'
      /\ "station" \in starved => "station" \in starved'
  BY <1>1, SentSeen DEF StationMessage
<1> QED
  BY <1>1, <1>2 DEF StationFits, StationPlace, GoesDown, IsOff, StationWork

\* A report that the station is lost, could not join or has found no address
LEMMA StationLost ==
  ASSUME TypeOK, StationFits, NEW m \in {"NET_DOWN", "CONNECT_FAILED"}, tls_sys_send_msg(m),
         UNCHANGED <<sys, up, ethif_status, stored>>, ~status'.is_connect_ap,
         \/ UNCHANGED <<phase, addr>> /\ link' = "idle" /\ link # "idle"
         \/ phase # "off" /\ phase' # "off" /\ UNCHANGED link
  PROVE  StationFits'
<1>1. m \in Message /\ Interface(m) = "station"
  BY DEF StationMessage, Message, Interface
<1>2. /\ AtHead("NET_UP")' => AtHead("NET_UP")
      /\ AtHead("AUTO_MODE_RUN")' => AtHead("AUTO_MODE_RUN")
      /\ AtHead("NET2_FAIL")' => AtHead("NET2_FAIL")
      /\ Waiting({"NET_DOWN", "CONNECT_FAILED"})' \/ "station" \in starved'
      /\ "station" \in starved => "station" \in starved'
  BY <1>1, SentSeen
<1> QED
  BY <1>1, <1>2 DEF StationFits, StationPlace, GoesDown, IsOff, StationWork

\* A step of the DHCP client that is not reported, or reported as an address
LEMMA StationServed ==
  ASSUME StationFits, UNCHANGED <<sys, up, stored, link, queue, starved>>,
         phase # "off", phase' \in {"search", "bound"}, ethif_status' = ethif_status \/ up,
         status'.is_connect_ap => status.is_connect_ap
  PROVE  StationFits'
BY SameQueue DEF StationFits, StationPlace, GoesDown, IsOff, StationWork

LEMMA ZeroIs ==
  ~ZeroStatus.is_connect_ap /\ ~ZeroStatus.is_ap
BY DEF ZeroStatus

LEMMA StationClient ==
  ASSUME TypeOK, StationFits, (\E a \in Address : Obtain(a)) \/ Lose \/ GiveUp \/ Waits
  PROVE  StationFits'
<1>1. CASE \E a \in Address : Obtain(a)
  <2> PICK a \in Address : Obtain(a)
    BY <1>1
  <2>1. phase # "off" /\ phase' = "bound" /\ UNCHANGED <<sys, up, stored, link, queue, starved>>
    BY DEF Obtain, Netif!Obtain, Client, driver, NoReport, IpNetUp
  <2>2. up
    BY <2>1 DEF StationFits, StationPlace
  <2>3. ethif_status' = ethif_status \/ up
    BY <2>2 DEF Obtain, NoReport, IpNetUp
  <2>4. status'.is_connect_ap => status.is_connect_ap
    BY DEF Obtain, NoReport, IpNetUp, TypeOK, Status
  <2> QED
    BY <2>1, <2>3, <2>4, StationServed
<1>2. CASE Lose
  <2>1. phase = "bound" /\ phase' = "search" /\ UNCHANGED <<sys, up, stored, link>>
    BY <1>2 DEF Lose, Netif!Lose, Client, driver
  <2>2. CASE WifiJoinFailed
    BY <2>1, <2>2, StationLost, ZeroIs DEF WifiJoinFailed
  <2>3. CASE NoReport
    BY <2>1, <2>3, StationServed DEF NoReport
  <2> QED
    BY <1>2, <2>2, <2>3 DEF Lose
<1>3. CASE GiveUp
  <2>1. phase = "search" /\ phase' = "given_up" /\ UNCHANGED <<sys, up, stored, link>>
        /\ WifiJoinFailed
    BY <1>3 DEF GiveUp, Netif!GiveUp, Client, driver
  <2> QED
    BY <2>1, StationLost, ZeroIs DEF WifiJoinFailed
<1>4. CASE Waits
  <2>1. phase # "off" /\ phase' \in {"search", "bound"}
        /\ UNCHANGED <<sys, up, stored, link, queue, starved, ethif_status, status>>
    BY <1>4 DEF Waits, Netif!Tick, Netif!Resume, Client, driver, NoReport
  <2> QED
    BY <2>1, StationServed
<1> QED
  BY <1>1, <1>2, <1>3, <1>4

LEMMA StationJoins ==
  ASSUME TypeOK, StationFits, JoinSuccess
  PROVE  StationFits'
<1>1. /\ link = "joining" /\ link' = "joined" /\ queue = <<>> /\ sys = "idle"
      /\ tls_sys_send_msg("NET_UP") /\ UNCHANGED <<sys, up, phase, addr, ethif_status, stored>>
  BY DEF JoinSuccess, Quiet, netif, station
<1>2. "NET_UP" \in Message /\ Interface("NET_UP") = "station"
  BY DEF Message, StationMessage, Interface
<1>3. /\ AtHead("NET_UP")' \/ "station" \in starved'
      /\ ~AtHead("AUTO_MODE_RUN")' /\ ~AtHead("NET2_FAIL")'
      /\ ~Waiting({"NET_DOWN", "CONNECT_FAILED"})'
  BY <1>1, <1>2, SentSeen, HeadWaits
<1>4. IsOff /\ stored
  BY <1>1 DEF StationFits, StationPlace
<1> QED
  BY <1>1, <1>3, <1>4 DEF StationFits, StationPlace, GoesDown, IsOff, StationWork

LEMMA StationDriver ==
  ASSUME TypeOK, StationFits,
         Joins \/ Disconnected \/ SoftapClosed \/ (\E online \in BOOLEAN : Event(online))
  PROVE  StationFits'
<1>1. CASE JoinSuccess
  BY <1>1, StationJoins
<1>2. CASE JoinFailed \/ Disconnected
  <2>1. /\ \E m \in {"NET_DOWN", "CONNECT_FAILED"} : tls_sys_send_msg(m)
        /\ UNCHANGED <<sys, up, phase, addr, ethif_status, stored>> /\ status' = ZeroStatus
        /\ link # "idle" /\ link' = "idle"
    BY <1>2 DEF JoinFailed, Disconnected, WifiJoinFailed, netif, station
  <2> QED
    BY <2>1, StationLost, ZeroIs
<1>3. CASE SoftapSuccess \/ SoftapFailed \/ SoftapClosed
  <2>1. ~status'.is_connect_ap
    <3>1. CASE status' = ZeroStatus
      BY <3>1, ZeroIs
    <3>2. CASE status' = [ZeroStatus EXCEPT !.is_enable = TRUE, !.is_ap = TRUE]
      BY <3>2 DEF ZeroStatus
    <3> QED
      BY <1>3, <3>1, <3>2 DEF SoftapSuccess, SoftapFailed, SoftapClosed
  <2>2. /\ \E m \in ApMessage : /\ tls_sys_send_msg(m)
                                /\ m = "NET2_FAIL" => link # "joined" /\ ~up /\ sys = "idle"
        /\ UNCHANGED <<sys, up, phase, addr, ethif_status, stored, link>>
    BY <1>3 DEF SoftapSuccess, SoftapFailed, SoftapClosed, StationAlone, station, ApMessage, Quiet
  <2> QED
    BY <2>1, <2>2, StationHears
<1>4. CASE \E online \in BOOLEAN : Event(online)
  <2>1. UNCHANGED <<sys, up, phase, addr, ethif_status, stored, link, queue, starved>>
    BY <1>4 DEF Event, StationAlone, station
  <2>2. status'.is_connect_ap = status.is_connect_ap
    BY <1>4 DEF Event, TypeOK, Status
  <2> QED
    BY <2>1, <2>2, StationKeeps
<1> QED
  BY <1>1, <1>2, <1>3, <1>4 DEF Joins

\* The system task takes a message of the access point.
LEMMA StationTakes ==
  ASSUME TypeOK, AnswersFirst, StationFits, TakeNet2Up \/ TakeNet2Down
  PROVE  StationFits'
<1>1. UNCHANGED <<up, phase, addr, ethif_status, stored, link, status, starved>>
  BY DEF TakeNet2Up, TakeNet2Down, ApStep, StationAlone, station
<1>2. \/ Take({"NET2_UP"}) /\ sys' = "up2"
      \/ Take({"NET2_DOWN"}) /\ sys' = "stop2"
      \/ Take({"NET2_FAIL"}) /\ sys' = "fail2"
  BY DEF TakeNet2Up, TakeNet2Down
<1>3. /\ AtHead(queue[1]) /\ queue[1] \in ApMessage
      /\ queue[1] # "NET2_FAIL" => sys' \in {"up2", "stop2"}
      /\ sys' \in {"up2", "stop2", "fail2"} /\ sys = "idle"
  BY <1>2, TakenSeen DEF ApMessage
<1>4. /\ ~AtHead("NET_UP")' /\ ~AtHead("AUTO_MODE_RUN")' /\ ~AtHead("NET2_FAIL")'
      /\ \A ns : Waiting(ns)' => Waiting(ns)
      /\ \A ns : Waiting(ns) => Waiting(ns)' \/ queue[1] \in ns
  BY <1>2, TakenSeen
<1>5. ~AtHead("NET_UP") /\ ~AtHead("AUTO_MODE_RUN")
  BY <1>3, HeadWaits DEF ApMessage
<1>6. queue[1] \notin {"NET_DOWN", "CONNECT_FAILED"}
  BY <1>3 DEF ApMessage
<1> QED
  BY <1>1, <1>3, <1>4, <1>5, <1>6 DEF StationFits, StationPlace, GoesDown, IsOff, StationWork

\* The system task brings the station's interface up or down.
LEMMA StationWorks ==
  ASSUME TypeOK, AnswersFirst, StationFits,
         AutoModeRun \/ TakeNetUp \/ NetUp \/ TakeNetDown \/ NetDown
  PROVE  StationFits'
<1>1. CASE AutoModeRun
  <2>1. /\ Take({"AUTO_MODE_RUN"}) /\ UNCHANGED <<sys, up, phase, addr, ethif_status, stored>>
        /\ UNCHANGED <<status, starved>> /\ link' = IF stored THEN "joining" ELSE link
    BY <1>1 DEF AutoModeRun, tls_auto_reconnect, Unread, netif, station
  <2>2. /\ AtHead("AUTO_MODE_RUN") /\ sys = "idle"
        /\ ~AtHead("NET_UP")' /\ ~AtHead("AUTO_MODE_RUN")' /\ ~AtHead("NET2_FAIL")'
        /\ \A ns : Waiting(ns)' => Waiting(ns)
    BY <2>1, TakenSeen
  <2> QED
    BY <2>1, <2>2 DEF StationFits, StationPlace, GoesDown, IsOff, StationWork
<1>2. CASE TakeNetUp
  <2>1. /\ Take({"NET_UP"}) /\ sys' = "cleared" /\ addr' = NoAddress
        /\ UNCHANGED <<up, phase, ethif_status, stored, link, status, starved>>
    BY <1>2 DEF TakeNetUp, Netif!NetUpClear, Unread
  <2>2. /\ AtHead("NET_UP") /\ queue[1] = "NET_UP"
        /\ ~AtHead("NET_UP")' /\ ~AtHead("AUTO_MODE_RUN")' /\ ~AtHead("NET2_FAIL")'
        /\ \A ns : Waiting(ns)' => Waiting(ns)
        /\ \A ns : Waiting(ns) => Waiting(ns)' \/ queue[1] \in ns
    BY <2>1, TakenSeen
  <2>3. stored /\ IsOff
    BY <2>2, HeadWaits DEF StationFits, StationPlace, StationMessage
  <2>4. Waiting({"NET_DOWN", "CONNECT_FAILED"})' <=> Waiting({"NET_DOWN", "CONNECT_FAILED"})
    BY <2>2
  <2>5. ~AtHead("AUTO_MODE_RUN") /\ sys # "stopped"
    BY <2>2, HeadWaits DEF StationFits, StationPlace
  <2> QED
    BY <2>1, <2>2, <2>3, <2>4, <2>5 DEF StationFits, StationPlace, GoesDown, IsOff, StationWork
<1>3. CASE NetUp
  <2>1. UNCHANGED <<addr, ethif_status, stored, link, queue, status>>
    BY <1>3 DEF NetUp, Netif!NetUpRaise, Netif!NetUpStart, Unread
  <2>2. CASE Netif!NetUpRaise /\ UNCHANGED starved
    <3>1. sys = "cleared" /\ sys' = "raised" /\ up' = TRUE /\ phase' = phase /\ starved' = starved
      BY <2>2 DEF Netif!NetUpRaise
    <3> QED
      BY <2>1, <3>1, SameQueue DEF StationFits, StationPlace, GoesDown, IsOff, StationWork
  <2>3. CASE Netif!NetUpStart
             /\ starved' = IF phase' = "off" THEN starved \cup {"station"} ELSE starved
    <3>1. sys = "raised" /\ sys' = "idle" /\ up' = up /\ phase' \in {"search", "off"}
          /\ (phase' = "off" => "station" \in starved')
          /\ ("station" \in starved => "station" \in starved')
      BY <2>3 DEF Netif!NetUpStart
    <3> QED
      BY <2>1, <3>1, SameQueue DEF StationFits, StationPlace, GoesDown, IsOff, StationWork
  <2> QED
    BY <1>3, <2>2, <2>3 DEF NetUp
<1>4. CASE TakeNetDown
  <2>1. /\ Take({"NET_DOWN", "CONNECT_FAILED"}) /\ sys' = "stopped" /\ phase' = "off"
        /\ UNCHANGED <<up, addr, ethif_status, stored, link, status, starved>>
    BY <1>4 DEF TakeNetDown, Netif!NetDownStop, Unread
  <2>2. /\ AtHead(queue[1]) /\ queue[1] \in {"NET_DOWN", "CONNECT_FAILED"}
        /\ ~AtHead("NET_UP")' /\ ~AtHead("AUTO_MODE_RUN")' /\ ~AtHead("NET2_FAIL")'
    BY <2>1, TakenSeen
  <2>3. Waiting({"NET_DOWN", "CONNECT_FAILED"}) /\ Waiting(StationMessage)
    BY <2>2, HeadWaits DEF StationMessage
  <2> QED
    BY <2>1, <2>2, <2>3 DEF StationFits, StationPlace, GoesDown, IsOff, StationWork
<1>5. CASE NetDown
  <2>1. /\ sys = "stopped" /\ sys' = "idle" /\ up' = FALSE /\ addr' = NoAddress
        /\ ethif_status' = FALSE /\ link' = IF stored THEN "joining" ELSE link
        /\ UNCHANGED <<phase, stored, queue, status>>
    BY <1>5 DEF NetDown, Netif!NetDown, tls_auto_reconnect, Unread
  <2>2. stored /\ phase = "off"
    BY <2>1 DEF StationFits, StationPlace, StationWork
  <2> QED
    BY <2>1, <2>2, SameQueue DEF StationFits, StationPlace, GoesDown, IsOff, StationWork
<1> QED
  BY <1>1, <1>2, <1>3, <1>4, <1>5

LEMMA StationSystem ==
  ASSUME TypeOK, AnswersFirst, StationFits, SystemTask
  PROVE  StationFits'
<1>1. CASE Net2Address \/ Net2Serve \/ (Net2Down /\ sys = "stop2")
  <2>1. /\ UNCHANGED <<up, phase, addr, ethif_status, stored, link, queue>>
        /\ sys \in {"up2", "addressed2", "stop2"} /\ sys' \in {"addressed2", "idle"}
        /\ "station" \in starved => "station" \in starved'
    BY <1>1 DEF Net2Address, Net2Serve, Net2Down, ApStep, StationAlone, station
  <2>2. status'.is_connect_ap = status.is_connect_ap
    BY <1>1 DEF Net2Address, Net2Serve, Net2Down, IpNet2Up, TypeOK, Status
  <2>3. sys \notin StationWork \cup {"idle"} /\ sys' \notin StationWork \cup {"fail2"}
    BY <2>1 DEF StationWork
  <2> QED
    BY <2>1, <2>2, <2>3, StationKeeps
<1>2. CASE Net2Down /\ sys = "fail2"
  <2>1. /\ UNCHANGED <<up, phase, addr, ethif_status, stored, queue, status>>
        /\ sys' = "idle" /\ link' = IF stored THEN "joining" ELSE link
        /\ "station" \in starved => "station" \in starved'
    BY <1>2 DEF Net2Down, tls_auto_reconnect, ApStep, StationAlone, station
  <2> QED
    BY <1>2, <2>1, SameQueue DEF StationFits, StationPlace, GoesDown, IsOff, StationWork
<1>3. Net2Down => sys \in {"stop2", "fail2"}
  BY DEF Net2Down
<1> QED
  BY <1>1, <1>2, <1>3, StationTakes, StationWorks DEF SystemTask

-----------------------------------------------------------------------------
-----------------------------------------------------------------------------
(* The access point *)

ApWork == {"up2", "addressed2", "stop2", "fail2"}

\* A step of the station, of its driver or of its DHCP client
LEMMA ApKeeps ==
  ASSUME ApFits, UNCHANGED <<ap, softap>>,
         AtHead("NET2_UP") <=> AtHead("NET2_UP")', AtHead("NET2_FAIL")' => AtHead("NET2_FAIL"),
         \A ms \in SUBSET ApMessage : Waiting(ms)' <=> Waiting(ms),
         sys' = sys \/ (sys \notin ApWork /\ sys' \notin ApWork),
         sys' = sys \/ sys \in StationWork \/ ~AtHead("NET2_UP"),
         status'.is_ap => status.is_ap, "softap" \in starved => "softap" \in starved'
  PROVE  ApFits'
<1>1. /\ Waiting(ApMessage)' <=> Waiting(ApMessage)
      /\ Waiting({"NET2_DOWN"})' <=> Waiting({"NET2_DOWN"})
      /\ Waiting({"NET2_DOWN", "NET2_FAIL"})' <=> Waiting({"NET2_DOWN", "NET2_FAIL"})
  BY DEF ApMessage
<1> QED
  BY <1>1 DEF ApFits, ApWork, StationWork

\* The queue keeps the messages of the access point when one of the station is sent ...
LEMMA ApSent ==
  ASSUME TypeOK, NEW m \in StationMessage, tls_sys_send_msg(m)
  PROVE  /\ AtHead("NET2_UP") <=> AtHead("NET2_UP")'
         /\ AtHead("NET2_FAIL")' => AtHead("NET2_FAIL")
         /\ \A ms \in SUBSET ApMessage : Waiting(ms)' <=> Waiting(ms)
         /\ "softap" \in starved => "softap" \in starved'
<1>1. m \in Message /\ m \notin ApMessage /\ m # "NET2_UP" /\ m # "NET2_FAIL"
  BY DEF StationMessage, ApMessage, Message
<1> QED
  BY <1>1, SentSeen

\* ... or taken, or the one of the boot.
LEMMA ApTaken ==
  ASSUME TypeOK, AnswersFirst, NEW ms, Take(ms), ms \cap ApMessage = {}
  PROVE  /\ ~AtHead("NET2_UP") /\ ~AtHead("NET2_UP")' /\ ~AtHead("NET2_FAIL")'
         /\ \A ns \in SUBSET ApMessage : Waiting(ns)' <=> Waiting(ns)
<1>1. AtHead(queue[1]) /\ queue[1] \notin ApMessage /\ sys = "idle"
  BY TakenSeen
<1>2. ~AtHead("NET2_UP")
  BY <1>1, HeadWaits DEF ApMessage
<1> QED
  BY <1>1, <1>2, TakenSeen

LEMMA ApClient ==
  ASSUME TypeOK, ApFits, (\E a \in Address : Obtain(a)) \/ Lose \/ GiveUp \/ Waits
  PROVE  ApFits'
<1>1. UNCHANGED <<sys, ap, softap>>
  BY DEF Obtain, Lose, GiveUp, Waits, Client, driver, Netif!Obtain, Netif!Lose, Netif!GiveUp,
         Netif!Tick, Netif!Resume
<1>2. CASE WifiJoinFailed
  <2>1. status' = ZeroStatus /\ tls_sys_send_msg("CONNECT_FAILED")
    BY <1>2 DEF WifiJoinFailed
  <2> QED
    BY <1>1, <2>1, ZeroIs, ApSent, ApKeeps DEF StationMessage
<1>3. CASE NoReport \/ IpNetUp
  <2>1. UNCHANGED <<queue, starved>> /\ (status'.is_ap => status.is_ap)
    BY <1>3 DEF NoReport, IpNetUp, TypeOK, Status
  <2> QED
    BY <1>1, <2>1, SameQueue, ApKeeps
<1> QED
  BY <1>2, <1>3 DEF Obtain, Lose, GiveUp, Waits

LEMMA ApStation ==
  ASSUME TypeOK, ApFits, JoinSuccess \/ JoinFailed \/ Disconnected
  PROVE  ApFits'
<1>1. UNCHANGED <<sys, ap, softap>>
  BY DEF JoinSuccess, JoinFailed, Disconnected, ApAlone, netif
<1>2. \E m \in StationMessage : tls_sys_send_msg(m)
  BY DEF JoinSuccess, JoinFailed, Disconnected, WifiJoinFailed, StationMessage
<1>3. ~status'.is_ap
  <2>1. CASE status' = ZeroStatus
    BY <2>1, ZeroIs
  <2>2. CASE status' = [ZeroStatus EXCEPT !.is_enable = TRUE, !.is_connect_ap = TRUE]
    BY <2>2 DEF ZeroStatus
  <2> QED
    BY <2>1, <2>2 DEF JoinSuccess, JoinFailed, Disconnected, WifiJoinFailed
<1> QED
  BY <1>1, <1>2, <1>3, ApSent, ApKeeps

\* What the driver reports of the access point
LEMMA ApDriver ==
  ASSUME TypeOK, ApFits, SoftapSuccess \/ SoftapFailed \/ SoftapClosed
  PROVE  ApFits'
<1>1. CASE SoftapSuccess
  <2>1. /\ softap = "creating" /\ softap' = "running" /\ queue = <<>> /\ sys = "idle"
        /\ tls_sys_send_msg("NET2_UP") /\ UNCHANGED <<sys, ap>>
    BY <1>1 DEF SoftapSuccess, Quiet
  <2>2. "NET2_UP" \in Message /\ Interface("NET2_UP") = "softap"
    BY DEF Message, ApMessage, StationMessage, Interface
  <2>3. /\ AtHead("NET2_UP")' \/ "softap" \in starved'
        /\ ~AtHead("NET2_FAIL")' /\ ~Waiting({"NET2_DOWN", "NET2_FAIL"})'
    BY <2>1, <2>2, SentSeen, HeadWaits
  <2>4. ap = OffAp
    BY <2>1 DEF ApFits
  <2> QED
    BY <2>1, <2>3, <2>4 DEF ApFits
<1>2. CASE SoftapFailed
  <2>1. /\ softap = "creating" /\ softap' = "idle" /\ queue = <<>> /\ sys = "idle"
        /\ tls_sys_send_msg("NET2_FAIL") /\ UNCHANGED <<sys, ap>> /\ status' = ZeroStatus
    BY <1>2 DEF SoftapFailed, Quiet
  <2>2. ap = OffAp
    BY <2>1 DEF ApFits
  <2>3. ~AtHead("NET2_UP")'
    BY <2>1, SentSeen, HeadWaits DEF Message, ApMessage
  <2> QED
    BY <2>1, <2>2, <2>3, ZeroIs DEF ApFits
<1>3. CASE SoftapClosed
  <2>1. /\ softap = "running" /\ softap' = "idle" /\ tls_sys_send_msg("NET2_DOWN")
        /\ UNCHANGED <<sys, ap>> /\ status' = ZeroStatus
    BY <1>3 DEF SoftapClosed
  <2>2. "NET2_DOWN" \in Message /\ Interface("NET2_DOWN") = "softap"
    BY DEF Message, ApMessage, StationMessage, Interface
  <2>3. /\ AtHead("NET2_UP")' => AtHead("NET2_UP")
        /\ AtHead("NET2_FAIL")' => AtHead("NET2_FAIL")
        /\ Waiting({"NET2_DOWN"})' \/ "softap" \in starved'
    BY <2>1, <2>2, SentSeen
  <2> QED
    BY <2>1, <2>3, ZeroIs DEF ApFits
<1> QED
  BY <1>1, <1>2, <1>3

\* The system task works for the station.
LEMMA ApWaits ==
  ASSUME TypeOK, AnswersFirst, ApFits,
         AutoModeRun \/ TakeNetUp \/ NetUp \/ TakeNetDown \/ NetDown
  PROVE  ApFits'
<1>1. /\ UNCHANGED <<ap, softap, status>> /\ sys \notin ApWork /\ sys' \notin ApWork
      /\ "softap" \in starved => "softap" \in starved'
  BY DEF AutoModeRun, TakeNetUp, NetUp, TakeNetDown, NetDown, Unread, Take, netif, ApWork,
         Netif!NetUpClear, Netif!NetUpRaise, Netif!NetUpStart, Netif!NetDownStop, Netif!NetDown
<1>2. CASE AutoModeRun \/ TakeNetUp \/ TakeNetDown
  <2>1. \E ms : Take(ms) /\ ms \cap ApMessage = {}
    BY <1>2 DEF AutoModeRun, TakeNetUp, TakeNetDown, ApMessage
  <2> QED
    BY <1>1, <2>1, ApTaken, ApKeeps
<1>3. CASE NetUp \/ NetDown
  <2>1. UNCHANGED queue /\ sys \in StationWork
    BY <1>3 DEF NetUp, NetDown, Netif!NetUpRaise, Netif!NetUpStart, Netif!NetDown, StationWork
  <2> QED
    BY <1>1, <2>1, SameQueue, ApKeeps
<1> QED
  BY <1>2, <1>3

\* The system task brings the interface of the access point up or down.
LEMMA ApWorks ==
  ASSUME TypeOK, AnswersFirst, ApFits,
         TakeNet2Up \/ Net2Address \/ Net2Serve \/ TakeNet2Down \/ Net2Down
  PROVE  ApFits'
<1> /\ ap \in [up : BOOLEAN, addressed : BOOLEAN, serving : BOOLEAN]
    /\ softap \in {"idle", "creating", "running"}
  BY DEF TypeOK
<1>1. CASE TakeNet2Up
  <2>1. Take({"NET2_UP"}) /\ sys' = "up2" /\ ap' = [ap EXCEPT !.up = TRUE]
        /\ UNCHANGED <<softap, status, starved>>
    BY <1>1 DEF TakeNet2Up, ApStep
  <2>2. /\ AtHead("NET2_UP") /\ queue[1] = "NET2_UP" /\ ~AtHead("NET2_UP")' /\ ~AtHead("NET2_FAIL")'
        /\ sys = "idle"
        /\ \A ns : Waiting(ns)' => Waiting(ns)
        /\ \A ns : Waiting(ns) => Waiting(ns)' \/ queue[1] \in ns
    BY <2>1, TakenSeen
  <2>3. ap = OffAp /\ softap # "creating"
    BY <2>2, HeadWaits DEF ApFits, ApMessage
  <2>4. ap' = [OffAp EXCEPT !.up = TRUE] /\ ap'.up
    BY <2>1, <2>3 DEF OffAp
  <2>5. softap = "idle" => Waiting({"NET2_DOWN"})' \/ "softap" \in starved
    BY <2>2 DEF ApFits
  <2> QED
    BY <2>1, <2>2, <2>3, <2>4, <2>5 DEF ApFits
<1>2. CASE Net2Address
  <2>1. /\ sys = "up2" /\ sys' = "addressed2" /\ ap' = [ap EXCEPT !.addressed = TRUE]
        /\ UNCHANGED <<softap, queue, starved>>
    BY <1>2 DEF Net2Address, ApStep
  <2>2. status'.is_ap = status.is_ap
    BY <1>2 DEF Net2Address, IpNet2Up, TypeOK, Status
  <2>3. ap = [OffAp EXCEPT !.up = TRUE]
    BY <2>1 DEF ApFits
  <2>4. ap' = [OffAp EXCEPT !.up = TRUE, !.addressed = TRUE] /\ ap'.up /\ ap # OffAp
    BY <2>1, <2>3 DEF OffAp
  <2> QED
    BY <2>1, <2>2, <2>4, SameQueue DEF ApFits
<1>3. CASE Net2Serve
  <2>1. /\ sys = "addressed2" /\ sys' = "idle" /\ UNCHANGED <<softap, queue, status>>
        /\ \/ ap' = [ap EXCEPT !.serving = TRUE] /\ UNCHANGED starved
           \/ UNCHANGED ap /\ starved' = starved \cup {"softap"}
    BY <1>3 DEF Net2Serve, ApStep
  <2>2. ap = [OffAp EXCEPT !.up = TRUE, !.addressed = TRUE]
    BY <2>1 DEF ApFits
  <2>3. ap'.up /\ ap'.addressed /\ (ap'.serving \/ "softap" \in starved') /\ ap # OffAp
    BY <2>1, <2>2 DEF OffAp
  <2>4. "softap" \in starved => "softap" \in starved'
    BY <2>1
  <2> QED
    BY <2>1, <2>3, <2>4, SameQueue DEF ApFits
<1>4. CASE TakeNet2Down
  <2>1. /\ \/ Take({"NET2_DOWN"}) /\ sys' = "stop2"
           \/ Take({"NET2_FAIL"}) /\ sys' = "fail2"
        /\ ap' = [ap EXCEPT !.serving = FALSE] /\ UNCHANGED <<softap, status, starved>>
    BY <1>4 DEF TakeNet2Down, ApStep
  <2>2. /\ AtHead(queue[1]) /\ sys = "idle"
        /\ \/ queue[1] = "NET2_DOWN" /\ sys' = "stop2"
           \/ queue[1] = "NET2_FAIL" /\ sys' = "fail2"
        /\ ~AtHead("NET2_UP")' /\ ~AtHead("NET2_FAIL")'
        /\ \A ns : Waiting(ns) => Waiting(ns)' \/ queue[1] \in ns
    BY <2>1, TakenSeen
  <2>3. softap = "idle"
    BY <2>2, HeadWaits DEF ApFits, ApMessage
  <2>4. sys' = "fail2" => ap = OffAp
    BY <2>2 DEF ApFits
  <2>5. ap = OffAp => ap' = OffAp
    <3>1. ap = OffAp => ~ap.up /\ ~ap.addressed
      BY DEF OffAp
    <3>2. ~ap.up /\ ~ap.addressed => ap' = OffAp
      BY <2>1 DEF OffAp
    <3> QED
      BY <3>1, <3>2
  <2>6. ~ap'.serving /\ ap'.up = ap.up
    BY <2>1
  <2>7. softap' = "idle" /\ (~ap'.up => ap' = OffAp) /\ ~status'.is_ap
    BY <2>1, <2>3, <2>5, <2>6 DEF ApFits
  <2> QED
    BY <2>2, <2>4, <2>5, <2>6, <2>7 DEF ApFits
<1>5. CASE Net2Down
  <2>1. /\ sys \in {"stop2", "fail2"} /\ sys' = "idle"
        /\ ap' = [ap EXCEPT !.up = FALSE, !.addressed = ap.addressed /\ ~ap.up]
        /\ UNCHANGED <<softap, queue, status>>
    BY <1>5 DEF Net2Down, ApStep
  <2>2. ~ap.serving
    BY <2>1 DEF ApFits, OffAp
  <2>3. ~ap.up => ap = OffAp
    BY DEF ApFits
  <2>4. ap' = OffAp
    BY <2>1, <2>2, <2>3 DEF OffAp
  <2>5. softap = "idle" /\ ~AtHead("NET2_UP")
    BY <2>1 DEF ApFits
  <2> QED
    BY <2>1, <2>4, <2>5, SameQueue DEF ApFits, OffAp
<1> QED
  BY <1>1, <1>2, <1>3, <1>4, <1>5

-----------------------------------------------------------------------------
(* The invariant *)

LEMMA InitIInv == Init => IInv
<1> SUFFICES ASSUME Init PROVE IInv
  OBVIOUS
<1>1. TypeOK
  BY InitTypes
<1>2. AnswersFirst
  <2>1. Len(queue) \in {0, 1}
    BY InitQueue
  <2>2. \A j \in 2..Len(queue) : FALSE
    <3>1. \A n \in {0, 1} : \A j \in 2..n : FALSE
      OBVIOUS
    <3> QED
      BY <2>1, <3>1
  <2> QED
    BY <2>2 DEF AnswersFirst
<1>3. \A ms : "AUTO_MODE_RUN" \notin ms => ~Waiting(ms)
  <2>1. CASE queue = <<>>
    BY <1>1, <2>1, HeadWaits
  <2>2. CASE queue = <<"AUTO_MODE_RUN">>
    BY <2>2 DEF Waiting
  <2> QED
    BY <2>1, <2>2 DEF Init
<1>4. /\ \A k : AtHead(k) => k = "AUTO_MODE_RUN"
      /\ queue # <<>> => AtHead("AUTO_MODE_RUN")
  <2>1. CASE queue = <<>>
    BY <1>1, <2>1, HeadWaits
  <2>2. CASE queue = <<"AUTO_MODE_RUN">>
    BY <2>2 DEF AtHead
  <2> QED
    BY <2>1, <2>2 DEF Init
<1>5. sys = "idle" /\ phase = "off" /\ IsOff /\ ap = OffAp /\ status = ZeroStatus
  BY DEF Init, Netif!Init, IsOff
<1>6. ~Waiting(StationMessage) /\ ~Waiting(ApMessage)
  BY <1>3 DEF StationMessage, ApMessage
<1>7. StationFits
  <2>1. StationPlace
    BY <1>4, <1>5 DEF Init, StationInit, ApInit, StationPlace
  <2>2. CASE StationInit
    BY <1>5, <2>1, <2>2, ZeroIs DEF StationInit, StationFits
  <2>3. CASE ApInit
    BY <1>4, <1>5, <1>6, <2>1, <2>3, ZeroIs DEF ApInit, StationFits, StationWork
  <2> QED
    BY <2>2, <2>3 DEF Init
<1>8. ApFits
  BY <1>4, <1>5, <1>6, ZeroIs DEF Init, StationInit, ApInit, ApFits, OffAp
<1> QED
  BY <1>1, <1>2, <1>7, <1>8 DEF IInv

\* A driver's answer finds the queue empty, and what comes unasked goes behind it.
LEMMA StepAnswersFirst ==
  ASSUME TypeOK, AnswersFirst, [Next]_vars
  PROVE  AnswersFirst'
<1>1. CASE UNCHANGED queue
  BY <1>1, SameQueue
<1>2. CASE \E m \in Message : /\ tls_sys_send_msg(m)
                              /\ m \in {"NET_DOWN", "CONNECT_FAILED", "NET2_DOWN"} \/ queue = <<>>
  BY <1>2, SentBehind
<1>3. CASE \E ms : Take(ms)
  BY <1>3, TakenSeen
<1>4. Joins \/ Disconnected \/ SoftapClosed => <1>2!1
  BY DEF Joins, JoinSuccess, JoinFailed, SoftapSuccess, SoftapFailed, Disconnected, SoftapClosed,
         WifiJoinFailed, Quiet, Message, StationMessage, ApMessage
<1>5. (\E a \in Address : Obtain(a)) \/ Lose \/ GiveUp \/ Waits => UNCHANGED queue \/ <1>2!1
  BY DEF Obtain, Lose, GiveUp, Waits, NoReport, IpNetUp, WifiJoinFailed, Message, StationMessage
<1>6. SystemTask => UNCHANGED queue \/ \E ms : Take(ms)
  BY DEF SystemTask, AutoModeRun, TakeNetUp, NetUp, TakeNetDown, NetDown, TakeNet2Up, Net2Address,
         Net2Serve, TakeNet2Down, Net2Down, Unread
<1>7. (\E online \in BOOLEAN : Event(online)) \/ UNCHANGED vars => UNCHANGED queue
  BY DEF Event, vars
<1> QED
  BY <1>1, <1>2, <1>3, <1>4, <1>5, <1>6, <1>7 DEF Next

LEMMA StepIInv ==
  ASSUME IInv, [Next]_vars
  PROVE  IInv'
<1> TypeOK /\ AnswersFirst /\ StationFits /\ ApFits
  BY DEF IInv
<1>1. TypeOK' /\ AnswersFirst'
  BY StepTypes, StepAnswersFirst
<1>2. CASE UNCHANGED vars
  <2>1. UNCHANGED <<sys, up, phase, addr, ethif_status, stored, link, queue, status, starved,
                    ap, softap>>
    BY <1>2 DEF vars, netif, station, driver
  <2> QED
    BY <1>1, <2>1, SameQueue, StationKeeps, ApKeeps DEF IInv
<1>3. CASE JoinSuccess \/ JoinFailed \/ Disconnected
  BY <1>1, <1>3, StationDriver, ApStation DEF Joins, IInv
<1>4. CASE SoftapSuccess \/ SoftapFailed \/ SoftapClosed
  BY <1>1, <1>4, StationDriver, ApDriver DEF Joins, IInv
<1>5. CASE \E online \in BOOLEAN : Event(online)
  <2>1. UNCHANGED <<sys, queue, ap, softap, starved>> /\ status'.is_ap = status.is_ap
    BY <1>5 DEF Event, TypeOK, Status
  <2>2. ApFits'
    BY <2>1, SameQueue, ApKeeps
  <2> QED
    BY <1>1, <1>5, <2>2, StationDriver DEF IInv
<1>6. CASE (\E a \in Address : Obtain(a)) \/ Lose \/ GiveUp \/ Waits
  BY <1>1, <1>6, StationClient, ApClient DEF IInv
<1>7. CASE SystemTask
  <2>1. ApFits'
    BY <1>7, ApWaits, ApWorks DEF SystemTask
  <2> QED
    BY <1>1, <1>7, <2>1, StationSystem DEF IInv
<1> QED
  BY <1>2, <1>3, <1>4, <1>5, <1>6, <1>7 DEF Next, Joins

-----------------------------------------------------------------------------

\* The invariant holds in every state: whatever the driver and the DHCP client do, and however
\* many messages wait or are lost.
THEOREM Invariant == Spec => []IInv
  BY InitIInv, StepIInv, PTL DEF Spec

\* The state of the interfaces, of the queue and of the status has its types.
THEOREM TypeCorrect == Spec => []TypeOK
<1>1. IInv => TypeOK
  BY DEF IInv
<1> QED
  BY <1>1, Invariant, PTL

\* sys_net_up() finds the interface down and its DHCP client stopped, whatever was lost.
THEOREM DownBeforeUp == Spec => []UpAfterDown
<1>1. IInv => UpAfterDown
  <2> SUFFICES ASSUME IInv, sys = "idle", queue # <<>>, Head(queue) = "NET_UP"
               PROVE  phase = "off" /\ ~up
    BY DEF UpAfterDown
  <2>1. AtHead("NET_UP")
    BY DEF AtHead
  <2> QED
    BY <2>1 DEF IInv, StationFits, StationPlace, IsOff
<1> QED
  BY <1>1, Invariant, PTL

\* When the system task has caught up, the interface of a station is up exactly if the station
\* is connected, whatever was lost before the interface was last down: only what was lost since
\* then can leave it behind.
THEOREM CaughtUp == Spec => []InterfaceFollowsLink
<1>1. IInv => InterfaceFollowsLink
  <2> SUFFICES ASSUME IInv PROVE InterfaceFollowsLink
    OBVIOUS
  <2>1. StationFits /\ TypeOK
    BY DEF IInv
  <2>2. SUFFICES ASSUME Quiet, "station" \notin starved
                 PROVE  IF link = "joined" THEN up /\ phase \in {"search", "bound"}
                        ELSE ~up /\ phase = "off" /\ addr = NoAddress /\ ~ethif_status
    BY <2>1 DEF StationFits, InterfaceFollowsLink
  <2>3. /\ ~GoesDown /\ ~AtHead("AUTO_MODE_RUN") /\ ~AtHead("NET_UP")
        /\ sys = "idle"
    BY <2>1, <2>2, HeadWaits DEF Quiet, GoesDown
  <2>4. CASE link = "joined"
    BY <2>1, <2>2, <2>3, <2>4 DEF StationFits, StationPlace, TypeOK
  <2>5. CASE link # "joined"
    BY <2>1, <2>2, <2>3, <2>5 DEF StationFits, StationPlace, IsOff, TypeOK
  <2> QED
    BY <2>4, <2>5
<1> QED
  BY <1>1, Invariant, PTL

\* When the system task has caught up, the interface, the address and the servers of an access
\* point are there exactly if it runs, in whatever mode the firmware was started and whatever a
\* station does next to it; only memory missing since the interface was last down can leave
\* them behind.
THEOREM ApCaughtUp == Spec => []AccessPointFollowsLink
<1>1. IInv => AccessPointFollowsLink
  <2> SUFFICES ASSUME IInv PROVE AccessPointFollowsLink
    OBVIOUS
  <2>1. ApFits /\ TypeOK
    BY DEF IInv
  <2>2. SUFFICES ASSUME Quiet, "softap" \notin starved
                 PROVE  IF softap = "running" THEN ap.up /\ ap.addressed /\ ap.serving
                        ELSE ap = OffAp
    BY <2>1 DEF ApFits, AccessPointFollowsLink
  <2>3. ~AtHead("NET2_UP") /\ ~Waiting({"NET2_DOWN"}) /\ sys = "idle"
    BY <2>1, <2>2, HeadWaits DEF Quiet
  <2> QED
    BY <2>1, <2>2, <2>3 DEF ApFits, TypeOK
<1> QED
  BY <1>1, Invariant, PTL
=============================================================================
