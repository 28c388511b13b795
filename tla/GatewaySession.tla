--------------------------- MODULE GatewaySession ---------------------------
(***************************************************************************)
(* What the MQTT layer promises the rest of the firmware: a TCP connection *)
(* carries at most one accepted session, a session that was lost is never  *)
(* resumed on the same connection, and a connection is closed only after   *)
(* its session was given up (isconnected reset), so that nobody who sees   *)
(* isconnected set writes to a closed socket.                              *)
(***************************************************************************)
VARIABLES
  conn,      \* the TCP connection: "closed" or "open"
  session    \* its session: "none" so far, "accepted" or "lost"

Init == conn = "closed" /\ session = "none"

Open == conn = "closed" /\ conn' = "open" /\ UNCHANGED session
Accept == conn = "open" /\ session = "none" /\ session' = "accepted" /\ UNCHANGED conn
Lose == session = "accepted" /\ session' = "lost" /\ UNCHANGED conn
Close == conn = "open" /\ session # "accepted" /\ conn' = "closed" /\ session' = "none"

Next == Open \/ Accept \/ Lose \/ Close
Spec == Init /\ [][Next]_<<conn, session>>
=============================================================================
