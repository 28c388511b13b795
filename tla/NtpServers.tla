----------------------------- MODULE NtpServers ------------------------------
(***************************************************************************)
(* The time servers of the gateway: ntp_init() hands the three servers of  *)
(* the firmware's configuration to tls_ntp_set_server() at every boot,     *)
(* which keeps them in the parameter store, and leaves a server alone that *)
(* is in the store already, whatever its place.  ntp_init() looks at no    *)
(* result.  A write to flash is made or not (module ParamStore); the power *)
(* may go between two calls.                                               *)
(*                                                                         *)
(* Left out: a name of exactly NTP_SERVER_DOMAIN_LEN characters, which is  *)
(* let through although its terminating zero is stored in the next place.  *)
(***************************************************************************)
EXTENDS Integers, Functions

CONSTANTS
  Server,
  TooLong  \* of these the names longer than NTP_SERVER_DOMAIN_LEN

ASSUME ServerAssumption == TooLong \subseteq Server /\ TooLong # Server

VARIABLES
  stored,   \* TLS_PARAM_ID_SNTP_SERVER1..3, in memory
  list,     \* ntp_server_list, of the firmware that runs
  i,        \* how many of them ntp_init() has handed over
  failed,   \* (history) whether an allocation or a write has failed since the last restart
  boots     \* (history) how many boots with this list have ended without a failure, up to 3

vars == <<stored, list, i, failed, boots>>

NTP_SERVER_MAX_NUM == 3
Place == 0..NTP_SERVER_MAX_NUM - 1
Names == Server \ TooLong

\* What an earlier firmware or the factory settings left, and any configuration.
Init ==
  /\ stored \in [Place -> Names] /\ list \in [Place -> Server]
  /\ i = 0 /\ failed = FALSE /\ boots = 0

\* mutated forms: places are counted from 1; a server is looked for in its own place only
StoredFromOne(ipaddr, server_no) ==
  IF ipaddr \in TooLong \cup Range(stored) \/ server_no + 1 \notin Place
  THEN stored ELSE [stored EXCEPT ![server_no + 1] = ipaddr]
StoredInPlace(ipaddr, server_no) ==
  IF ipaddr \in TooLong THEN stored ELSE [stored EXCEPT ![server_no] = ipaddr]

\* What tls_ntp_set_server() makes of the parameters.
Stored(ipaddr, server_no) ==
  IF ipaddr \in TooLong \cup Range(stored) THEN stored ELSE [stored EXCEPT ![server_no] = ipaddr]

\* mutated form: ntp_init() goes one past the end of its list
SetServerOneMore ==
  /\ i <= NTP_SERVER_MAX_NUM
  /\ \E s \in Server : stored' = Stored(IF i \in Place THEN list[i] ELSE s, i)
  /\ i' = i + 1
  /\ UNCHANGED <<list, failed, boots>>

SetServer ==
  /\ i < NTP_SERVER_MAX_NUM
  /\ stored' = Stored(list[i], i)
  /\ i' = i + 1
  /\ boots' = IF i' = NTP_SERVER_MAX_NUM /\ boots < 3 /\ ~failed THEN boots + 1 ELSE boots
  /\ UNCHANGED <<list, failed>>

\* There is no memory to look at what is stored, or a write fails after memory has the server.
SetServerFails ==
  /\ i < NTP_SERVER_MAX_NUM /\ list[i] \notin TooLong
  /\ stored' \in {stored, Stored(list[i], i)}
  /\ i' = i + 1 /\ failed' = TRUE /\ boots' = 0
  /\ UNCHANGED list

\* What is read from flash is what was stored last.  After a write that failed it is older, or
\* what another write, of any parameter, has stored, or the factory settings: anything.
Loaded == IF failed THEN [Place -> Names] ELSE {stored}

\* A restart, with ntp_init() at its end or not.
Restart ==
  /\ i > 0 /\ i' = 0 /\ stored' \in Loaded /\ failed' = FALSE
  /\ UNCHANGED <<list, boots>>

\* Another firmware, before ntp_init(): one server of its list is another.  Updates
\* in a row give any list.
Update ==
  /\ i = 0 /\ boots' = 0
  /\ \E p \in Place, s \in Server : list' = [list EXCEPT ![p] = s]
  /\ UNCHANGED <<stored, i, failed>>

Next == SetServer \/ SetServerFails \/ Restart \/ Update
Spec == Init /\ [][Next]_vars

-----------------------------------------------------------------------------
(* Properties *)

TypeOK ==
  /\ stored \in [Place -> Names] /\ list \in [Place -> Server]
  /\ i \in 0..NTP_SERVER_MAX_NUM /\ failed \in BOOLEAN /\ boots \in 0..3

\* All servers are stored whose names are not refused.
Configured == Range(list) \subseteq TooLong \cup Range(stored)

\* A server put into its place may push out another one of the list, which is found missing no
\* sooner than at the next boot, and so on: the third boot has all of them, if no allocation and
\* no write has failed from the first of the three on.
ThirdBootConfigures == boots = 3 => Configured

\* Once all are stored, a call of tls_ntp_set_server() writes nothing to flash.
BootsWithoutWriting == [][Configured /\ i' > i => UNCHANGED stored]_vars

-----------------------------------------------------------------------------
(* The inductive invariant of NtpServers_proofs *)

\* How many servers are in their own places, out of which no call pushes them, or are refused
One(p) == IF stored[p] = list[p] \/ list[p] \in TooLong THEN 1 ELSE 0
Settled == One(0) + One(1) + One(2)

\* Every boot in which nothing fails, and which does not find all servers, settles one more.
SettlesOne ==
  \/ Configured
  \/ failed /\ boots = 0
  \/ /\ Settled >= boots
     /\ \/ i = NTP_SERVER_MAX_NUM
        \/ Settled > boots
        \/ \A p \in Place : p < i => list[p] \in TooLong \cup Range(stored)

IInv == TypeOK /\ (failed => boots = 0) /\ SettlesOne
=============================================================================
