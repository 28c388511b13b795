-------------------------- MODULE NtpServers_proofs ---------------------------
(***************************************************************************)
(* Proofs about the list of time servers, for any set of servers and       *)
(* whichever of them are refused.                                          *)
(***************************************************************************)
EXTENDS NtpServers, TLAPS

LEMMA PlaceIs == Place = {0, 1, 2}
  BY DEF Place, NTP_SERVER_MAX_NUM

LEMMA InRange ==
  ASSUME NEW S, NEW f \in [Place -> S], NEW p \in Place
  PROVE  f[p] \in Range(f)
  BY DEF Range

LEMMA SettledIsCount ==
  Settled \in 0..3 /\ (Settled = 3 => \A p \in Place : stored[p] = list[p] \/ list[p] \in TooLong)
  BY PlaceIs DEF Settled, One

LEMMA AllSettled ==
  ASSUME TypeOK, Settled >= 3
  PROVE  Configured
<1>1. \A p \in Place : stored[p] = list[p] \/ list[p] \in TooLong
  BY SettledIsCount
<1> QED
  BY <1>1 DEF TypeOK, Configured, Range

LEMMA IInvInit == Init => IInv
<1> SUFFICES ASSUME Init PROVE IInv
  OBVIOUS
<1>1. TypeOK
  <2>1. i = 0 /\ boots = 0
    BY DEF Init
  <2>2. i \in 0..NTP_SERVER_MAX_NUM /\ boots \in 0..3
    BY <2>1 DEF NTP_SERVER_MAX_NUM
  <2>3. failed \in BOOLEAN
    BY DEF Init
  <2> QED
    BY <2>2, <2>3 DEF Init, TypeOK
<1>2. Settled >= 0
  BY SettledIsCount
<1> QED
  BY <1>1, <1>2, PlaceIs DEF Init, IInv, SettlesOne

\* tls_ntp_set_server() keeps to the names that fit.
LEMMA StoredType ==
  ASSUME TypeOK, i < NTP_SERVER_MAX_NUM
  PROVE  /\ i \in Place /\ list[i] \in Server
         /\ Stored(list[i], i) \in [Place -> Names]
<1>1. i \in Place /\ list[i] \in Server
  BY DEF TypeOK, Place, NTP_SERVER_MAX_NUM
<1> QED
  BY <1>1 DEF TypeOK, Stored, Names

\* It leaves the store alone, or settles a server that was not in it.
LEMMA SetServerKeeps == IInv /\ SetServer => IInv'
<1> SUFFICES ASSUME TypeOK, failed => boots = 0, SettlesOne, SetServer PROVE IInv'
  BY DEF IInv
<1>1. /\ i \in Place /\ i' = i + 1 /\ list' = list /\ failed' = failed
      /\ boots' = IF i' = 3 /\ boots < 3 /\ ~failed THEN boots + 1 ELSE boots
  BY DEF SetServer, TypeOK, Place, NTP_SERVER_MAX_NUM
<1>2. list[i] \in Server /\ stored' = Stored(list[i], i) /\ stored' \in [Place -> Names]
  BY StoredType DEF SetServer
<1>3. TypeOK' /\ (failed' => boots' = 0)
  BY <1>1, <1>2 DEF TypeOK, Place, NTP_SERVER_MAX_NUM
<1>4. CASE failed
  BY <1>1, <1>3, <1>4 DEF IInv, SettlesOne
<1>5. CASE ~failed /\ list[i] \in TooLong \cup Range(stored)
  <2>1. stored' = stored
    BY <1>2, <1>5 DEF Stored
  <2>2. CASE Configured
    BY <1>1, <1>3, <2>1, <2>2 DEF IInv, SettlesOne, Configured
  <2>3. CASE ~Configured
    <3>1. Settled' = Settled /\ Settled \in 0..3
      BY <1>1, <2>1, SettledIsCount DEF Settled, One
    <3>2. Settled >= boots /\ Settled < 3 /\ boots \in 0..3
      BY <1>5, <2>3, <3>1, AllSettled DEF SettlesOne, TypeOK
    <3>3. \/ Settled > boots
          \/ \A p \in Place : p < i => list[p] \in TooLong \cup Range(stored)
      BY <1>1, <1>5, <2>3 DEF SettlesOne, Place, NTP_SERVER_MAX_NUM
    <3>4. CASE Settled > boots
      BY <1>1, <1>3, <3>1, <3>2, <3>4 DEF IInv, SettlesOne, NTP_SERVER_MAX_NUM, Place
    <3>5. CASE \A p \in Place : p < i => list[p] \in TooLong \cup Range(stored)
      <4>1. \A p \in Place : p < i' => list[p] \in TooLong \cup Range(stored)
        BY <1>1, <1>5, <3>5 DEF Place, NTP_SERVER_MAX_NUM
      <4>2. i' # 3
        <5> SUFFICES ASSUME i' = 3 PROVE Configured
          BY <2>3
        <5>1. \A p \in Place : list[p] \in TooLong \cup Range(stored)
          BY <4>1 DEF Place, NTP_SERVER_MAX_NUM
        <5> QED
          BY <5>1 DEF TypeOK, Configured, Range
      <4>3. SettlesOne'
        BY <1>1, <2>1, <3>1, <3>2, <4>1, <4>2 DEF SettlesOne
      <4> QED
        BY <1>3, <4>3 DEF IInv
    <3> QED
      BY <3>3, <3>4, <3>5
  <2> QED
    BY <2>2, <2>3
<1>6. CASE ~failed /\ list[i] \notin TooLong \cup Range(stored)
  <2>1. stored' = [stored EXCEPT ![i] = list[i]]
    BY <1>2, <1>6 DEF Stored
  <2>2. ~Configured
    BY <1>1, <1>6 DEF Configured, Range, TypeOK
  <2>3. stored[i] # list[i]
    BY <1>1, <1>6, InRange DEF TypeOK
  <2>4. stored'[i] = list[i] /\ \A p \in Place : p # i => stored'[p] = stored[p]
    BY <1>1, <2>1 DEF TypeOK
  <2>5. Settled' = Settled + 1
    BY <1>1, <1>6, <2>3, <2>4, PlaceIs DEF Settled, One
  <2>6. Settled >= boots /\ Settled \in 0..3 /\ boots \in 0..3
    BY <1>6, <2>2, SettledIsCount DEF SettlesOne, TypeOK
  <2>7. Settled' >= boots' /\ (i' = 3 \/ Settled' > boots')
    BY <1>1, <2>5, <2>6
  <2> QED
    BY <1>3, <2>7 DEF IInv, SettlesOne, NTP_SERVER_MAX_NUM
<1> QED
  BY <1>4, <1>5, <1>6

LEMMA IInvStep == IInv /\ [Next]_vars => IInv'
<1> SUFFICES ASSUME IInv, [Next]_vars PROVE IInv'
  OBVIOUS
<1>1. CASE SetServer
  BY <1>1, SetServerKeeps
<1>2. CASE SetServerFails
  <2>1. stored' \in [Place -> Names]
    BY <1>2, StoredType DEF SetServerFails, IInv, TypeOK
  <2>2. TypeOK'
    BY <1>2, <2>1 DEF SetServerFails, IInv, TypeOK, NTP_SERVER_MAX_NUM
  <2> QED
    BY <1>2, <2>2 DEF SetServerFails, IInv, SettlesOne
<1>3. CASE Restart
  <2>1. TypeOK'
    <3>1. stored' \in [Place -> Names]
      BY <1>3 DEF Restart, Loaded, IInv, TypeOK
    <3>2. i' \in 0..NTP_SERVER_MAX_NUM
      BY <1>3 DEF Restart, NTP_SERVER_MAX_NUM
    <3> QED
      BY <1>3, <3>1, <3>2 DEF Restart, IInv, TypeOK
  <2>2. \A p \in Place : ~(p < i')
    BY <1>3, PlaceIs DEF Restart
  <2>3. Settled' \in 0..3
    BY DEF Settled, One
  <2>4. CASE failed
    BY <1>3, <2>1, <2>2, <2>3, <2>4 DEF Restart, IInv, SettlesOne
  <2>5. CASE ~failed
    <3>1. UNCHANGED <<stored, list, boots>> /\ Settled' = Settled /\ ~failed'
      BY <1>3, <2>5 DEF Restart, Loaded, Settled, One
    <3> QED
      BY <2>1, <2>2, <2>5, <3>1 DEF IInv, SettlesOne, Configured
  <2> QED
    BY <2>4, <2>5
<1>4. CASE Update
  <2>1. TypeOK' /\ i' = 0 /\ boots' = 0
    BY <1>4 DEF Update, IInv, TypeOK, NTP_SERVER_MAX_NUM
  <2>2. Settled' >= 0
    BY DEF Settled, One
  <2>3. \A p \in Place : ~(p < i')
    BY <2>1, PlaceIs
  <2> QED
    BY <2>1, <2>2, <2>3 DEF IInv, SettlesOne
<1>5. CASE UNCHANGED vars
  BY <1>5 DEF vars, IInv, TypeOK, SettlesOne, Configured, Settled, One
<1> QED
  BY <1>1, <1>2, <1>3, <1>4, <1>5 DEF Next

LEMMA Invariance == Spec => []IInv
  BY IInvInit, IInvStep, PTL DEF Spec

\* ntp_init() hands over three servers and the store has three, whose names fit.
THEOREM TypeCorrect == Spec => []TypeOK
<1>1. IInv => TypeOK
  BY DEF IInv
<1> QED
  BY <1>1, Invariance, PTL

\* Whatever tls_ntp_set_server() finds stored, a third boot in a row in which nothing fails has all
\* configured servers whose names fit.
THEOREM ThirdBoot == Spec => []ThirdBootConfigures
<1>1. IInv => ThirdBootConfigures
  <2> SUFFICES ASSUME IInv, boots = 3, ~Configured PROVE FALSE
    BY DEF ThirdBootConfigures
  <2>1. TypeOK /\ Settled >= 3
    BY DEF IInv, SettlesOne
  <2> QED
    BY <2>1, AllSettled
<1> QED
  BY <1>1, Invariance, PTL

\* Once they are stored, ntp_init() does not write to flash.
THEOREM NoMoreWrites == Spec => BootsWithoutWriting
<1>1. IInv /\ [Next]_vars => [Configured /\ i' > i => UNCHANGED stored]_vars
  <2> SUFFICES ASSUME IInv, Next, Configured, i' > i PROVE stored' = stored
    OBVIOUS
  <2>1. CASE SetServer \/ SetServerFails
    <3>1. i \in Place
      BY <2>1 DEF SetServer, SetServerFails, IInv, TypeOK, Place, NTP_SERVER_MAX_NUM
    <3>2. list[i] \in TooLong \cup Range(stored)
      BY <3>1 DEF Configured, IInv, TypeOK, Range
    <3> QED
      BY <2>1, <3>2 DEF SetServer, SetServerFails, Stored
  <2>2. CASE Restart \/ Update
    BY <2>2 DEF Restart, Update, IInv, TypeOK
  <2> QED
    BY <2>1, <2>2 DEF Next
<1> QED
  BY <1>1, Invariance, PTL DEF Spec, BootsWithoutWriting
=============================================================================
