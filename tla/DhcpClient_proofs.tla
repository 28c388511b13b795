-------------------------- MODULE DhcpClient_proofs ---------------------------
(***************************************************************************)
(* Proofs about the DHCP client: whatever leases there are, and however    *)
(* wide its counters, an address goes with its lease, and a client that    *)
(* waits has a timer or has reported that there is no server.              *)
(***************************************************************************)
EXTENDS DhcpClient, TLAPS

-----------------------------------------------------------------------------
(* Numbers *)

LEMMA MinOfTwo ==
  ASSUME NEW a \in Int, NEW b \in Int
  PROVE  Min({a, b}) = IF a <= b THEN a ELSE b
  BY DEF Min

LEMMA Quotient ==
  ASSUME NEW a \in Nat, NEW b \in Nat \ {0}
  PROVE  a \div b \in Nat
  OBVIOUS

\* A time in ticks is at least one, and has sixteen bits.
LEMMA CoarseIsTicks ==
  ASSUME NEW s \in Nat
  PROVE  Coarse(s) \in Ticks \ {0}
<1> DEFINE t == (s + CoarseSecs \div 2) \div CoarseSecs
<1>1. t \in Nat
  BY LeasesAssumption, Quotient
<1>2. Min({t, MaxTimeout}) = IF t <= MaxTimeout THEN t ELSE MaxTimeout
  BY <1>1, MinOfTwo, LeasesAssumption
<1> QED
  BY <1>1, <1>2, LeasesAssumption DEF Coarse, Ticks

LEMMA HalfIsTicks ==
  ASSUME NEW t \in Ticks, NEW used \in Ticks, NEW now \in Ticks
  PROVE  Again(Half(t, used), now) \in Ticks
<1>1. Half(t, used) \in Ticks
  BY LeasesAssumption DEF Half, Ticks
<1> QED
  BY <1>1 DEF Again

-----------------------------------------------------------------------------
(* What the steps of the handlers make of the client *)

\* For a moment, a refused client is in a state that no handler knows.
AnyState == [state : State \cup {"BACKING_OFF"}, tries : 0..MaxTries, armed : BOOLEAN,
             t0 : Ticks, t1 : Ticks, t2 : Ticks, t2_set : Ticks, lease_used : Ticks]

SameTimes(c, d) ==
  d.t0 = c.t0 /\ d.t1 = c.t1 /\ d.t2 = c.t2 /\ d.t2_set = c.t2_set /\ d.lease_used = c.lease_used

LEMMA DhcpIsAny == Dhcp \subseteq AnyState
  BY DEF Dhcp, AnyState

LEMMA SetState ==
  ASSUME NEW c \in AnyState, NEW s \in State \cup {"BACKING_OFF"}
  PROVE  /\ dhcp_set_state(c, s) \in AnyState /\ dhcp_set_state(c, s).state = s
         /\ SameTimes(c, dhcp_set_state(c, s))
         /\ c.state # s => dhcp_set_state(c, s).tries = 0
<1> DEFINE d == [c EXCEPT !.state = s, !.tries = 0, !.armed = FALSE]
<1>0. 0 \in 0..MaxTries
  BY DEF MaxTries
<1>1. d \in AnyState
  BY <1>0, Zenon DEF AnyState
<1>2. d.state = s /\ d.tries = 0 /\ SameTimes(c, d)
  BY DEF AnyState, SameTimes
<1>3. dhcp_set_state(c, s) = IF c.state = s THEN c ELSE d
  BY DEF dhcp_set_state
<1> HIDE DEF d
<1> QED
  BY <1>1, <1>2, <1>3 DEF SameTimes

\* A request sets the timer, and leaves what is known of the lease.
LEMMA RequestsIs ==
  ASSUME NEW c \in AnyState, NEW s \in State
  PROVE  /\ Requests(c, s) \in Dhcp /\ Requests(c, s).state = s /\ Requests(c, s).armed = TRUE
         /\ SameTimes(c, Requests(c, s))
<1> DEFINE d == dhcp_set_state(c, s)
<1>1. d \in AnyState /\ d.state = s /\ SameTimes(c, d)
  BY SetState
<1>2. Min({d.tries + 1, MaxTries}) \in 0..MaxTries
  BY <1>1, MinOfTwo DEF AnyState, MaxTries
<1>3. Requests(c, s) = [d EXCEPT !.tries = Min({d.tries + 1, MaxTries}), !.armed = TRUE]
  BY DEF Requests
<1> HIDE DEF d
<1>4. Requests(c, s) \in Dhcp
  BY <1>1, <1>2, <1>3 DEF AnyState, Dhcp
<1> QED
  BY <1>1, <1>3, <1>4 DEF AnyState, SameTimes

LEMMA ReleaseIs ==
  ASSUME NEW c \in Dhcp
  PROVE  /\ dhcp_release(c) \in AnyState /\ dhcp_release(c).state = "OFF"
         /\ dhcp_release(c).t0 = 0 /\ dhcp_release(c).lease_used = 0
<1>1. dhcp_set_state(c, "OFF") \in AnyState /\ dhcp_set_state(c, "OFF").state = "OFF"
  BY SetState, DhcpIsAny DEF State
<1>2. 0 \in Ticks
  BY LeasesAssumption DEF Ticks
<1> QED
  BY <1>1, <1>2, Zenon DEF dhcp_release, AnyState

LEMMA ExpiredIs ==
  ASSUME client \in Dhcp
  PROVE  /\ Expired \in Dhcp /\ Expired.armed = FALSE /\ Expired.state = client.state
         /\ SameTimes(client, Expired)
  BY DEF Expired, Dhcp, SameTimes

\* A new lease runs from its beginning.
LEMMA BindIs ==
  ASSUME NEW c \in Dhcp, NEW lease \in Nat, NEW t1 \in Nat, NEW t2 \in Nat
  PROVE  LET d == dhcp_bind(c, lease, t1, t2)
         IN d \in Dhcp /\ d.state = "BOUND" /\ d.lease_used = 0
<1> DEFINE b == dhcp_set_state(c, "BOUND")
           t0 == IF lease = Infinite THEN b.t0 ELSE Coarse(lease)
<1>1. b \in AnyState /\ b.state = "BOUND"
  BY SetState, DhcpIsAny DEF State
<1>2. t0 \in Ticks /\ Coarse(t1) \in Ticks /\ Coarse(t2) \in Ticks
  BY <1>1, CoarseIsTicks DEF AnyState
<1>3. dhcp_bind(c, lease, t1, t2) =
        [b EXCEPT !.lease_used = 0, !.t0 = t0, !.t1 = Coarse(t1), !.t2 = Coarse(t2),
                  !.t2_set = Coarse(t2)]
  BY DEF dhcp_bind
<1>4. 0 \in Ticks /\ "BOUND" \in State
  BY LeasesAssumption DEF Ticks, State
<1> HIDE DEF b, t0
<1> QED
  BY <1>1, <1>2, <1>3, <1>4, Zenon DEF AnyState, Dhcp

\* A timer of the lease leaves the client alone, or has it ask for another lease.
AsksOr(c, d) ==
  /\ d \in Dhcp /\ d.t0 = c.t0 /\ d.lease_used = c.lease_used
  /\ \/ d.state = c.state /\ d.armed = c.armed
     \/ /\ c.state \in {"REQUESTING", "BOUND", "RENEWING", "REBINDING"}
        /\ d.state \in {"RENEWING", "REBINDING"} /\ d.armed = TRUE

LEMMA T1Is ==
  ASSUME NEW c \in Dhcp
  PROVE  AsksOr(c, dhcp_t1_timeout(c))
<1> DEFINE r == dhcp_renew(c)
           t == Again(Half(c.t2_set, c.lease_used), r.t1)
<1>1. r \in Dhcp /\ r.state = "RENEWING" /\ r.armed = TRUE /\ SameTimes(c, r)
  BY RequestsIs, DhcpIsAny DEF dhcp_renew, State
<1>2. t \in Ticks
  BY <1>1, HalfIsTicks DEF Dhcp
<1> HIDE DEF t, r
<1>3. [r EXCEPT !.t1 = t] \in Dhcp
  BY <1>1, <1>2 DEF Dhcp
<1>4. CASE c.state \in {"REQUESTING", "BOUND", "RENEWING"}
  <2>1. dhcp_t1_timeout(c) = [r EXCEPT !.t1 = t]
    BY <1>4 DEF dhcp_t1_timeout, r, t
  <2> QED
    BY <1>1, <1>3, <1>4, <2>1 DEF AsksOr, SameTimes, Dhcp
<1>5. CASE c.state \notin {"REQUESTING", "BOUND", "RENEWING"}
  BY <1>5 DEF dhcp_t1_timeout, AsksOr
<1> QED
  BY <1>4, <1>5

LEMMA T2Is ==
  ASSUME NEW c \in Dhcp
  PROVE  AsksOr(c, dhcp_t2_timeout(c))
<1> DEFINE r == dhcp_rebind(c)
           t == Again(Half(c.t0, c.lease_used), r.t2)
<1>1. r \in Dhcp /\ r.state = "REBINDING" /\ r.armed = TRUE /\ SameTimes(c, r)
  BY RequestsIs, DhcpIsAny DEF dhcp_rebind, State
<1>2. t \in Ticks
  BY <1>1, HalfIsTicks DEF Dhcp
<1> HIDE DEF t, r
<1>3. [r EXCEPT !.t2 = t] \in Dhcp
  BY <1>1, <1>2 DEF Dhcp
<1>4. CASE c.state \in {"REQUESTING", "BOUND", "RENEWING", "REBINDING"}
  <2>1. dhcp_t2_timeout(c) = [r EXCEPT !.t2 = t]
    BY <1>4 DEF dhcp_t2_timeout, r, t
  <2> QED
    BY <1>1, <1>3, <1>4, <2>1 DEF AsksOr, SameTimes, Dhcp
<1>5. CASE c.state \notin {"REQUESTING", "BOUND", "RENEWING", "REBINDING"}
  BY <1>5 DEF dhcp_t2_timeout, AsksOr
<1> QED
  BY <1>4, <1>5

\* A tick of the coarse timer that does not end the lease counts it.
Used(c) == IF c.t0 = 0 THEN c.lease_used ELSE c.lease_used + 1

LEMMA CountedIs ==
  ASSUME client \in Dhcp, LeaseRuns, ~LeaseEnds
  PROVE  /\ Counted \in Dhcp /\ Counted.t0 = client.t0 /\ Counted.lease_used = Used(client)
         /\ \/ Counted.state = client.state /\ Counted.armed = client.armed
            \/ /\ client.state \in {"REQUESTING", "BOUND", "RENEWING", "REBINDING"}
               /\ Counted.state \in {"RENEWING", "REBINDING"} /\ Counted.armed = TRUE
<1> DEFINE t1 == IF client.t1 = 0 THEN 0 ELSE client.t1 - 1
           t2 == IF client.t2 = 0 THEN 0 ELSE client.t2 - 1
           c == [client EXCEPT !.lease_used = Used(client), !.t2 = t2]
           d == [c EXCEPT !.t1 = t1]
<1>1. Used(client) \in Ticks /\ t1 \in Ticks /\ t2 \in Ticks
  BY LeasesAssumption DEF Used, LeaseRuns, LeaseEnds, Dhcp, Ticks
<1>2. c.t1 = client.t1
  BY DEF Dhcp
<1>3. Counted = IF client.t2 = 1 THEN dhcp_t2_timeout(c)
                ELSE IF client.t1 = 1 THEN dhcp_t1_timeout(d) ELSE d
  BY <1>2 DEF Counted, Used
<1> HIDE DEF t1, t2
<1>4. c \in Dhcp /\ c.t0 = client.t0 /\ c.lease_used = Used(client)
      /\ c.state = client.state /\ c.armed = client.armed
  BY <1>1 DEF Dhcp
<1> HIDE DEF c
<1>5. d \in Dhcp /\ d.t0 = client.t0 /\ d.lease_used = Used(client)
      /\ d.state = client.state /\ d.armed = client.armed
  BY <1>1, <1>4 DEF Dhcp
<1> HIDE DEF d
<1>6. AsksOr(c, dhcp_t2_timeout(c)) /\ AsksOr(d, dhcp_t1_timeout(d)) /\ AsksOr(d, d)
  BY <1>4, <1>5, T1Is, T2Is DEF AsksOr
<1> QED
  BY <1>3, <1>4, <1>5, <1>6 DEF AsksOr

-----------------------------------------------------------------------------
(* The invariant.  Each action is one lemma about what it makes of the client and its address. *)

USE DEF MaxTries

LEMMA ClearedIs ==
  Cleared \in Dhcp /\ Cleared.state = "OFF" /\ Cleared.t0 = 0 /\ Cleared.lease_used = 0
  BY LeasesAssumption DEF Cleared, Dhcp, State, Ticks

LEMMA SearchIs ==
  ASSUME NEW c \in AnyState, Search(c)
  PROVE  /\ client' \in Dhcp /\ client'.state = "SELECTING" /\ client'.armed = TRUE
         /\ client'.t0 = c.t0 /\ client'.lease_used = c.lease_used
         /\ dhcp_timeout_flag' = FALSE
  BY RequestsIs DEF Search, State, SameTimes

LEMMA SetAddrIs ==
  ASSUME IInv, NEW a \in Address \cup {NoAddress}, netif_set_addr(a)
  PROVE  addr' = a /\ told' \in {"nothing", "up", "failed"} /\ (a = addr => told' = told)
  BY DEF netif_set_addr, Reported, IInv, TypeOK

\* The steps that begin a search anew: whatever the client was, it has no address then.
LEMMA StartOverIs ==
  ASSUME IInv, StartOver(client), client.state # "OFF"
  PROVE  /\ client' \in Dhcp /\ client'.state = "SELECTING" /\ client'.armed = TRUE
         /\ client'.t0 = 0 /\ dhcp_timeout_flag' = FALSE
         /\ addr' = NoAddress /\ told' \in {"nothing", "up", "failed"}
         /\ addr = NoAddress => told' = told
         /\ addr # NoAddress => told' \in {told, "failed"}
<1>1. client \in Dhcp /\ addr \in Address \cup {NoAddress} /\ told \in {"nothing", "up", "failed"}
  BY DEF IInv, TypeOK
<1>2. dhcp_release(client) \in AnyState /\ dhcp_release(client).t0 = 0
  BY <1>1, ReleaseIs
<1>3. /\ client' \in Dhcp /\ client'.state = "SELECTING" /\ client'.armed = TRUE
      /\ client'.t0 = 0 /\ dhcp_timeout_flag' = FALSE
  BY <1>2, SearchIs DEF StartOver
<1>4. CASE dhcp_supplied_address(client)
  BY <1>1, <1>3, <1>4, SetAddrIs DEF StartOver, netif_set_addr, Reported
<1>5. CASE ~dhcp_supplied_address(client)
  <2>1. addr = NoAddress
    BY <1>5 DEF IInv, AddressFitsState
  <2> QED
    BY <1>1, <1>3, <1>5, <2>1 DEF StartOver
<1> QED
  BY <1>4, <1>5

\* A client that searches with its timer set satisfies the invariant.
LEMMA Searching ==
  ASSUME IInv, UNCHANGED caller,
         client.state # "OFF", client' \in Dhcp, client'.state = "SELECTING", client'.armed = TRUE,
         client'.t0 # 0 => client'.lease_used < client'.t0,
         dhcp_timeout_flag' = FALSE, addr' = NoAddress, told' \in {"nothing", "up", "failed"}
  PROVE  IInv'
<1>1. TypeOK'
  BY DEF IInv, TypeOK, caller
<1> QED
  BY <1>1 DEF IInv, LeaseRuns, AddressFitsState, RunsWhenUp, WaitsWithTimer, caller

LEMMA IInvInit == Init => IInv
<1> SUFFICES ASSUME Init PROVE IInv
  OBVIOUS
<1>1. TypeOK
  BY ClearedIs DEF Init, TypeOK
<1> QED
  BY <1>1, ClearedIs
  DEF Init, IInv, LeaseRuns, AddressFitsState, RunsWhenUp, WaitsWithTimer, Waiting

LEMMA SystemTaskKeeps == IInv /\ SystemTask => IInv'
<1> SUFFICES ASSUME IInv, SystemTask PROVE IInv'
  OBVIOUS
<1> USE DEF IInv, LeaseRuns, AddressFitsState, RunsWhenUp, WaitsWithTimer, Waiting
<1>1. CASE NetUpClear
  <2>1. addr' = NoAddress /\ told' \in {"nothing", "up", "failed"}
    BY <1>1, SetAddrIs DEF NetUpClear
  <2>2. sys' = "cleared" /\ UNCHANGED <<up, client, dhcp_timeout_flag>> /\ client.state = "OFF"
    BY <1>1 DEF NetUpClear
  <2>3. TypeOK'
    BY <2>1, <2>2 DEF TypeOK
  <2> QED
    BY <2>1, <2>2, <2>3
<1>2. CASE NetUpRaise
  <2>1. TypeOK'
    BY <1>2 DEF NetUpRaise, TypeOK
  <2> QED
    BY <1>2, <2>1 DEF NetUpRaise, dhcp_supplied_address
<1>3. CASE NetUpStart
  <2>1. /\ client' \in Dhcp /\ client'.t0 = 0 /\ dhcp_timeout_flag' \in BOOLEAN
        /\ client'.state = "OFF" \/ (client'.state = "SELECTING" /\ client'.armed = TRUE)
    <3>1. CASE Search(Cleared)
      BY <3>1, SearchIs, ClearedIs, DhcpIsAny
    <3>2. CASE NoMemory
      BY <3>2, ClearedIs DEF NoMemory, TypeOK
    <3> QED
      BY <1>3, <3>1, <3>2 DEF NetUpStart
  <2>2. sys = "raised" /\ sys' = "idle" /\ UNCHANGED <<up, addr, told>>
    BY <1>3 DEF NetUpStart
  <2>3. TypeOK'
    BY <2>1, <2>2 DEF TypeOK
  <2>4. addr = NoAddress
    BY <2>2 DEF dhcp_supplied_address
  <2> QED
    BY <2>1, <2>2, <2>3, <2>4
<1>4. CASE NetDownStop
  <2>1. client' \in AnyState /\ client'.state = "OFF" /\ SameTimes(client, client')
    BY <1>4, SetState, DhcpIsAny DEF NetDownStop, TypeOK, State
  <2>2. client' \in Dhcp
    BY <2>1 DEF AnyState, Dhcp, State
  <2>3. sys' = "stopped" /\ UNCHANGED <<up, addr, told, dhcp_timeout_flag>>
    BY <1>4 DEF NetDownStop
  <2>4. TypeOK'
    BY <2>2, <2>3 DEF TypeOK
  <2> QED
    BY <2>1, <2>3, <2>4 DEF SameTimes
<1>5. CASE NetDown
  <2>1. TypeOK'
    BY <1>5 DEF NetDown, TypeOK
  <2>2. client.state = "OFF"
    BY <1>5 DEF NetDown
  <2> QED
    BY <1>5, <2>1, <2>2 DEF NetDown
<1> QED
  BY <1>1, <1>2, <1>3, <1>4, <1>5 DEF SystemTask

\* A server's acknowledgement
LEMMA AckIs ==
  ASSUME IInv, NEW a \in Address, NEW lease \in Leases, NEW t1 \in T1(lease),
         NEW t2 \in T2(lease, t1), Ack(a, lease, t1, t2)
  PROVE  /\ client.state \in {"REQUESTING", "RENEWING", "REBINDING"}
         /\ client' \in Dhcp /\ client'.state = "BOUND" /\ client'.lease_used = 0
         /\ addr' = a /\ told' = (IF a = addr THEN told ELSE "up")
         /\ UNCHANGED <<caller, dhcp_timeout_flag>>
<1>1. lease \in Nat
  BY LeasesAssumption
<1>2. t1 \in Nat
  BY <1>1, LeasesAssumption DEF T1
<1>3. ((lease * 7) % U32) \div 8 \in Nat
  BY <1>1, LeasesAssumption
<1>4. t2 \in Nat
  BY <1>3, LeasesAssumption DEF T2
<1>5. client.state # "OFF" /\ a # NoAddress
  BY LeasesAssumption DEF Ack
<1>6. up
  BY <1>5 DEF IInv, RunsWhenUp
<1>7. client' \in Dhcp /\ client'.state = "BOUND" /\ client'.lease_used = 0
  BY <1>1, <1>2, <1>4, BindIs DEF Ack, IInv, TypeOK
<1> QED
  BY <1>5, <1>6, <1>7 DEF Ack, netif_set_addr, Reported

LEMMA NakIs ==
  ASSUME IInv, Nak
  PROVE  /\ client.state \in {"REQUESTING", "RENEWING", "REBINDING"}
         /\ client' \in Dhcp /\ client'.state = "SELECTING" /\ client'.armed = TRUE
         /\ client'.t0 = client.t0 /\ client'.lease_used = client.lease_used
         /\ dhcp_timeout_flag' = FALSE
         /\ addr' = NoAddress /\ told' \in {"nothing", "up", "failed"}
         /\ addr = NoAddress => told' = told
         /\ addr # NoAddress => told' \in {told, "failed"}
         /\ UNCHANGED caller
<1> DEFINE c == dhcp_set_state(client, "BACKING_OFF")
<1>1. c \in AnyState /\ SameTimes(client, c)
  BY SetState, DhcpIsAny DEF IInv, TypeOK
<1>2. Search(c) /\ UNCHANGED caller /\ client.state \in {"REQUESTING", "RENEWING", "REBINDING"}
  BY DEF Nak
<1>3. netif_set_addr(NoAddress)
  BY DEF Nak
<1> HIDE DEF c
<1>4. /\ client' \in Dhcp /\ client'.state = "SELECTING" /\ client'.armed = TRUE
      /\ client'.t0 = client.t0 /\ client'.lease_used = client.lease_used
      /\ dhcp_timeout_flag' = FALSE
  BY <1>1, <1>2, SearchIs DEF SameTimes
<1>5. addr' = NoAddress /\ told' \in {"nothing", "up", "failed"}
  BY <1>3, SetAddrIs
<1>6. told' \in {told, "failed"} /\ (addr = NoAddress => told' = told)
  BY <1>3 DEF netif_set_addr, Reported
<1> QED
  BY <1>2, <1>4, <1>5, <1>6

LEMMA RepliesKeep == IInv /\ (Offer \/ Acked \/ Nak) => IInv'
<1> SUFFICES ASSUME IInv, Offer \/ Acked \/ Nak PROVE IInv'
  OBVIOUS
<1>1. CASE Offer
  <2>1. /\ client' \in Dhcp /\ client'.state = "REQUESTING" /\ client'.armed = TRUE
        /\ SameTimes(client, client')
    BY <1>1, RequestsIs, DhcpIsAny DEF Offer, dhcp_select, IInv, TypeOK, State
  <2>2. client.state = "SELECTING" /\ UNCHANGED <<caller, addr, told, dhcp_timeout_flag>>
    BY <1>1 DEF Offer
  <2>3. TypeOK'
    BY <2>1, <2>2 DEF IInv, TypeOK, caller
  <2>4. addr = NoAddress
    BY <2>2 DEF IInv, AddressFitsState, dhcp_supplied_address
  <2> QED
    BY <2>1, <2>2, <2>3, <2>4
    DEF IInv, LeaseRuns, AddressFitsState, RunsWhenUp, WaitsWithTimer, caller, SameTimes
<1>2. CASE Acked
  <2>1. PICK a \in Address, lease \in Leases :
          \E t1 \in T1(lease) : \E t2 \in T2(lease, t1) : Ack(a, lease, t1, t2)
    BY <1>2 DEF Acked
  <2>2. /\ client.state \in {"REQUESTING", "RENEWING", "REBINDING"}
        /\ client' \in Dhcp /\ client'.state = "BOUND" /\ client'.lease_used = 0
        /\ addr' = a /\ told' = (IF a = addr THEN told ELSE "up")
        /\ UNCHANGED <<caller, dhcp_timeout_flag>>
    BY <2>1, AckIs
  <2>3. TypeOK'
    BY <2>2 DEF IInv, TypeOK, caller
  <2>4. a # NoAddress
    BY LeasesAssumption
  <2>5. LeaseRuns'
    BY <2>2 DEF LeaseRuns, Dhcp, Ticks
  <2> QED
    BY <2>2, <2>3, <2>4, <2>5
    DEF IInv, AddressFitsState, RunsWhenUp, WaitsWithTimer, Waiting, caller, dhcp_supplied_address
<1>3. CASE Nak
  BY <1>3, NakIs, Searching DEF IInv, LeaseRuns
<1> QED
  BY <1>1, <1>2, <1>3

\* The eleventh try
LEMMA EndSearchIs ==
  ASSUME IInv, client.state = "SELECTING", EndSearch(Expired)
  PROVE  /\ client' \in Dhcp /\ client'.state = "SELECTING" /\ client'.armed = FALSE
         /\ SameTimes(client, client')
         /\ dhcp_timeout_flag' = TRUE /\ addr = NoAddress /\ addr' = addr /\ told' = "failed"
<1>1. addr = NoAddress /\ up
  BY DEF IInv, AddressFitsState, RunsWhenUp, dhcp_supplied_address
<1>2. client \in Dhcp
  BY DEF IInv, TypeOK
<1> QED
  BY <1>1, <1>2, ExpiredIs DEF EndSearch

\* The search goes on.
LEMMA SearchAgain ==
  ASSUME IInv, Search(Expired)
  PROVE  /\ client' \in Dhcp /\ client'.state = "SELECTING" /\ client'.armed = TRUE
         /\ client'.t0 = client.t0 /\ client'.lease_used = client.lease_used
         /\ dhcp_timeout_flag' = FALSE
<1>1. Expired \in AnyState /\ SameTimes(client, Expired)
  BY ExpiredIs, DhcpIsAny DEF IInv, TypeOK
<1> HIDE DEF Expired
<1> QED
  BY <1>1, SearchIs DEF SameTimes

\* A request is repeated.
LEMMA RepeatIs ==
  ASSUME IInv, RepeatTimeout
  PROVE  /\ client' \in Dhcp /\ client'.state = client.state /\ client'.armed = TRUE
         /\ client.state \in {"REQUESTING", "RENEWING", "REBINDING"} /\ client.armed
         /\ SameTimes(client, client')
         /\ UNCHANGED <<caller, addr, told, dhcp_timeout_flag>>
<1>1. client \in AnyState
  BY DhcpIsAny DEF IInv, TypeOK
<1>2. PICK s \in {"REQUESTING", "RENEWING", "REBINDING"} :
        client.state = s /\ client' = Requests(client, s)
  BY DEF RepeatTimeout, dhcp_select, dhcp_renew, dhcp_rebind
<1>3. client' \in Dhcp /\ client'.state = s /\ client'.armed = TRUE /\ SameTimes(client, client')
  BY <1>1, <1>2, RequestsIs DEF State
<1> QED
  BY <1>2, <1>3 DEF RepeatTimeout

LEMMA TimersKeep == IInv /\ (FineTimer \/ CoarseTimer) => IInv'
<1> SUFFICES ASSUME IInv, FineTimer \/ CoarseTimer PROVE IInv'
  OBVIOUS
<1>1. CASE DiscoverTimeout
  <2>1. client.state = "SELECTING" /\ UNCHANGED caller
    BY <1>1 DEF DiscoverTimeout
  <2>2. addr = NoAddress
    BY <2>1 DEF IInv, AddressFitsState, dhcp_supplied_address
  <2>3. CASE Search(Expired) /\ UNCHANGED <<addr, told>>
    BY <2>1, <2>2, <2>3, SearchAgain, Searching DEF IInv, LeaseRuns, TypeOK
  <2>4. CASE EndSearch(Expired)
    <3>1. /\ client' \in Dhcp /\ client'.state = "SELECTING" /\ SameTimes(client, client')
          /\ dhcp_timeout_flag' = TRUE /\ addr' = addr /\ told' = "failed"
      BY <2>1, <2>4, EndSearchIs
    <3>2. TypeOK'
      BY <2>1, <3>1 DEF IInv, TypeOK, caller
    <3> QED
      BY <2>1, <2>2, <3>1, <3>2
      DEF IInv, LeaseRuns, AddressFitsState, RunsWhenUp, WaitsWithTimer, caller, SameTimes
  <2> QED
    BY <1>1, <2>3, <2>4 DEF DiscoverTimeout
<1>2. CASE RepeatTimeout
  <2>1. /\ client' \in Dhcp /\ client'.state = client.state /\ client'.armed = TRUE
        /\ SameTimes(client, client') /\ UNCHANGED <<caller, addr, told, dhcp_timeout_flag>>
    BY <1>2, RepeatIs
  <2>2. TypeOK'
    BY <2>1 DEF IInv, TypeOK, caller
  <2> QED
    BY <2>1, <2>2
    DEF IInv, LeaseRuns, AddressFitsState, RunsWhenUp, WaitsWithTimer, caller, SameTimes,
        dhcp_supplied_address
<1>3. CASE StartOverTimeout \/ (CoarseTimer /\ LeaseEnds)
  <2>1. StartOver(client) /\ UNCHANGED caller /\ client.state # "OFF"
    BY <1>3 DEF StartOverTimeout, CoarseTimer
  <2> QED
    BY <2>1, StartOverIs, Searching
<1>4. CASE CoarseTimer /\ ~LeaseEnds
  <2>1. client' = Counted /\ UNCHANGED <<caller, addr, told, dhcp_timeout_flag>>
    BY <1>4 DEF CoarseTimer
  <2>2. /\ client' \in Dhcp /\ client'.t0 = client.t0 /\ client'.lease_used = Used(client)
        /\ \/ client'.state = client.state /\ client'.armed = client.armed
           \/ /\ client.state \in {"REQUESTING", "BOUND", "RENEWING", "REBINDING"}
              /\ client'.state \in {"RENEWING", "REBINDING"} /\ client'.armed = TRUE
    BY <1>4, <2>1, CountedIs DEF IInv, TypeOK
  <2>3. TypeOK'
    BY <2>1, <2>2 DEF IInv, TypeOK, caller
  <2>4. LeaseRuns'
    BY <1>4, <2>2 DEF IInv, LeaseRuns, LeaseEnds, Used, TypeOK, Dhcp, Ticks
  <2>5. AddressFitsState' /\ RunsWhenUp'
    BY <2>1, <2>2 DEF IInv, AddressFitsState, RunsWhenUp, caller, dhcp_supplied_address
  <2>6. WaitsWithTimer'
    BY <2>1, <2>2 DEF IInv, WaitsWithTimer, Waiting
  <2> QED
    BY <2>3, <2>4, <2>5, <2>6 DEF IInv
<1> QED
  BY <1>1, <1>2, <1>3, <1>4 DEF FineTimer

LEMMA IInvStep == IInv /\ [Next]_vars => IInv'
<1> SUFFICES ASSUME IInv, [Next]_vars PROVE IInv'
  OBVIOUS
<1>1. CASE UNCHANGED vars
  BY <1>1
  DEF vars, IInv, TypeOK, LeaseRuns, AddressFitsState, RunsWhenUp, WaitsWithTimer, Waiting,
      dhcp_supplied_address
<1> QED
  BY <1>1, SystemTaskKeeps, RepliesKeep, TimersKeep DEF Next

LEMMA Invariance == Spec => []IInv
  BY IInvInit, IInvStep, PTL DEF Spec

\* The counters of a lease stay in sixteen bits, whatever lease a server gives.
THEOREM TypeCorrect == Spec => []TypeOK
<1>1. IInv => TypeOK
  BY DEF IInv
<1> QED
  BY <1>1, Invariance, PTL

\* dhcp_discover() sets no timer for its eleventh try: only then does a client wait without one,
\* and it has said so.
THEOREM TimerOrReport == Spec => []WaitsWithTimer
<1>1. IInv => WaitsWithTimer
  BY DEF IInv
<1> QED
  BY <1>1, Invariance, PTL

-----------------------------------------------------------------------------
(* The refinement.  AddressLease has an action for every step that changes what it sees. *)

\* What the phases of AddressLease are here, state by state
LEMMA PhaseIs ==
  ASSUME IInv
  PROVE  /\ (Phase = "off") = (client.state = "OFF")
         /\ client.state = "SELECTING" => Phase = IF client.armed THEN "search" ELSE "given_up"
         /\ client.state = "SELECTING" => addr = NoAddress
         /\ client.state = "REQUESTING" => Phase = "search" /\ addr = NoAddress
         /\ client.state = "BOUND" => Phase = "bound" /\ addr # NoAddress
         /\ client.state \in {"RENEWING", "REBINDING"} =>
              Phase = IF addr = NoAddress THEN "search" ELSE "bound"
  BY DEF IInv, TypeOK, Dhcp, AddressFitsState, Phase, dhcp_supplied_address

LEMMA LeftIs ==
  ASSUME IInv
  PROVE  Left \in 0..MaxTimeout /\ (addr = NoAddress => Left = 0)
  BY LeasesAssumption DEF IInv, TypeOK, Dhcp, LeaseRuns, Left, Ticks

LEMMA InitMaps == Init => Lease!Init
<1> SUFFICES ASSUME Init PROVE Lease!Init
  OBVIOUS
<1>1. Phase = "off" /\ Left = 0
  BY DEF Init, Cleared, Phase, Left
<1> QED
  BY <1>1 DEF Init, Lease!Init

LEMMA SystemTaskMaps == IInv /\ IInv' /\ SystemTask => [Lease!Next]_(Lease!vars)
<1> SUFFICES ASSUME IInv, IInv', SystemTask PROVE [Lease!Next]_(Lease!vars)
  OBVIOUS
<1>1. CASE NetUpClear
  <2>1. client.state = "OFF" /\ addr = NoAddress
    BY <1>1 DEF NetUpClear, IInv, AddressFitsState, dhcp_supplied_address
  <2>2. Phase = "off" /\ Phase' = "off"
    BY <1>1, <2>1 DEF NetUpClear, Phase
  <2>3. addr' = NoAddress /\ told' = told
    BY <1>1, <2>1 DEF NetUpClear, netif_set_addr
  <2>4. Left' = 0
    BY <2>3 DEF Left
  <2>5. Lease!NetUpClear
    BY <1>1, <2>2, <2>3, <2>4 DEF NetUpClear, Lease!NetUpClear
  <2> QED
    BY <2>5 DEF Lease!Next
<1>2. CASE NetUpRaise
  <2>1. Phase' = Phase /\ Left' = Left
    BY <1>2 DEF NetUpRaise, Phase, Left
  <2>2. Lease!NetUpRaise
    BY <1>2, <2>1 DEF NetUpRaise, Lease!NetUpRaise
  <2> QED
    BY <2>2 DEF Lease!Next
<1>3. CASE NetUpStart
  <2>1. client'.state = "OFF" \/ (client'.state = "SELECTING" /\ client'.armed = TRUE)
    <3>1. CASE Search(Cleared)
      BY <3>1, SearchIs, ClearedIs, DhcpIsAny
    <3>2. CASE NoMemory
      BY <3>2, ClearedIs DEF NoMemory
    <3> QED
      BY <1>3, <3>1, <3>2 DEF NetUpStart
  <2>2. client.state = "OFF" /\ UNCHANGED <<up, addr, told>> /\ sys = "raised" /\ sys' = "idle"
    BY <1>3 DEF NetUpStart, IInv, RunsWhenUp
  <2>3. addr = NoAddress
    BY <2>2 DEF IInv, AddressFitsState, dhcp_supplied_address
  <2>4. Phase' \in {"search", "off"} /\ Left' = Left
    BY <2>1, <2>2, <2>3 DEF Phase, Left
  <2>5. Lease!NetUpStart
    BY <2>2, <2>4 DEF Lease!NetUpStart
  <2> QED
    BY <2>5 DEF Lease!Next
<1>4. CASE NetDownStop
  <2>1. client'.state = "OFF" /\ SameTimes(client, client')
    BY <1>4, SetState, DhcpIsAny DEF NetDownStop, IInv, TypeOK, State
  <2>2. Phase' = "off" /\ Left' = Left
    BY <1>4, <2>1 DEF NetDownStop, Phase, Left, SameTimes
  <2>3. Lease!NetDownStop
    BY <1>4, <2>2 DEF NetDownStop, Lease!NetDownStop
  <2> QED
    BY <2>3 DEF Lease!Next
<1>5. CASE NetDown
  <2>1. client.state = "OFF" /\ client' = client
    BY <1>5 DEF NetDown, IInv, RunsWhenUp
  <2>2. Phase = "off" /\ Phase' = "off" /\ Left' = 0
    BY <1>5, <2>1 DEF NetDown, Phase, Left
  <2>3. Lease!NetDown
    BY <1>5, <2>2 DEF NetDown, Lease!NetDown
  <2> QED
    BY <2>3 DEF Lease!Next
<1> QED
  BY <1>1, <1>2, <1>3, <1>4, <1>5 DEF SystemTask

LEMMA OfferMaps == IInv /\ IInv' /\ Offer => [Lease!Next]_(Lease!vars)
<1> SUFFICES ASSUME IInv, IInv', Offer PROVE [Lease!Next]_(Lease!vars)
  OBVIOUS
<1>1. client'.state = "REQUESTING"
  BY RequestsIs, DhcpIsAny DEF Offer, dhcp_select, IInv, TypeOK, State
<1>2. client.state = "SELECTING" /\ UNCHANGED <<sys, up, addr, told>>
  BY DEF Offer, caller
<1>3. addr = NoAddress /\ Phase \in {"search", "given_up"}
  BY <1>2, PhaseIs
<1>4. Phase' = "search"
  BY <1>1, <1>2, <1>3 DEF Phase
<1>5. Left' = Left
  BY <1>2, <1>3 DEF Left
<1>6. CASE Phase = "search"
  BY <1>2, <1>4, <1>5, <1>6 DEF Lease!vars
<1>7. CASE Phase = "given_up"
  <2>1. Lease!Resume
    BY <1>2, <1>4, <1>5, <1>7 DEF Lease!Resume
  <2> QED
    BY <2>1 DEF Lease!Next
<1> QED
  BY <1>3, <1>6, <1>7

LEMMA AckedMaps == IInv /\ IInv' /\ Acked => [Lease!Next]_(Lease!vars)
<1> SUFFICES ASSUME IInv, IInv', Acked PROVE [Lease!Next]_(Lease!vars)
  OBVIOUS
<1>1. PICK a \in Address, lease \in Leases :
        \E t1 \in T1(lease) : \E t2 \in T2(lease, t1) : Ack(a, lease, t1, t2)
  BY DEF Acked
<1>2. /\ client.state \in {"REQUESTING", "RENEWING", "REBINDING"}
      /\ client' \in Dhcp /\ client'.state = "BOUND" /\ client'.lease_used = 0
      /\ addr' = a /\ told' = (IF a = addr THEN told ELSE "up") /\ UNCHANGED <<sys, up>>
  BY <1>1, AckIs DEF caller
<1>3. Phase \in {"search", "bound"}
  BY <1>2, PhaseIs
<1>4. a # NoAddress
  BY LeasesAssumption
<1>5. Phase' = "bound"
  BY <1>2, <1>4 DEF Phase
<1>6. Left' \in 0..MaxTimeout
  BY <1>2, LeasesAssumption DEF Left, Dhcp, Ticks
<1>7. Lease!Obtain(a)
  BY <1>2, <1>3, <1>5, <1>6 DEF Lease!Obtain
<1> QED
  BY <1>7 DEF Lease!Next

\* A search that begins while there is an address takes it away; otherwise it goes on, or is
\* taken up again.
LEMMA SearchMaps ==
  ASSUME IInv, IInv', client.state # "OFF", UNCHANGED caller,
         client'.state = "SELECTING", client'.armed = TRUE, addr' = NoAddress,
         addr = NoAddress => told' = told,
         addr # NoAddress => told' \in {told, "failed"}
  PROVE  [Lease!Next]_(Lease!vars)
<1>1. Phase' = "search" /\ Left' = 0
  BY DEF Phase, Left
<1>2. UNCHANGED <<sys, up>> /\ client.state \in State \ {"OFF"}
  BY DEF caller, IInv, TypeOK, Dhcp
<1>3. CASE addr # NoAddress
  <2>1. Phase = "bound"
    BY <1>2, <1>3, PhaseIs DEF State
  <2>2. Lease!Lose
    BY <1>1, <1>2, <1>3, <2>1 DEF Lease!Lose
  <2> QED
    BY <2>2 DEF Lease!Next
<1>4. CASE addr = NoAddress
  <2>1. Left = 0 /\ told' = told /\ addr' = addr
    BY <1>4 DEF Left
  <2>2. Phase \in {"search", "given_up"}
    BY <1>2, <1>4, PhaseIs DEF State
  <2>3. CASE Phase = "search"
    BY <1>1, <1>2, <2>1, <2>3 DEF Lease!vars
  <2>4. CASE Phase = "given_up"
    <3>1. Lease!Resume
      BY <1>1, <1>2, <2>1, <2>4 DEF Lease!Resume
    <3> QED
      BY <3>1 DEF Lease!Next
  <2> QED
    BY <2>2, <2>3, <2>4
<1> QED
  BY <1>3, <1>4

LEMMA TimersMap == IInv /\ IInv' /\ (FineTimer \/ CoarseTimer) => [Lease!Next]_(Lease!vars)
<1> SUFFICES ASSUME IInv, IInv', FineTimer \/ CoarseTimer PROVE [Lease!Next]_(Lease!vars)
  OBVIOUS
<1>1. CASE DiscoverTimeout
  <2>1. client.state = "SELECTING" /\ client.armed /\ UNCHANGED caller
    BY <1>1 DEF DiscoverTimeout
  <2>2. Phase = "search" /\ addr = NoAddress
    BY <2>1, PhaseIs
  <2>3. CASE Search(Expired) /\ UNCHANGED <<addr, told>>
    BY <2>1, <2>2, <2>3, SearchAgain, SearchMaps
  <2>4. CASE EndSearch(Expired)
    <3>1. client'.state = "SELECTING" /\ client'.armed = FALSE /\ addr' = addr /\ told' = "failed"
      BY <2>1, <2>4, EndSearchIs
    <3>2. Phase' = "given_up" /\ Left' = Left
      BY <2>2, <3>1 DEF Phase, Left
    <3>3. Lease!GiveUp
      BY <2>1, <2>2, <3>1, <3>2 DEF Lease!GiveUp, caller
    <3> QED
      BY <3>3 DEF Lease!Next
  <2> QED
    BY <1>1, <2>3, <2>4 DEF DiscoverTimeout
<1>2. CASE RepeatTimeout
  <2>1. /\ client'.state = client.state /\ client'.armed = TRUE /\ client.armed
        /\ SameTimes(client, client') /\ UNCHANGED <<caller, addr, told>>
    BY <1>2, RepeatIs
  <2>2. Phase' = Phase /\ Left' = Left
    BY <2>1 DEF Phase, Left, SameTimes
  <2> QED
    BY <2>1, <2>2 DEF Lease!vars, caller
<1>3. CASE StartOverTimeout \/ (CoarseTimer /\ LeaseEnds)
  <2>1. StartOver(client) /\ UNCHANGED caller /\ client.state # "OFF"
    BY <1>3 DEF StartOverTimeout, CoarseTimer
  <2> QED
    BY <2>1, StartOverIs, SearchMaps
<1>4. CASE CoarseTimer /\ ~LeaseEnds
  <2>1. client' = Counted /\ UNCHANGED <<sys, up, addr, told>> /\ client.state # "OFF"
    BY <1>4 DEF CoarseTimer, caller
  <2>2. /\ client'.t0 = client.t0 /\ client'.lease_used = Used(client)
        /\ \/ client'.state = client.state /\ client'.armed = client.armed
           \/ /\ client.state \in {"REQUESTING", "BOUND", "RENEWING", "REBINDING"}
              /\ client'.state \in {"RENEWING", "REBINDING"} /\ client'.armed = TRUE
    BY <1>4, <2>1, CountedIs DEF IInv, TypeOK
  <2>3. Phase' = Phase
    BY <2>1, <2>2 DEF Phase
  <2>4. CASE addr = NoAddress \/ client.t0 = 0
    <3>1. Left' = Left
      BY <2>1, <2>2, <2>4 DEF Left
    <3> QED
      BY <2>1, <2>3, <3>1 DEF Lease!vars
  <2>5. CASE addr # NoAddress /\ client.t0 # 0
    <3>1. client.t0 \in Nat /\ client.lease_used \in Nat /\ client.lease_used < client.t0
          /\ client.lease_used + 1 # client.t0
      BY <1>4, <2>5, LeasesAssumption DEF IInv, LeaseRuns, TypeOK, Dhcp, Ticks, LeaseEnds
    <3>2. Left > 1 /\ Left' = Left - 1
      BY <2>1, <2>2, <2>5, <3>1 DEF Left, Used
    <3>3. client.state \in {"BOUND", "RENEWING", "REBINDING"}
      BY <2>1, <2>5 DEF IInv, AddressFitsState, dhcp_supplied_address
    <3>4. Phase = "bound"
      BY <2>5, <3>3, PhaseIs
    <3>5. Lease!Tick
      BY <2>1, <2>3, <3>2, <3>4 DEF Lease!Tick
    <3> QED
      BY <3>5 DEF Lease!Next
  <2> QED
    BY <2>4, <2>5
<1> QED
  BY <1>1, <1>2, <1>3, <1>4 DEF FineTimer

LEMMA StepMaps == IInv /\ IInv' /\ [Next]_vars => [Lease!Next]_(Lease!vars)
<1> SUFFICES ASSUME IInv, IInv', [Next]_vars PROVE [Lease!Next]_(Lease!vars)
  OBVIOUS
<1>1. CASE Nak
  <2>1. client.state # "OFF"
    BY <1>1 DEF Nak
  <2> QED
    BY <1>1, <2>1, NakIs, SearchMaps
<1>2. CASE UNCHANGED vars
  BY <1>2 DEF vars, Lease!vars, Phase, Left
<1> QED
  BY <1>1, <1>2, SystemTaskMaps, OfferMaps, AckedMaps, TimersMap DEF Next

\* The client of lwIP promises what AddressLease says, whatever its constants are.
THEOREM Refinement == Spec => ImplementsLease
<1>1. Spec => Lease!Init /\ [][Lease!Next]_(Lease!vars)
  BY InitMaps, StepMaps, IInvStep, Invariance, PTL DEF Spec
<1> QED
  BY <1>1 DEF ImplementsLease, Lease!Spec
=============================================================================
