------------------------------ MODULE DhcpClient ------------------------------
(***************************************************************************)
(* The DHCP client of lwIP as this SDK has changed it (dhcp.c): a search   *)
(* ends after ten tries with a report, a renewal is repeated until the     *)
(* lease must be rebound.  All of it runs in the thread of lwIP, so a      *)
(* handler is one step; the system task (tls_sys.c) calls it from outside. *)
(*                                                                         *)
(* request_timeout is modelled as set or not set: it may run out at any    *)
(* time, and before or after any tick of the coarse timer.  A reply whose  *)
(* transaction id is not the current one is ignored, so replies are those  *)
(* of the current transaction; they may come late, twice, or never.        *)
(* Servers conform to RFC 2131: an offer names its server.                 *)
(***************************************************************************)
EXTENDS Naturals, FiniteSetsExt

CONSTANTS
  Address, NoAddress,
  Leases,          \* lease times, in seconds
  OptT1, OptT2,    \* renewal and rebinding times that a server may give
  U32, MaxTimeout, \* the integers of 32 bits, and the largest of 16: 2^32 and 65535
  CoarseSecs,      \* DHCP_COARSE_TIMER_SECS
  RetrySecs        \* a renewal or rebinding is tried again if this much time is left, at least

Infinite == U32 - 1

ASSUME LeasesAssumption ==
  /\ NoAddress \notin Address
  /\ Leases \subseteq 0..U32 - 1 /\ OptT1 \subseteq 0..U32 - 2 /\ OptT2 \subseteq 0..U32 - 2
  /\ MaxTimeout \in Nat \ {0} /\ CoarseSecs \in Nat \ {0} /\ RetrySecs \in Nat /\ U32 \in Nat \ {0}

VARIABLES
  sys, up, addr, told,  \* as in AddressLease
  client,               \* struct dhcp
  dhcp_timeout_flag

vars == <<sys, up, addr, told, client, dhcp_timeout_flag>>
caller == <<sys, up>>

MaxTries == 10

State == {"OFF", "SELECTING", "REQUESTING", "BOUND", "RENEWING", "REBINDING"}
Ticks == 0..MaxTimeout

\* request_timeout # 0 is armed; t1_renew_time, t2_rebind_time and t0_timeout are t1, t2 and t0,
\* t2_timeout is t2_set.
Cleared == [state |-> "OFF", tries |-> 0, armed |-> FALSE,
            t0 |-> 0, t1 |-> 0, t2 |-> 0, t2_set |-> 0, lease_used |-> 0]

Dhcp == [state : State, tries : 0..MaxTries, armed : BOOLEAN,
         t0 : Ticks, t1 : Ticks, t2 : Ticks, t2_set : Ticks, lease_used : Ticks]

Init ==
  /\ sys = "idle" /\ up = FALSE /\ addr = NoAddress /\ told = "nothing"
  /\ client = Cleared /\ dhcp_timeout_flag = FALSE

-----------------------------------------------------------------------------
(* The steps of the handlers, as functions of the client *)

dhcp_set_state(c, s) ==
  IF c.state = s THEN c ELSE [c EXCEPT !.state = s, !.tries = 0, !.armed = FALSE]

\* No comparison distinguishes numbers of tries above ten.
Requests(c, s) ==
  LET d == dhcp_set_state(c, s)
  IN [d EXCEPT !.tries = Min({@ + 1, MaxTries}), !.armed = TRUE]

dhcp_select(c) == Requests(c, "REQUESTING")
dhcp_renew(c) == Requests(c, "RENEWING")
dhcp_rebind(c) == Requests(c, "REBINDING")

dhcp_release(c) ==
  [dhcp_set_state(c, "OFF") EXCEPT !.t0 = 0, !.t1 = 0, !.t2 = 0, !.lease_used = 0]

dhcp_supplied_address(c) == c.state \in {"BOUND", "RENEWING", "REBINDING"}

\* mutated form: times beyond sixteen bits are taken as they are.
CoarseUncapped(s) ==
  LET t == (s + CoarseSecs \div 2) \div CoarseSecs IN IF t = 0 THEN 1 ELSE t

Coarse(s) ==
  LET t == (s + CoarseSecs \div 2) \div CoarseSecs
  IN IF t = 0 THEN 1 ELSE Min({t, MaxTimeout})

\* mutated form: a renewed lease goes on counting.
BindKeepsUsed(c, lease, t1, t2) ==
  [dhcp_set_state(c, "BOUND") EXCEPT
     !.t0 = IF lease = Infinite THEN @ ELSE Coarse(lease),
     !.t1 = Coarse(t1), !.t2 = Coarse(t2), !.t2_set = Coarse(t2)]

\* An infinite lease leaves t0_timeout as it is.
dhcp_bind(c, lease, t1, t2) ==
  [dhcp_set_state(c, "BOUND") EXCEPT
     !.lease_used = 0, !.t0 = IF lease = Infinite THEN @ ELSE Coarse(lease),
     !.t1 = Coarse(t1), !.t2 = Coarse(t2), !.t2_set = Coarse(t2)]

\* Half of the time that is left, unless that is less than RetrySecs.
Half(t, used) == IF t > used THEN (t - used) \div 2 ELSE 0
Again(half, now) ==
  IF half >= (RetrySecs + CoarseSecs \div 2) \div CoarseSecs THEN half ELSE now

dhcp_t1_timeout(c) ==
  IF c.state \in {"REQUESTING", "BOUND", "RENEWING"}
  THEN [dhcp_renew(c) EXCEPT !.t1 = Again(Half(c.t2_set, c.lease_used), @)]
  ELSE c

dhcp_t2_timeout(c) ==
  IF c.state \in {"REQUESTING", "BOUND", "RENEWING", "REBINDING"}
  THEN [dhcp_rebind(c) EXCEPT !.t2 = Again(Half(c.t0, c.lease_used), @)]
  ELSE c

-----------------------------------------------------------------------------
(* The interface *)

\* netif_status_changed: who listens hears of an address, and of none if the search has ended.
Reported(a) ==
  IF ~up THEN told
  ELSE IF a # NoAddress THEN "up"
  ELSE IF dhcp_timeout_flag THEN "failed" ELSE told

netif_set_addr(a) == addr' = a /\ told' = IF a = addr THEN told ELSE Reported(a)

\* dhcp_discover: the eleventh try in a row reports that there is no server, and sets no timer.
Search(c) ==
  /\ c.tries < MaxTries
  /\ client' = Requests(c, "SELECTING") /\ dhcp_timeout_flag' = FALSE

EndSearch(c) ==
  /\ c.tries >= MaxTries
  /\ client' = c /\ dhcp_timeout_flag' = TRUE
  /\ told' = IF up THEN IF addr = NoAddress THEN "failed" ELSE "up" ELSE told
  /\ UNCHANGED addr

\* dhcp_release() and dhcp_discover(), which several timers call one after the other.
StartOver(c) ==
  /\ Search(dhcp_release(c))
  /\ IF dhcp_supplied_address(c) THEN netif_set_addr(NoAddress) ELSE UNCHANGED <<addr, told>>

-----------------------------------------------------------------------------
(* The system task: sys_net_up() and sys_net_down() with a DHCP configuration.  An interface is
   brought up only at boot or after it was taken down (WifiNetwork checks this). *)

NetUpClear ==
  /\ sys = "idle" /\ client.state = "OFF" /\ sys' = "cleared"
  /\ netif_set_addr(NoAddress) /\ UNCHANGED <<up, client, dhcp_timeout_flag>>

NetUpRaise ==
  /\ sys = "cleared" /\ sys' = "raised" /\ up' = TRUE
  /\ UNCHANGED <<addr, told, client, dhcp_timeout_flag>>

\* dhcp_start() without memory for the client, for its socket or for its first message leaves the
\* client off; a search that goes on only loses a message by that.
NoMemory == client' = Cleared /\ dhcp_timeout_flag' \in {dhcp_timeout_flag, FALSE}

NetUpStart ==
  /\ sys = "raised" /\ sys' = "idle" /\ (Search(Cleared) \/ NoMemory)
  /\ UNCHANGED <<up, addr, told>>

NetDownStop ==
  /\ sys = "idle" /\ sys' = "stopped"
  /\ client' = dhcp_set_state(client, "OFF") /\ UNCHANGED <<up, addr, told, dhcp_timeout_flag>>

\* The address goes with the flag, and the callback finds the interface down.
NetDown ==
  /\ sys = "stopped" /\ sys' = "idle" /\ up' = FALSE /\ addr' = NoAddress
  /\ UNCHANGED <<told, client, dhcp_timeout_flag>>

-----------------------------------------------------------------------------
(* Replies *)

\* request_timeout is reset, and set again by dhcp_select().
Offer ==
  /\ client.state = "SELECTING" /\ client' = dhcp_select(client)
  /\ UNCHANGED <<caller, addr, told, dhcp_timeout_flag>>

\* Half and seven eighths of the lease, in 32 bits, unless the server gives others.
T1(lease) == {lease \div 2} \cup {t \in OptT1 : t < lease}
T2(lease, t1) == {((lease * 7) % U32) \div 8} \cup {t \in OptT2 : t1 < t /\ t < lease}

Ack(a, lease, t1, t2) ==
  /\ client.state \in {"REQUESTING", "RENEWING", "REBINDING"}
  /\ client' = dhcp_bind(client, lease, t1, t2)
  /\ netif_set_addr(a)
  /\ UNCHANGED <<caller, dhcp_timeout_flag>>

Acked ==
  \E a \in Address, lease \in Leases :
    \E t1 \in T1(lease) : \E t2 \in T2(lease, t1) : Ack(a, lease, t1, t2)

\* The address goes, and the search begins again; what is left of the lease goes on counting.
Nak ==
  /\ client.state \in {"REQUESTING", "RENEWING", "REBINDING"}
  /\ netif_set_addr(NoAddress)
  /\ Search(dhcp_set_state(client, "BACKING_OFF")) /\ UNCHANGED caller

-----------------------------------------------------------------------------
(* Timers *)

\* dhcp_fine_tmr(): the request is not answered in time.
RequestTries == 5

\* mutated form: more than the counter of the tries is allowed to reach.
RebindTriesMany == MaxTries

RebindTries == 8
Expired == [client EXCEPT !.armed = FALSE]

DiscoverTimeout ==
  /\ client.armed /\ client.state = "SELECTING"
  /\ (Search(Expired) /\ UNCHANGED <<addr, told>>) \/ EndSearch(Expired)
  /\ UNCHANGED caller

\* mutated form: a renewal that is not answered is not repeated.
RenewTimeoutIgnored ==
  /\ client.armed
  /\ \/ client.state = "REQUESTING" /\ client.tries <= RequestTries /\ client' = dhcp_select(client)
     \/ client.state = "RENEWING" /\ client' = Expired
     \/ client.state = "REBINDING" /\ client.tries <= RebindTries /\ client' = dhcp_rebind(client)
  /\ UNCHANGED <<caller, addr, told, dhcp_timeout_flag>>

RepeatTimeout ==
  /\ client.armed
  /\ \/ client.state = "REQUESTING" /\ client.tries <= RequestTries /\ client' = dhcp_select(client)
     \/ client.state = "RENEWING" /\ client' = dhcp_renew(client)
     \/ client.state = "REBINDING" /\ client.tries <= RebindTries /\ client' = dhcp_rebind(client)
  /\ UNCHANGED <<caller, addr, told, dhcp_timeout_flag>>

StartOverTimeout ==
  /\ client.armed
  /\ \/ client.state = "REQUESTING" /\ client.tries > RequestTries
     \/ client.state = "REBINDING" /\ client.tries > RebindTries
  /\ StartOver(client) /\ UNCHANGED caller

FineTimer == DiscoverTimeout \/ RepeatTimeout \/ StartOverTimeout

\* dhcp_coarse_tmr()
LeaseEnds == client.t0 # 0 /\ client.lease_used + 1 = client.t0

Counted ==
  LET c == [client EXCEPT !.lease_used = IF client.t0 = 0 THEN @ ELSE @ + 1,
                          !.t2 = IF @ = 0 THEN 0 ELSE @ - 1]
      d == [c EXCEPT !.t1 = IF @ = 0 THEN 0 ELSE @ - 1]
  IN IF client.t2 = 1 THEN dhcp_t2_timeout(c)
     ELSE IF client.t1 = 1 THEN dhcp_t1_timeout(d) ELSE d

CoarseTimer ==
  /\ client.state # "OFF"
  /\ IF LeaseEnds THEN StartOver(client)
                  ELSE client' = Counted /\ UNCHANGED <<addr, told, dhcp_timeout_flag>>
  /\ UNCHANGED caller

-----------------------------------------------------------------------------

SystemTask == NetUpClear \/ NetUpRaise \/ NetUpStart \/ NetDownStop \/ NetDown

Next == SystemTask \/ Offer \/ Acked \/ Nak \/ FineTimer \/ CoarseTimer

\* The thread of lwIP runs its timers; replies come or do not come.
Spec == Init /\ [][Next]_vars /\ WF_vars(FineTimer) /\ WF_vars(CoarseTimer)

-----------------------------------------------------------------------------
(* Properties *)

TypeOK ==
  /\ sys \in {"idle", "cleared", "raised", "stopped"} /\ up \in BOOLEAN
  /\ addr \in Address \cup {NoAddress} /\ told \in {"nothing", "up", "failed"}
  /\ client \in Dhcp /\ dhcp_timeout_flag \in BOOLEAN

Waiting == client.state \in {"SELECTING", "REQUESTING", "RENEWING", "REBINDING"}

\* Who waits for a server has a timer set, unless the search was given up and that was
\* reported: then the system task takes the interface down and connects again.
WaitsWithTimer ==
  Waiting => client.armed \/ (client.state = "SELECTING" /\ dhcp_timeout_flag /\ told = "failed")

Prolonging == client.state \in {"RENEWING", "REBINDING"}

\* An address is not kept without an answer: renewing and rebinding end with another lease or
\* take the address away, even if the lease itself is infinite.
AddressNotKept == (Prolonging /\ addr # NoAddress) ~> (~Prolonging \/ addr = NoAddress)

Phase ==
  IF client.state = "OFF" THEN "off"
  ELSE IF client.state = "SELECTING" /\ ~client.armed THEN "given_up"
  ELSE IF addr # NoAddress THEN "bound" ELSE "search"

Left == IF addr = NoAddress \/ client.t0 = 0 THEN 0 ELSE client.t0 - client.lease_used

Lease == INSTANCE AddressLease WITH phase <- Phase, left <- Left, MaxLease <- MaxTimeout

\* The client keeps an address no longer than its lease, tells of every new one and ends every
\* search with an address or a report: it implements AddressLease.
ImplementsLease == Lease!Spec

-----------------------------------------------------------------------------
(* The inductive invariant of DhcpClient_proofs *)

\* A lease that has an end has not come to it.
LeaseRuns == client.t0 # 0 => client.lease_used < client.t0

\* An address is kept by a client that is bound or prolongs its lease, and for a moment by an
\* interface that is being taken down; a client that is bound has one.
AddressFitsState ==
  /\ addr # NoAddress => dhcp_supplied_address(client) \/ (client.state = "OFF" /\ sys = "stopped")
  /\ client.state = "BOUND" => addr # NoAddress

\* The client runs only on an interface that is up, and not while the system task changes it.
RunsWhenUp ==
  /\ client.state # "OFF" => up /\ sys = "idle"
  /\ sys = "raised" => up

IInv == TypeOK /\ LeaseRuns /\ AddressFitsState /\ RunsWhenUp /\ WaitsWithTimer
=============================================================================
