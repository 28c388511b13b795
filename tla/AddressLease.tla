----------------------------- MODULE AddressLease -----------------------------
(***************************************************************************)
(* What the DHCP client of lwIP promises the system task, which starts and *)
(* stops it: an address is on the interface only while its lease runs, the *)
(* listeners are told of every address, and a search without an answer     *)
(* ends with a report.  That an address was lost, they need not be told.   *)
(***************************************************************************)
EXTENDS Naturals

CONSTANTS
  Address,    \* what a server may assign
  NoAddress,  \* 0.0.0.0
  MaxLease    \* the longest lease, in ticks of the coarse timer

VARIABLES
  sys,    \* how far the system task is with starting or stopping the interface
  up,     \* NETIF_FLAG_UP
  phase,  \* of the client: "off", "search", "bound", "given_up"
  addr,   \* the address of the interface
  left,   \* ticks until the lease ends; 0: no address, or no end
  told    \* the last report to the listeners: "nothing", "up", "failed"

vars == <<sys, up, phase, addr, left, told>>

Init ==
  /\ sys = "idle" /\ up = FALSE
  /\ phase = "off" /\ addr = NoAddress /\ left = 0 /\ told = "nothing"

-----------------------------------------------------------------------------
(* The system task starts and stops the interface, one call after the other. *)

NetUpClear ==
  /\ sys = "idle" /\ phase = "off" /\ sys' = "cleared" /\ addr' = NoAddress /\ left' = 0
  /\ UNCHANGED <<up, phase, told>>

NetUpRaise == sys = "cleared" /\ sys' = "raised" /\ up' = TRUE /\ UNCHANGED <<phase, addr, left, told>>

\* Without memory the client stays off, and the system task does not look.
NetUpStart ==
  /\ sys = "raised" /\ sys' = "idle" /\ phase' \in {"search", "off"}
  /\ UNCHANGED <<up, addr, left, told>>

NetDownStop ==
  /\ sys = "idle" /\ sys' = "stopped" /\ phase' = "off" /\ UNCHANGED <<up, addr, left, told>>

NetDown ==
  /\ sys = "stopped" /\ sys' = "idle"
  /\ up' = FALSE /\ addr' = NoAddress /\ left' = 0 /\ UNCHANGED <<phase, told>>

-----------------------------------------------------------------------------
(* The client *)

\* The first address, another one, or the old one for another lease.
Obtain(a) ==
  /\ phase \in {"search", "bound"} /\ phase' = "bound"
  /\ addr' = a /\ left' \in 0..MaxLease
  /\ told' = IF a = addr THEN told ELSE "up"
  /\ UNCHANGED <<sys, up>>

Tick == phase = "bound" /\ left > 1 /\ left' = left - 1 /\ UNCHANGED <<sys, up, phase, addr, told>>

\* The lease ends, is refused or is not prolonged.
Lose ==
  /\ phase = "bound" /\ phase' = "search"
  /\ addr' = NoAddress /\ left' = 0 /\ told' \in {told, "failed"}
  /\ UNCHANGED <<sys, up>>

GiveUp ==
  /\ phase = "search" /\ phase' = "given_up" /\ told' = "failed"
  /\ UNCHANGED <<sys, up, addr, left>>

\* An offer comes late.
Resume == phase = "given_up" /\ phase' = "search" /\ UNCHANGED <<sys, up, addr, left, told>>

Next ==
  \/ NetUpClear \/ NetUpRaise \/ NetUpStart \/ NetDownStop \/ NetDown
  \/ \E a \in Address : Obtain(a)
  \/ Tick \/ Lose \/ GiveUp \/ Resume

Spec == Init /\ [][Next]_vars
=============================================================================
