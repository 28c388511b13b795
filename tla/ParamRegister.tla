----------------------------- MODULE ParamRegister -----------------------------
(***************************************************************************)
(* What the parameter store of the SDK promises its callers: a register    *)
(* with a copy in memory and a copy that survives a power cut.  A save is  *)
(* atomic, whenever the power goes.  A reset to the factory settings has   *)
(* stored them when it ends; until then the save before the last one may   *)
(* come back.                                                              *)
(***************************************************************************)
CONSTANTS
  Id,      \* the parameters
  Value,   \* what each of them may be
  Default  \* the factory settings

VARIABLES
  ram,       \* what tls_param_get(id, .., FALSE) reads
  stored,    \* what the next power-on loads
  previous,  \* what it would have loaded before the last save, until that is overwritten
  resetting  \* a reset is running

vars == <<ram, stored, previous, resetting>>

Init == ram = Default /\ stored = Default /\ previous = Default /\ resetting = FALSE

Set(i, v) ==
  /\ ~resetting
  /\ ram' = [ram EXCEPT ![i] = v] /\ UNCHANGED <<stored, previous, resetting>>

Overwrite == ~resetting /\ previous' = stored /\ UNCHANGED <<ram, stored, resetting>>

Save(ids) ==
  /\ ~resetting
  /\ stored' = [i \in Id |-> IF i \in ids THEN ram[i] ELSE stored[i]] /\ previous' = stored
  /\ UNCHANGED <<ram, resetting>>

Restart == ram' = stored /\ resetting' = FALSE /\ UNCHANGED <<stored, previous>>

Reset ==
  /\ ~resetting /\ resetting' = TRUE
  /\ ram' = Default /\ UNCHANGED <<stored, previous>>

Resetting ==
  /\ resetting /\ {stored', previous'} \subseteq {stored, previous, Default}
  /\ UNCHANGED <<ram, resetting>>

ResetEnds ==
  /\ resetting /\ stored = Default /\ resetting' = FALSE
  /\ UNCHANGED <<ram, stored, previous>>

Next ==
  \/ \E i \in Id : (\E v \in Value : Set(i, v)) \/ Save({i})
  \/ Save(Id) \/ Overwrite
  \/ Restart
  \/ Reset \/ Resetting \/ ResetEnds

Spec == Init /\ [][Next]_vars
=============================================================================
