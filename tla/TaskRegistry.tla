---------------------------- MODULE TaskRegistry ----------------------------
(***************************************************************************)
(* What the service promises for each task id, whatever its threads do:    *)
(* the id is reserved by one play request at a time, then it plays or has  *)
(* failed; only a stop ends playing; only a stopped or failed id is given  *)
(* back, and it is given back before it is reserved again.                 *)
(***************************************************************************)
CONSTANT TaskIds

VARIABLE phase

RegistryInit == phase = [id \in TaskIds |-> "free"]

Moves(id, from, to) ==
  /\ phase[id] = from
  /\ phase' = [phase EXCEPT ![id] = to]

Reserve(id) ==
  /\ \A other \in TaskIds : phase[other] # "reserved"
  /\ Moves(id, "free", "reserved")

Start(id) == Moves(id, "reserved", "playing")
Fail(id) == Moves(id, "reserved", "stopped")
Stop(id) == Moves(id, "playing", "stopped")

(* The heartbeat check gives several ids back at once.                     *)
Clear(ids) ==
  /\ \A id \in ids : phase[id] = "stopped"
  /\ phase' = [id \in TaskIds |-> IF id \in ids THEN "free" ELSE phase[id]]

RegistryNext ==
  \/ \E id \in TaskIds : Reserve(id) \/ Start(id) \/ Fail(id) \/ Stop(id)
  \/ \E ids \in SUBSET TaskIds : Clear(ids)

RegistrySpec == RegistryInit /\ [][RegistryNext]_phase
=============================================================================
