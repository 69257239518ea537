----------------------------- MODULE PortLease -----------------------------
(***************************************************************************)
(* What the streams promise about decoder ports: a task takes at most one  *)
(* port in its life and only once it has started; a port leaves a task     *)
(* only after that task was stopped, and never goes from one task to       *)
(* another directly.                                                       *)
(***************************************************************************)
CONSTANTS Tasks, Ports, NoTask

VARIABLES
  lease,  (* the task a port was given to                                   *)
  had,    (* tasks that have taken a port                                   *)
  stage   (* "new", then "playing", then "ended"                            *)

LeaseInit ==
  /\ lease = [p \in Ports |-> NoTask]
  /\ had = {}
  /\ stage = [t \in Tasks |-> "new"]

Starts(t) ==
  /\ stage[t] = "new"
  /\ stage' = [stage EXCEPT ![t] = "playing"]
  /\ UNCHANGED <<lease, had>>

Ends(t) ==
  /\ stage[t] = "playing"
  /\ stage' = [stage EXCEPT ![t] = "ended"]
  /\ UNCHANGED <<lease, had>>

Takes(t, p) ==
  /\ stage[t] # "new"
  /\ t \notin had
  /\ lease[p] = NoTask
  /\ lease' = [lease EXCEPT ![p] = t]
  /\ had' = had \cup {t}
  /\ UNCHANGED stage

Gives(t, p) ==
  /\ stage[t] = "ended"
  /\ lease[p] = t
  /\ lease' = [lease EXCEPT ![p] = NoTask]
  /\ UNCHANGED <<had, stage>>

LeaseNext ==
  \E t \in Tasks :
    \/ Starts(t) \/ Ends(t)
    \/ \E p \in Ports : Takes(t, p) \/ Gives(t, p)

LeaseSpec == LeaseInit /\ [][LeaseNext]_<<lease, had, stage>>
=============================================================================
