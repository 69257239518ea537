---------------------------- MODULE MCHkService ----------------------------
(* Instances of HkService for TLC.                                         *)
EXTENDS HkService, TLC

Symmetry == UNION {Permutations(S) : S \in {Tasks, TaskIds, Numbers, Ports}}
=============================================================================
