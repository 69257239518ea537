---------------------------- MODULE MCDvrControl ----------------------------
(* Instances of DvrControl for TLC.                                        *)
EXTENDS DvrControl, TLC

Symmetry ==
  UNION {Permutations(S) : S \in {Ips, UserIds, Tasks, TaskIds, Numbers}}
=============================================================================
