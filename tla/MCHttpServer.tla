---------------------------- MODULE MCHttpServer ----------------------------
(* Instances of HttpServer for TLC.                                        *)
EXTENDS HttpServer, TLC

Symmetry ==
  UNION {Permutations(S) : S \in {Ips, UserIds, Tasks, TaskIds, Numbers}}
=============================================================================
