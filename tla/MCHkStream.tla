----------------------------- MODULE MCHkStream -----------------------------
(* Instances of HkStream for TLC.                                          *)
EXTENDS HkStream, TLC

CONSTANTS t1, t2, p1, p2

Symmetry == Permutations({t1, t2}) \cup Permutations({p1, p2})
=============================================================================
