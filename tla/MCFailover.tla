----------------------------- MODULE MCFailover -----------------------------
(* Instances of Failover for TLC. *)
EXTENDS Failover, TLC

CONSTANTS t1, t2, t3

\* The first leader is named in Init; the others are alike.
Symmetry == Permutations(Tablets \ {First})
=============================================================================
