------------------------------ MODULE MCSessions ------------------------------
(* Sessions on two configurations, one with two profiles.                   *)
EXTENDS Sessions, TLC

CONSTANTS c1, c2, p1, p2, p3

ByConfig == (p1 :> c1) @@ (p2 :> c1) @@ (p3 :> c2)
OneConfig == (p1 :> c1) @@ (p2 :> c1)

Symmetry == Permutations({p1, p2})
=============================================================================
