-------------------------------- MODULE MCPki --------------------------------
(* Certificates of one or two configurations, with a profile each.          *)
EXTENDS Pki, TLC

CONSTANTS h1, h2, a1, a2, c1, c2, p1, p2, s1, s2

TwoConfigs == (p1 :> c1) @@ (p2 :> c2)
OneConfig == (p1 :> c1)

Symmetry == Permutations({h1, h2}) \union Permutations({a1, a2})
              \union Permutations({s1, s2})
=============================================================================
