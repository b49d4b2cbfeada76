---------------------------- MODULE MCServerConfig ----------------------------
(* Two configurations, a page and applies beside it; a pasted CA alone.     *)
EXTENDS ServerConfig, TLC

CaOnly == {{"ca"}}

Symmetry == Permutations(Configs) \union Permutations(Requests)
              \union Permutations(Handlers) \union Permutations(Sets)
              \union Permutations(Versions)
=============================================================================
