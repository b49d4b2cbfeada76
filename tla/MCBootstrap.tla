----------------------------- MODULE MCBootstrap -----------------------------
(* One installation from its first start on, with two encryption keys.      *)
EXTENDS Bootstrap, TLC

CONSTANTS k1, k2, given, w1
=============================================================================
