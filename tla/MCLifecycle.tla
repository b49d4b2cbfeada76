---------------------------- MODULE MCLifecycle ----------------------------
(* Lifecycle on small sets of configurations, threads and processes.        *)
EXTENDS Lifecycle, TLC

Symmetry == Permutations(Configs) \union Permutations(Handlers)
                \union Permutations(Pids) \union Permutations(Threads)
=============================================================================
