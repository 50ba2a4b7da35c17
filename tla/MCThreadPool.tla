---------------------------- MODULE MCThreadPool -----------------------------
(* Instances of ThreadPool for TLC.                                        *)
EXTENDS ThreadPool, TLC

Symmetry == Permutations(Clients) \cup Permutations(Async)
=============================================================================
