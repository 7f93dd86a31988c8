------------------------------ MODULE MCStore ------------------------------
(* A small store for TLC. *)
EXTENDS Store, TLC

Symmetric == Permutations(Pids) \cup Permutations(Domains) \cup Permutations(IPs)
=============================================================================
