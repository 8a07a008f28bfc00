------------------------------ MODULE MCNodeAgent ------------------------------
(* NodeAgent on a small node, one tinybar a second and a tick a second.       *)
EXTENDS NodeAgent, TLC

Symmetry == Permutations(Requests) \cup Permutations(Leases)
=============================================================================
