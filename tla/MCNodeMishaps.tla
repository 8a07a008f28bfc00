----------------------------- MODULE MCNodeMishaps -----------------------------
(* NodeMishaps on a small node, one tinybar a second and a tick a second.     *)
EXTENDS NodeMishaps, TLC

Symmetry == Permutations(Requests) \cup Permutations(Leases)
=============================================================================
