---------------------------- MODULE MCSessionEscrow ----------------------------
(* The escrow with two sessions and two parties.  Ids and accounts are        *)
(* interchangeable.                                                           *)
EXTENDS SessionEscrow, TLC

Interchangeable == Permutations(Ids) \cup Permutations(Accounts)
=============================================================================
