------------------------------ MODULE MCSessionFlow ------------------------------
(* Sessions of two chunks, and two of them, so that a page can hold the        *)
(* handle of one while an answer about the other is still on its way.          *)
EXTENDS SessionFlow
=============================================================================
