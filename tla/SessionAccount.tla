---------------------------- MODULE SessionAccount ----------------------------
(***************************************************************************)
(* What a metered session promises about money, with no clock, no meter    *)
(* and no lease: whatever the renter pays in is held for them, moves to    *)
(* the provider as it is used, and goes back to them once, all of it, when *)
(* the account is closed.                                                  *)
(***************************************************************************)
EXTENDS Integers

VARIABLES
  held,      \* paid in and neither earned nor returned
  earned,    \* the provider's
  returned,  \* given back to the renter
  closed     \* the remainder has been given back

accountVars == <<held, earned, returned, closed>>

Init ==
  /\ held = 0 /\ earned = 0 /\ returned = 0
  /\ closed = FALSE

\* A payment arrives while the account is open.
PayIn ==
  /\ ~closed
  /\ held' >= held
  /\ UNCHANGED <<earned, returned, closed>>

\* Part of what is held is earned.
Earn ==
  /\ ~closed
  /\ held' \in 0..held
  /\ earned' = earned + (held - held')
  /\ UNCHANGED <<returned, closed>>

\* A last part is earned and the whole remainder is returned.
Close ==
  /\ ~closed
  /\ closed' = TRUE
  /\ returned' \in 0..held
  /\ earned' = earned + (held - returned')
  /\ held' = 0

Next == PayIn \/ Earn \/ Close

Spec == Init /\ [][Next]_accountVars
=============================================================================
