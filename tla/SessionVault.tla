----------------------------- MODULE SessionVault -----------------------------
(***************************************************************************)
(* What the escrow promises about money, with no calls, no callbacks and   *)
(* no failed payouts.  A session earns its provider its price for every    *)
(* second until the deposit is used up.  When it is closed, once, what was *)
(* earned is the provider's and the rest is the renter's, whatever else    *)
(* happens and whoever closes it.  One transaction may open, extend and    *)
(* close any number of sessions, all of it at one instant.                 *)
(***************************************************************************)
EXTENDS Integers, FiniteSets, FiniteSetsExt

CONSTANTS
  Ids,       \* session ids
  Accounts,  \* those who pay and are paid
  Nobody     \* the renter of a session that was never opened

VARIABLES
  deal,      \* per id: renter, provider, price, start, paid, and whether it is closed
  credited,  \* per account: all it has ever been given
  clock

vaultVars == <<deal, credited, clock>>

NoDeal == [renter |-> Nobody, provider |-> Nobody, price |-> 0, start |-> 0,
           paid |-> 0, closed |-> FALSE]

Earned(d, now) ==
  LET worth == d.price * (now - d.start) IN IF worth < d.paid THEN worth ELSE d.paid

\* What account a is given when d closes.
Share(d, a, now) ==
  (IF d.provider = a THEN Earned(d, now) ELSE 0)
    + (IF d.renter = a THEN d.paid - Earned(d, now) ELSE 0)

Init ==
  /\ deal = [i \in Ids |-> NoDeal]
  /\ credited = [a \in Accounts |-> 0]
  /\ clock = 0

\* A session that a transaction opens starts now.
Opened(d) == d.renter \in Accounts /\ d.provider \in Accounts /\ d.price > 0 /\ d.start = clock

\* A session that was open keeps its terms and its deposit never shrinks; one
\* that was closed does not move.
Advances(old, new) ==
  \/ new = old
  \/ old = NoDeal /\ Opened(new) /\ new.paid > 0
  \/ /\ old # NoDeal /\ ~old.closed
     /\ new.paid >= old.paid
     /\ new = [old EXCEPT !.paid = new.paid, !.closed = new.closed]

Transact ==
  /\ \A i \in Ids : Advances(deal[i], deal'[i])
  /\ LET justClosed == {i \in Ids : deal'[i].closed /\ ~deal[i].closed}
     IN  credited' = [a \in Accounts |->
           credited[a]
             + SumFunctionOnSet([i \in Ids |-> Share(deal'[i], a, clock)], justClosed)]
  /\ UNCHANGED clock

Tick ==
  /\ clock' > clock
  /\ UNCHANGED <<deal, credited>>

Next == Transact \/ Tick

Spec == Init /\ [][Next]_vaultVars
=============================================================================
