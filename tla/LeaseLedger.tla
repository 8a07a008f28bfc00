----------------------------- MODULE LeaseLedger -----------------------------
(***************************************************************************)
(* One lease and its money, as runner.Lease keeps them                     *)
(* (agent/internal/runner/lease.go).  Every exported method of Lease takes *)
(* the lease's mutex for its whole body, so each is one operator from a    *)
(* lease record to the lease record it leaves behind.  The modules that    *)
(* have behaviours (Metering, NodeAgent) decide who calls them and when.   *)
(*                                                                         *)
(* Instants are counted in clock ticks, Second of them to a second, so the *)
(* part of a second that Burn truncates away is visible.  Amounts are      *)
(* tinybars.                                                               *)
(***************************************************************************)
EXTENDS Integers

CONSTANTS
  Second,   \* clock ticks in one second
  Minute,   \* seconds in one minute
  Price     \* tinybars per second the node sells at

ASSUME SecondAssumption == Second \in Nat \ {0}
ASSUME MinuteAssumption == Minute \in Nat \ {0}

\* A derived price is at least one tinybar a second; an explicit
\* price_tinybars_per_second may be any unsigned integer, zero included.
ASSUME PriceAssumption == Price \in Nat

Live     == {"provisioning", "active", "paused"}
Terminal == {"stopped", "expired", "failed"}
Status   == Live \cup Terminal

SettleState == {"none", "pending", "done"}

\* The instant of a lease that is not frozen (a nil pausedAt).
NotPaused == -1

LeaseRecord ==
  [status : Status, metered : BOOLEAN, sessionSeconds : Nat,
   credit : Nat, burned : Nat, price : Nat, lastTickAt : Nat, expiresAt : Nat,
   pausedAt : Nat \cup {NotPaused}, exhausted : BOOLEAN, settle : SettleState, refunded : Nat]

IsTerminal(l) == l.status \in Terminal

\* secondsToMinutes: whole minutes, rounded up, and never none.
RoundedMinutes(seconds) ==
  LET minutes == (seconds + Minute - 1) \div Minute
  IN  IF minutes < 1 THEN 1 ELSE minutes

\* A lease as StartLease builds it: no meter, and an expiry that is only the
\* opening chunk in minutes.
NewLease(seconds, now) ==
  [status |-> "provisioning", metered |-> FALSE, sessionSeconds |-> 0,
   credit |-> 0, burned |-> 0, price |-> 0, lastTickAt |-> 0,
   expiresAt |-> now + RoundedMinutes(seconds) * Minute * Second, pausedAt |-> NotPaused,
   exhausted |-> FALSE, settle |-> "none", refunded |-> 0]

-----------------------------------------------------------------------------
(* What the ledger says about time, computed from money.                   *)

SecondsRemaining(l) == IF l.price > 0 THEN l.credit \div l.price ELSE 0

PaidSeconds(l) == IF l.price > 0 THEN (l.burned + l.credit) \div l.price ELSE 0

UnpaidSeconds(l) ==
  IF l.sessionSeconds > PaidSeconds(l) THEN l.sessionSeconds - PaidSeconds(l) ELSE 0

FullyPaid(l) == l.sessionSeconds > 0 /\ PaidSeconds(l) >= l.sessionSeconds

OverdueBy(l, now) == now - l.expiresAt

PausedFor(l, now) == IF l.pausedAt = NotPaused THEN 0 ELSE now - l.pausedAt

-----------------------------------------------------------------------------
(* The mutex-protected methods.                                            *)

\* A mutant: an empty ledger's expiry follows the tick.
SyncExpiryDragging(l) ==
  IF ~l.metered THEN l
  ELSE [l EXCEPT !.exhausted = SecondsRemaining(l) = 0,
                 !.expiresAt = l.lastTickAt + SecondsRemaining(l) * Second]

\* Expiry is what the credit buys, measured from the last tick; once the
\* credit is gone it is pinned at the tick that found it gone.
SyncExpiry(l) ==
  IF ~l.metered THEN l
  ELSE IF SecondsRemaining(l) > 0
  THEN [l EXCEPT !.exhausted = FALSE,
                 !.expiresAt = l.lastTickAt + SecondsRemaining(l) * Second]
  ELSE IF l.exhausted THEN l
  ELSE [l EXCEPT !.exhausted = TRUE, !.expiresAt = l.lastTickAt]

\* handleCreateSession sets the session length right after.
MarkMetered(l, seconds, amount, now) ==
  SyncExpiry([l EXCEPT !.metered = TRUE, !.sessionSeconds = seconds, !.price = Price,
                       !.credit = amount, !.burned = 0, !.lastTickAt = now,
                       !.settle = "pending"])

\* A mutant: the new chunk replaces what was left of the old one.
AddCreditReplacing(l, amount) ==
  IF l.metered THEN SyncExpiry([l EXCEPT !.credit = amount]) ELSE l

AddCredit(l, amount) ==
  IF l.metered THEN SyncExpiry([l EXCEPT !.credit = @ + amount]) ELSE l

\* A mutant: the charge is not clamped.
ChargeIntoDebt(l, now) == l.price * ((now - l.lastTickAt) \div Second)

\* Whole seconds only, and never into debt.
Charge(l, now) ==
  LET due == l.price * ((now - l.lastTickAt) \div Second)
  IN  IF due > l.credit THEN l.credit ELSE due

\* The tick moves to now even when nothing is charged.
Burn(l, now) ==
  IF ~l.metered THEN l
  ELSE IF now <= l.lastTickAt THEN [l EXCEPT !.lastTickAt = now]
  ELSE SyncExpiry([l EXCEPT !.credit = @ - Charge(l, now),
                            !.burned = @ + Charge(l, now),
                            !.lastTickAt = now])

\* A mutant: a finished lease takes a new status.
SetStatusAnyway(l, status) == [l EXCEPT !.status = status]

\* SetStatus is also fail: both leave a finished lease as it is.
SetStatus(l, status) == IF IsTerminal(l) THEN l ELSE [l EXCEPT !.status = status]

Pause(l, now) ==
  IF l.status = "active" THEN [l EXCEPT !.status = "paused", !.pausedAt = now] ELSE l

\* A mutant: the meter's clock ran on through the freeze.
ResumeOldTick(l, now) ==
  IF l.status = "paused"
  THEN SyncExpiry([l EXCEPT !.status = "active", !.pausedAt = NotPaused])
  ELSE l

\* A mutant: a payment revives whatever it was made for.
ResumeAnyway(l, now) ==
  SyncExpiry([l EXCEPT !.status = "active", !.pausedAt = NotPaused, !.lastTickAt = now])

\* The meter's clock restarts, so the frozen stretch is not charged.
Resume(l, now) ==
  IF l.status = "paused"
  THEN SyncExpiry([l EXCEPT !.status = "active", !.pausedAt = NotPaused, !.lastTickAt = now])
  ELSE l

\* A mutant: the credit is returned and kept.
MarkSettledKeepingCredit(l, amount) ==
  IF l.settle = "none" THEN l ELSE [l EXCEPT !.settle = "done", !.refunded = amount]

\* A mutant: the credit is zeroed before it is written down as returned.
MarkSettledAfterZeroing(l, amount) ==
  IF l.settle = "none" THEN l ELSE [l EXCEPT !.settle = "done", !.refunded = 0, !.credit = 0]

\* Records what the last caller says it returned, whatever was there before.
MarkSettled(l, amount) ==
  IF l.settle = "none" THEN l
  ELSE [l EXCEPT !.settle = "done", !.refunded = amount, !.credit = 0]
=============================================================================
