------------------------------- MODULE Metering -------------------------------
(***************************************************************************)
(* The life of one metered session when its callers take turns: opening,   *)
(* top-ups, the renter's stop, the provider's eviction and the background  *)
(* sweep (agent/internal/httpapi/sessions.go, leases.go, server.go).  Each *)
(* action is a whole handler run from its first read of the lease to its   *)
(* last write; NodeAgent splits the same handlers into steps.              *)
(*                                                                         *)
(* The payment of the opening chunk is the one handler that is not taken   *)
(* whole: it starts the lease long before it meters it, so the sweep may   *)
(* come between (Open).                                                    *)
(***************************************************************************)
EXTENDS LeaseLedger

CONSTANTS
  MinSeconds,    \* leases.min_minutes, in seconds
  MaxSeconds,    \* leases.max_minutes, in seconds
  Chunk,         \* leases.session_chunk_seconds
  MaxTotal,      \* leases.max_total_minutes, in seconds
  FreezeGrace,   \* sessionFreezeGrace, in clock ticks
  GracePeriod,   \* leases.grace_minutes, in clock ticks
  OpenDeadline,  \* the contexts that bound provisioning and settling, in ticks
  MaxClock       \* bound of the model: the clock stops here

\* What config.validate accepts.
ASSUME ConfigAssumption ==
  /\ {MinSeconds, MaxSeconds, Chunk, MaxTotal, FreezeGrace, GracePeriod,
      OpenDeadline, MaxClock} \subseteq Nat
  /\ 0 < MinSeconds /\ MinSeconds <= MaxSeconds /\ MaxSeconds <= MaxTotal
  /\ MinSeconds <= Chunk /\ Chunk <= MaxSeconds

VARIABLES
  lease,    \* the lease record
  asked,    \* the length its renter asked for, in seconds
  clock,    \* ticks since the lease was created
  paidIn,   \* tinybars the facilitator has settled to the provider (history)
  ran       \* ticks the session has been metered and running (history)

vars == <<lease, asked, clock, paidIn, ran>>

\* validateSessionSeconds
Lengths == MinSeconds..MaxSeconds

SessionChunk(seconds) == IF seconds < Chunk THEN seconds ELSE Chunk

\* A mutant: a whole chunk, however little is left of the session.
TopUpWholeChunk(l) == Chunk

\* The next chunk of the session the renter chose, never more than is left.
TopUpSeconds(l) ==
  IF UnpaidSeconds(l) < Chunk THEN UnpaidSeconds(l) ELSE Chunk

\* A mutant: an ended session is topped up like a live one.
TopUpAfterEnd(l) ==
  l.metered /\ l.price > 0 /\ UnpaidSeconds(l) > 0 /\ PaidSeconds(l) + TopUpSeconds(l) <= MaxTotal

TopUpAllowed(l) ==
  /\ l.metered /\ ~IsTerminal(l)
  /\ l.price > 0
  /\ UnpaidSeconds(l) > 0
  /\ PaidSeconds(l) + TopUpSeconds(l) <= MaxTotal

\* settleSession: nothing to do before the meter or after the settlement; a
\* debt of zero is settled; a transfer that fails leaves it pending.
SettleSession(l, transferred) ==
  IF ~l.metered \/ l.settle # "pending" THEN l
  ELSE IF l.credit = 0 \/ transferred THEN MarkSettled(l, l.credit)
  ELSE l

\* StopLease then settleSession, as every path that ends a session runs them.
EndedBy(l, status, transferred) == SettleSession(SetStatus(l, status), transferred)

Init ==
  /\ asked \in Lengths
  /\ lease = SetStatus(NewLease(SessionChunk(asked), 0), "active")
  /\ clock = 0
  /\ paidIn = 0
  /\ ran = 0

-----------------------------------------------------------------------------
\* The opening chunk settled.  The handler does not look at the lease's status
\* again, so it meters whatever the sweep has made of it meanwhile.
Open ==
  /\ ~lease.metered
  /\ lease.status # "failed"
  /\ clock <= OpenDeadline
  /\ lease' = MarkMetered(lease, asked, Price * SessionChunk(asked), clock)
  /\ paidIn' = paidIn + Price * SessionChunk(asked)
  /\ UNCHANGED <<asked, clock, ran>>

\* The opening chunk did not settle: the session is torn down unpaid.
OpenFails ==
  /\ ~lease.metered
  /\ ~IsTerminal(lease)
  /\ lease' = SetStatus(lease, "failed")
  /\ UNCHANGED <<asked, clock, paidIn, ran>>

\* A settled top-up is banked, and thaws the session if it was frozen.
TopUp ==
  LET amount == lease.price * TopUpSeconds(lease)
  IN  /\ TopUpAllowed(lease)
      /\ lease' = Resume(AddCredit(lease, amount), clock)
      /\ paidIn' = paidIn + amount
      /\ UNCHANGED <<asked, clock, ran>>

\* Ticked is the charge for the time up to now, if the session is running.
Ticked == IF lease.metered /\ lease.status = "active" THEN Burn(lease, clock) ELSE lease

\* The renter stops a metered session; the owner may evict any live lease.
Stop(transferred) ==
  /\ ~IsTerminal(lease)
  /\ lease' = EndedBy(Ticked, "stopped", transferred)
  /\ UNCHANGED <<asked, clock, paidIn, ran>>

\* The sweep ticks the meter before it judges, and judges what the tick left.
UsedUp(l) == FullyPaid(l) /\ SecondsRemaining(l) = 0

SweepExpire(transferred) ==
  /\ lease.status = "active"
  /\ UsedUp(Ticked)
  /\ lease' = EndedBy(Ticked, "expired", transferred)
  /\ UNCHANGED <<asked, clock, paidIn, ran>>

\* A mutant: no grace for the payment already on its way.
SweepFreezeAtZero ==
  /\ lease.status = "active"
  /\ ~UsedUp(Ticked)
  /\ OverdueBy(Ticked, clock) >= 0
  /\ lease' = Pause(Ticked, clock)
  /\ UNCHANGED <<asked, clock, paidIn, ran>>

SweepFreeze ==
  /\ lease.status = "active"
  /\ ~UsedUp(Ticked)
  /\ OverdueBy(Ticked, clock) >= FreezeGrace
  /\ lease' = Pause(Ticked, clock)
  /\ UNCHANGED <<asked, clock, paidIn, ran>>

SweepTick ==
  /\ lease.status = "active"
  /\ ~UsedUp(Ticked)
  /\ OverdueBy(Ticked, clock) < FreezeGrace
  /\ lease' = Ticked
  /\ UNCHANGED <<asked, clock, paidIn, ran>>

SweepReap(transferred) ==
  /\ lease.status = "paused"
  /\ PausedFor(lease, clock) >= GracePeriod
  /\ lease' = EndedBy(lease, "expired", transferred)
  /\ UNCHANGED <<asked, clock, paidIn, ran>>

Tick ==
  /\ clock < MaxClock
  /\ clock' = clock + 1
  /\ ran' = IF lease.metered /\ lease.status = "active" THEN ran + 1 ELSE ran
  /\ UNCHANGED <<lease, asked, paidIn>>

Next ==
  \/ Open
  \/ OpenFails
  \/ TopUp
  \/ \E transferred \in BOOLEAN : Stop(transferred)
  \/ \E transferred \in BOOLEAN : SweepExpire(transferred)
  \/ SweepFreeze
  \/ SweepTick
  \/ \E transferred \in BOOLEAN : SweepReap(transferred)
  \/ Tick

Spec == Init /\ [][Next]_vars

-----------------------------------------------------------------------------
(* What the handlers promise.                                              *)

TypeOK ==
  /\ lease \in LeaseRecord
  /\ asked \in Lengths
  /\ clock \in 0..MaxClock
  /\ paidIn \in Nat
  /\ ran \in 0..clock

\* Every tinybar that was paid in is the provider's, still the renter's, or was
\* returned: whatever order payments, ticks, freezes and endings come in, none
\* is lost and none is counted twice (MarkMetered, AddCredit, Burn, MarkSettled).
Conservation == lease.burned + lease.credit + lease.refunded = paidIn

\* The provider never earns more than the running time is worth at the quoted
\* rate: truncation, freezes and thaws can only favour the renter (Burn, Resume).
MeterNeverAhead == lease.burned * Second <= lease.price * ran

\* A session is never sold past the length its renter chose, so a full payment
\* always ends in a full use (handleTopUpSession).
NeverOversold == lease.metered => PaidSeconds(lease) <= lease.sessionSeconds

\* A metered session is frozen only after it has run, grace included, for at
\* least as long as everything paid in so far bought.
NoFreezeBeforePaidTimeUsed ==
  [][(lease.metered /\ lease.status = "active" /\ lease'.status = "paused")
       => ran >= PaidSeconds(lease) * Second + FreezeGrace]_vars

\* The ticks the session has run since the meter last ticked.
SinceTick == IF lease.metered /\ lease.status = "active" THEN clock - lease.lastTickAt ELSE 0

\* Why the money adds up: until it is metered a lease holds none, a settled one
\* is over and holds none, and what was earned was earned before the last tick.
MoneyInv ==
  /\ TypeOK
  /\ Conservation
  /\ ~lease.metered =>
       lease.credit = 0 /\ lease.burned = 0 /\ lease.price = 0 /\ lease.settle = "none"
  /\ lease.metered => lease.settle # "none"
  /\ lease.settle = "done" => IsTerminal(lease) /\ lease.credit = 0
  /\ lease.settle # "done" => lease.refunded = 0
  /\ lease.lastTickAt <= clock
  /\ SinceTick <= ran
  /\ lease.burned * Second <= lease.price * (ran - SinceTick)

\* Why a freeze never comes early: a live session's money is whole seconds, its
\* expiry is what they buy, and once they are gone the session has run for all of
\* them and for as long as it has been overdue.
WholeSeconds(l) ==
  /\ l.credit = l.price * SecondsRemaining(l)
  /\ l.burned + l.credit = l.price * PaidSeconds(l)

ExpirySynced(l) ==
  /\ l.exhausted <=> SecondsRemaining(l) = 0
  /\ ~l.exhausted => l.expiresAt = l.lastTickAt + SecondsRemaining(l) * Second

RanFor(l, now, time) == l.exhausted => PaidSeconds(l) * Second + (now - l.expiresAt) <= time

PaidTimeInv ==
  /\ ~lease.metered => ~lease.exhausted
  /\ (lease.metered /\ lease.status \in {"active", "paused"}) =>
       /\ WholeSeconds(lease) /\ ExpirySynced(lease)
       /\ lease.status = "active" => RanFor(lease, clock, ran)

\* The session implements the account: only payments add to what is held, only
\* the meter moves it to the provider, and the remainder is returned once.
Account == INSTANCE SessionAccount WITH
  held     <- lease.credit,
  earned   <- lease.burned,
  returned <- lease.refunded,
  closed   <- lease.settle = "done"

ImplementsAccount == Account!Spec
=============================================================================
