------------------------------- MODULE NodeAgent -------------------------------
(***************************************************************************)
(* A node at work: HTTP requests, the provider's eviction and the          *)
(* background sweep, each a goroutine, interleaving over the leases, the   *)
(* node's single lease slot, the containers and the tunnel                 *)
(* (agent/internal/httpapi, agent/internal/runner/lease.go).               *)
(*                                                                         *)
(* A step is what one goroutine does between two points where another may  *)
(* run: one critical section of a lease's or the runner's mutex, or one    *)
(* call that leaves the process (docker, cloudflared, the x402             *)
(* facilitator, the refund sidecar).  Every such call may fail when Faults *)
(* names it; "lost" faults are calls that took effect and reported an      *)
(* error, as a timed-out HTTP call does.                                   *)
(*                                                                         *)
(* A clock tick is seconds.  Steps inside the process take none; calls out *)
(* of it take as long as they take.                                        *)
(***************************************************************************)
EXTENDS LeaseLedger, FiniteSets, FiniteSetsExt

CONSTANTS
  Leases,          \* the ids newLeaseID may mint
  NoLease,         \* an empty slot, a tunnel that points nowhere
  Requests,        \* goroutines serving HTTP requests
  SessionSeconds,  \* the length every renter asks for
  Chunk,           \* leases.session_chunk_seconds
  MaxTotal,        \* leases.max_total_minutes, in seconds
  FreezeGrace,     \* sessionFreezeGrace, in clock ticks
  GracePeriod,     \* leases.grace_minutes, in clock ticks
  Faults,          \* the kinds of failure that may happen
  MaxFaults,       \* bound of the model: failures in one behaviour
  Overlap,         \* bound of the model: goroutines at work at once
  MaxClock         \* bound of the model: the clock stops here

FaultKinds == {"provision", "publish", "settle", "settleLost", "refund", "refundLost",
               "freeze", "thaw", "remove"}

ASSUME AgentAssumption ==
  /\ {SessionSeconds, Chunk, MaxTotal, FreezeGrace, GracePeriod, MaxFaults,
      Overlap, MaxClock} \subseteq Nat
  /\ 0 < Chunk /\ 0 < SessionSeconds /\ SessionSeconds <= MaxTotal
  /\ NoLease \notin Leases
  /\ Faults \subseteq FaultKinds

\* A process has finitely many goroutines.
ASSUME GoroutineAssumption == IsFiniteSet(Requests)

VARIABLES
  lease,     \* runner.leases: the leases started so far
  slot,      \* runner.activeLease
  box,       \* the lease container of each lease, as docker has it
  tunnel,    \* the lease cloudflared serves
  clock,     \* ticks since the node started
  thread,    \* where each goroutine is, and its local variables
  faults,    \* failures so far
  paid,      \* tinybars settled to the provider for each lease (history)
  returned   \* tinybars transferred back for each lease (history)

vars == <<lease, slot, box, tunnel, clock, thread, faults, paid, returned>>

\* ReapLeases runs in one goroutine, and the dashboard ends one lease at a time.
Sweep == "sweep"
Owner == "owner"
Threads == Requests \cup {Sweep, Owner}

Idle == [pc |-> "idle", op |-> "none", id |-> NoLease, amount |-> 0]

At(t, pc) == thread[t].pc = pc

\* The goroutine t moves on, keeping its local variables.
GoTo(t, pc) == thread' = [thread EXCEPT ![t].pc = pc]

Return(t) == thread' = [thread EXCEPT ![t] = Idle]

\* A goroutine starts work on lease id.
Begin(t, pc, op, id, amount) ==
  /\ At(t, "idle")
  /\ Cardinality({u \in Threads : ~At(u, "idle")}) < Overlap
  /\ thread' = [thread EXCEPT ![t] = [pc |-> pc, op |-> op, id |-> id, amount |-> amount]]

\* The lease a goroutine works on, and an update of it.
Of(t) == lease[thread[t].id]
Update(t, record) == lease' = [lease EXCEPT ![thread[t].id] = record]

Fault(kind) ==
  /\ kind \in Faults
  /\ faults < MaxFaults
  /\ faults' = faults + 1

\* ActiveLease returns a lease that is not over.
SlotTaken == slot # NoLease /\ ~IsTerminal(lease[slot])

OpeningSeconds == IF SessionSeconds < Chunk THEN SessionSeconds ELSE Chunk

Init ==
  /\ lease = [l \in {} |-> NewLease(0, 0)]
  /\ slot = NoLease
  /\ box = [l \in Leases |-> "none"]
  /\ tunnel = NoLease
  /\ clock = 0
  /\ thread = [t \in Threads |-> Idle]
  /\ faults = 0
  /\ paid = [l \in Leases |-> 0]
  /\ returned = [l \in Leases |-> 0]

-----------------------------------------------------------------------------
(* handleCreateSession.                                                    *)

\* The request is valid, the node is free and the payment verifies.
CreateSession(r) ==
  /\ ~SlotTaken
  /\ Begin(r, "claim", "create", NoLease, 0)
  /\ UNCHANGED <<lease, slot, box, tunnel, clock, faults, paid, returned>>

\* A mutant: the slot is taken without looking again.
ClaimSlotUnchecked(r) ==
  /\ At(r, "claim")
  /\ \E l \in Leases \ DOMAIN lease :
       /\ lease' = [k \in DOMAIN lease \cup {l} |->
                      IF k = l THEN NewLease(OpeningSeconds, clock) ELSE lease[k]]
       /\ slot' = l
       /\ thread' = [thread EXCEPT ![r].pc = "provision", ![r].id = l]
  /\ UNCHANGED <<box, tunnel, clock, faults, paid, returned>>

\* StartLease looks again under the runner's lock and claims the slot.
ClaimSlot(r) ==
  /\ At(r, "claim")
  /\ ~SlotTaken
  /\ \E l \in Leases \ DOMAIN lease :
       /\ lease' = [k \in DOMAIN lease \cup {l} |->
                      IF k = l THEN NewLease(OpeningSeconds, clock) ELSE lease[k]]
       /\ slot' = l
       /\ thread' = [thread EXCEPT ![r].pc = "provision", ![r].id = l]
  /\ UNCHANGED <<box, tunnel, clock, faults, paid, returned>>

\* Someone else has it: refused, nothing charged.  The model also ends here
\* when it has no lease id left.
ClaimRefused(r) ==
  /\ At(r, "claim")
  /\ SlotTaken \/ DOMAIN lease = Leases
  /\ Return(r)
  /\ UNCHANGED <<lease, slot, box, tunnel, clock, faults, paid, returned>>

\* The lease container is created, whatever has become of the lease meanwhile.
Provision(r) ==
  /\ At(r, "provision")
  /\ box' = [box EXCEPT ![thread[r].id] = "running"]
  /\ GoTo(r, "await")
  /\ UNCHANGED <<lease, slot, tunnel, clock, faults, paid, returned>>

\* Jupyter answers: the lease is active, unless it was ended meanwhile.
Answering(r) ==
  /\ At(r, "await")
  /\ box[thread[r].id] = "running"
  /\ Update(r, SetStatus(Of(r), "active"))
  /\ GoTo(r, "publish")
  /\ UNCHANGED <<slot, box, tunnel, clock, faults, paid, returned>>

\* A call that needs the renter's container fails for want of it, or by a fault.
Unanswered(r, kind) ==
  \/ box[thread[r].id] # "running" /\ UNCHANGED faults
  \/ Fault(kind)

\* Docker fails, or a teardown that came first has taken the lease's network away.
ProvisionFails(r) ==
  /\ \/ At(r, "provision") /\ Fault("provision")
     \/ At(r, "provision") /\ IsTerminal(Of(r)) /\ UNCHANGED faults
     \/ At(r, "await") /\ Unanswered(r, "provision")
  /\ Update(r, SetStatus(Of(r), "failed"))
  /\ thread' = [thread EXCEPT ![r].pc = "reap", ![r].op = "abort"]
  /\ UNCHANGED <<slot, box, tunnel, clock, paid, returned>>

\* publishLease: cloudflared is restarted for the lease.
PointAt(r) ==
  /\ At(r, "publish")
  /\ tunnel' = thread[r].id
  /\ GoTo(r, "reach")
  /\ UNCHANGED <<lease, slot, box, clock, faults, paid, returned>>

\* Any HTTP response at the lease's address will do, an error page of the tunnel
\* service's edge included: the lease need not be behind it any more.
Reachable(r) ==
  /\ At(r, "reach")
  /\ GoTo(r, "settle")
  /\ UNCHANGED <<lease, slot, box, tunnel, clock, faults, paid, returned>>

\* The certificate is not signed; no tunnel comes up, and the last one is gone; or
\* nothing answers through it, as when another goroutine has taken it down.
PublishFails(r) ==
  /\ \/ At(r, "publish") /\ Fault("publish") /\ tunnel' \in {tunnel, NoLease}
     \/ At(r, "reach") /\ Unanswered(r, "publish") /\ UNCHANGED tunnel
     \/ At(r, "reach") /\ tunnel # thread[r].id /\ UNCHANGED <<faults, tunnel>>
  /\ GoTo(r, "end")
  /\ UNCHANGED <<lease, slot, box, clock, paid, returned>>

\* The facilitator settles the opening chunk.
Settle(r) ==
  /\ At(r, "settle")
  /\ paid' = [paid EXCEPT ![thread[r].id] = @ + Price * OpeningSeconds]
  /\ GoTo(r, "meter")
  /\ UNCHANGED <<lease, slot, box, tunnel, clock, faults, returned>>

\* The handler sees an error, whether or not the money moved.
SettleFails(r) ==
  /\ At(r, "settle")
  /\ \/ Fault("settle") /\ UNCHANGED paid
     \/ Fault("settleLost") /\ paid' = [paid EXCEPT ![thread[r].id] = @ + Price * OpeningSeconds]
  /\ GoTo(r, "end")
  /\ UNCHANGED <<lease, slot, box, tunnel, clock, returned>>

\* MarkMetered does not look at the status of the lease it meters.
Meter(r) ==
  /\ At(r, "meter")
  /\ Update(r, MarkMetered(Of(r), SessionSeconds, Price * OpeningSeconds, clock))
  /\ Return(r)
  /\ UNCHANGED <<slot, box, tunnel, clock, faults, paid, returned>>

-----------------------------------------------------------------------------
(* handleTopUpSession.                                                     *)

TopUpSeconds(l) == IF UnpaidSeconds(l) < Chunk THEN UnpaidSeconds(l) ELSE Chunk

\* Authorised, live, metered, and with something left to buy; priced now and
\* paid for later.
TopUpSession(r) ==
  /\ SlotTaken
  /\ lease[slot].metered
  /\ lease[slot].price > 0
  /\ UnpaidSeconds(lease[slot]) > 0
  /\ PaidSeconds(lease[slot]) + TopUpSeconds(lease[slot]) <= MaxTotal
  /\ Begin(r, "pay", "topup", slot, lease[slot].price * TopUpSeconds(lease[slot]))
  /\ UNCHANGED <<lease, slot, box, tunnel, clock, faults, paid, returned>>

Pay(r) ==
  /\ At(r, "pay")
  /\ paid' = [paid EXCEPT ![thread[r].id] = @ + thread[r].amount]
  /\ GoTo(r, "bank")
  /\ UNCHANGED <<lease, slot, box, tunnel, clock, faults, returned>>

PayFails(r) ==
  /\ At(r, "pay")
  /\ \/ Fault("settle") /\ UNCHANGED paid
     \/ Fault("settleLost") /\ paid' = [paid EXCEPT ![thread[r].id] = @ + thread[r].amount]
  /\ Return(r)
  /\ UNCHANGED <<lease, slot, box, tunnel, clock, returned>>

\* AddCredit does not look at the status either.
Bank(r) ==
  /\ At(r, "bank")
  /\ Update(r, AddCredit(Of(r), thread[r].amount))
  /\ GoTo(r, "thaw")
  /\ UNCHANGED <<slot, box, tunnel, clock, faults, paid, returned>>

\* ResumeLease changes the status first and asks docker afterwards.
Thaw(r) ==
  /\ At(r, "thaw")
  /\ Update(r, Resume(Of(r), clock))
  /\ IF Of(r).status = "paused" THEN GoTo(r, "unpause") ELSE Return(r)
  /\ UNCHANGED <<slot, box, tunnel, clock, faults, paid, returned>>

\* Docker thaws a frozen container; anything else is an error, only logged.
Unpause(r) ==
  /\ At(r, "unpause")
  /\ LET id == thread[r].id
     IN  box' = IF box[id] = "frozen" THEN [box EXCEPT ![id] = "running"] ELSE box
  /\ Return(r)
  /\ UNCHANGED <<lease, slot, tunnel, clock, faults, paid, returned>>

UnpauseFails(r) ==
  /\ At(r, "unpause")
  /\ Fault("thaw")
  /\ Return(r)
  /\ UNCHANGED <<lease, slot, box, tunnel, clock, paid, returned>>

-----------------------------------------------------------------------------
(* Ending a lease: handleSessionStop, EndLease, and the sweep's endings.   *)

\* A metered session that is running is charged before it is ended.
AfterStop(l) == IF l.metered /\ l.status = "active" THEN "burn" ELSE "end"

\* Authorised by the session's id, so the session is metered; it may be over.
StopSession(r) ==
  /\ slot # NoLease
  /\ lease[slot].metered
  /\ Begin(r, AfterStop(lease[slot]), "stop", slot, 0)
  /\ UNCHANGED <<lease, slot, box, tunnel, clock, faults, paid, returned>>

\* The provider evicts whoever holds the node, metered or not.
EndLease ==
  /\ SlotTaken
  /\ Begin(Owner, AfterStop(lease[slot]), "stop", slot, 0)
  /\ UNCHANGED <<lease, slot, box, tunnel, clock, faults, paid, returned>>

\* A mutant: the remainder goes back before the lease is ended.
FinalBurnThenSettle(t) ==
  /\ At(t, "burn")
  /\ Update(t, Burn(Of(t), clock))
  /\ GoTo(t, "debt")
  /\ UNCHANGED <<slot, box, tunnel, clock, faults, paid, returned>>

FinalBurn(t) ==
  /\ At(t, "burn")
  /\ Update(t, Burn(Of(t), clock))
  /\ GoTo(t, "end")
  /\ UNCHANGED <<slot, box, tunnel, clock, faults, paid, returned>>

FinalStatus(op) == CASE op = "create" -> "failed" [] op = "sweep" -> "expired" [] OTHER -> "stopped"

\* StopLease: the first to get here takes the lease down, the others move on.
StopLease(t) ==
  /\ At(t, "end")
  /\ Update(t, SetStatus(Of(t), FinalStatus(thread[t].op)))
  /\ GoTo(t, IF IsTerminal(Of(t)) THEN "clear" ELSE "reap")
  /\ UNCHANGED <<slot, box, tunnel, clock, faults, paid, returned>>

\* A mutant: the slot stays with the lease that is over.
SlotKept(id) == slot

\* releaseLeaseSlot, which a later holder of the slot survives.
Released(id) == IF slot = id THEN NoLease ELSE slot

\* A mutant: the tunnel is forgotten.
ReapWithoutClear(t) ==
  /\ At(t, "reap")
  /\ LET id == thread[t].id
     IN  /\ box' = IF box[id] = "none" THEN box ELSE [box EXCEPT ![id] = "gone"]
         /\ slot' = Released(id)
  /\ IF thread[t].op = "abort" THEN Return(t) ELSE GoTo(t, "debt")
  /\ UNCHANGED <<lease, tunnel, clock, faults, paid, returned>>

\* A mutant: docker will not remove a frozen container, and nobody thaws it.
ReapFrozenStays(t) ==
  /\ At(t, "reap")
  /\ LET id == thread[t].id
     IN  /\ box' = IF box[id] = "running" THEN [box EXCEPT ![id] = "gone"] ELSE box
         /\ slot' = Released(id)
  /\ IF thread[t].op = "abort" THEN Return(t) ELSE GoTo(t, "clear")
  /\ UNCHANGED <<lease, tunnel, clock, faults, paid, returned>>

\* What a reaper does next, whatever became of the container.
AfterReap(t) == IF thread[t].op = "abort" THEN Return(t) ELSE GoTo(t, "clear")

\* Docker does not remove the container, thawed for it or not: the error is only
\* logged.  Without a failure of docker's own it happens to a handler that opens a
\* session, which tears down with the deadline that publishing or settling has
\* just run into.
ReapFails(t) ==
  /\ At(t, "reap")
  /\ LET id == thread[t].id
     IN  /\ box[id] \in {"running", "frozen"}
         /\ box' \in {box, [box EXCEPT ![id] = "running"]}
         /\ slot' = Released(id)
  /\ Fault("remove") \/ (thread[t].op = "create" /\ UNCHANGED faults)
  /\ AfterReap(t)
  /\ UNCHANGED <<lease, tunnel, clock, paid, returned>>

\* reapLeaseResources, as slow as docker is, and then the slot is free.  A
\* container that has not been created yet is not there to be removed.
Reap(t) ==
  /\ At(t, "reap")
  /\ LET id == thread[t].id
     IN  /\ box' = IF box[id] = "none" THEN box ELSE [box EXCEPT ![id] = "gone"]
         /\ slot' = Released(id)
  /\ AfterReap(t)
  /\ UNCHANGED <<lease, tunnel, clock, faults, paid, returned>>

\* A mutant: the lease to settle is looked up in the slot it has just left.
ClearThenLookUp(t) ==
  /\ At(t, "clear")
  /\ tunnel' = NoLease
  /\ IF thread[t].op = "create" \/ slot # thread[t].id THEN Return(t) ELSE GoTo(t, "debt")
  /\ UNCHANGED <<lease, slot, box, clock, faults, paid, returned>>

\* tunnel.Clear takes down whatever the tunnel points at.
Clear(t) ==
  /\ At(t, "clear")
  /\ tunnel' = NoLease
  /\ IF thread[t].op = "create" THEN Return(t) ELSE GoTo(t, "debt")
  /\ UNCHANGED <<lease, slot, box, clock, faults, paid, returned>>

-----------------------------------------------------------------------------
(* settleSession.                                                          *)

CheckDebt(t) ==
  /\ At(t, "debt")
  /\ IF Of(t).metered /\ Of(t).settle = "pending" THEN GoTo(t, "owed") ELSE Return(t)
  /\ UNCHANGED <<lease, slot, box, tunnel, clock, faults, paid, returned>>

\* Nothing owed is marked settled without a transfer, under a lock of its own.
ReadDebt(t) ==
  /\ At(t, "owed")
  /\ thread' = [thread EXCEPT ![t].pc = IF Of(t).credit = 0 THEN "mark" ELSE "refund",
                              ![t].amount = Of(t).credit]
  /\ UNCHANGED <<lease, slot, box, tunnel, clock, faults, paid, returned>>

\* The sidecar's transfer.
Refund(t) ==
  /\ At(t, "refund")
  /\ returned' = [returned EXCEPT ![thread[t].id] = @ + thread[t].amount]
  /\ GoTo(t, "mark")
  /\ UNCHANGED <<lease, slot, box, tunnel, clock, faults, paid>>

\* No sidecar or no transfer, or a transfer whose answer was lost: still pending.
RefundFails(t) ==
  /\ At(t, "refund")
  /\ \/ Fault("refund") /\ UNCHANGED returned
     \/ /\ Fault("refundLost")
        /\ returned' = [returned EXCEPT ![thread[t].id] = @ + thread[t].amount]
  /\ Return(t)
  /\ UNCHANGED <<lease, slot, box, tunnel, clock, paid>>

Mark(t) ==
  /\ At(t, "mark")
  /\ Update(t, MarkSettled(Of(t), thread[t].amount))
  /\ Return(t)
  /\ UNCHANGED <<slot, box, tunnel, clock, faults, paid, returned>>

-----------------------------------------------------------------------------
(* sweepLeases.                                                            *)

\* A lease that is over may still owe; a running one is charged before it is
\* judged.
SweepLeases ==
  /\ slot # NoLease
  /\ LET l == lease[slot]
         pc == IF IsTerminal(l) THEN "debt"
               ELSE IF l.metered /\ l.status = "active" THEN "tick" ELSE "judge"
     IN  Begin(Sweep, pc, "sweep", slot, 0)
  /\ UNCHANGED <<lease, slot, box, tunnel, clock, faults, paid, returned>>

TickMeter ==
  /\ At(Sweep, "tick")
  /\ Update(Sweep, Burn(Of(Sweep), clock))
  /\ GoTo(Sweep, "judge")
  /\ UNCHANGED <<slot, box, tunnel, clock, faults, paid, returned>>

UsedUp(l) == FullyPaid(l) /\ SecondsRemaining(l) = 0

\* A mutant: a frozen lease is left alone.
VerdictForgetsFrozen(l) ==
  CASE l.status = "active" /\ UsedUp(l) -> "end"
    [] l.status = "active" /\ ~UsedUp(l) /\ OverdueBy(l, clock) >= FreezeGrace -> "pause"
    [] OTHER -> "idle"

\* What the sweep does with the lease as it finds it now.
Verdict(l) ==
  CASE l.status = "active" /\ UsedUp(l) -> "end"
    [] l.status = "active" /\ ~UsedUp(l) /\ OverdueBy(l, clock) >= FreezeGrace -> "pause"
    [] l.status = "paused" /\ PausedFor(l, clock) >= GracePeriod -> "end"
    [] OTHER -> "idle"

Judge ==
  /\ At(Sweep, "judge")
  /\ LET pc == Verdict(Of(Sweep))
     IN  IF pc = "idle" THEN Return(Sweep) ELSE GoTo(Sweep, pc)
  /\ UNCHANGED <<lease, slot, box, tunnel, clock, faults, paid, returned>>

\* PauseLease changes the status first and asks docker afterwards.
PauseLease ==
  /\ At(Sweep, "pause")
  /\ Update(Sweep, Pause(Of(Sweep), clock))
  /\ IF Of(Sweep).status = "active" THEN GoTo(Sweep, "freeze") ELSE Return(Sweep)
  /\ UNCHANGED <<slot, box, tunnel, clock, faults, paid, returned>>

Freeze ==
  /\ At(Sweep, "freeze")
  /\ LET id == thread[Sweep].id
     IN  box' = IF box[id] = "running" THEN [box EXCEPT ![id] = "frozen"] ELSE box
  /\ Return(Sweep)
  /\ UNCHANGED <<lease, slot, tunnel, clock, faults, paid, returned>>

\* The error is logged; the lease stays paused and nobody tries again.
FreezeFails ==
  /\ At(Sweep, "freeze")
  /\ Fault("freeze")
  /\ Return(Sweep)
  /\ UNCHANGED <<lease, slot, box, tunnel, clock, paid, returned>>

-----------------------------------------------------------------------------

\* What a goroutine does next is no call out of the process.
AtOnce == {"meter", "bank", "thaw", "burn", "end", "debt", "owed", "mark", "tick", "judge", "pause"}

Tick ==
  /\ clock < MaxClock
  /\ \A t \in Threads : thread[t].pc \notin AtOnce
  /\ clock' = clock + 1
  /\ UNCHANGED <<lease, slot, box, tunnel, thread, faults, paid, returned>>

\* A goroutine that has started goes on to its end.
CreateStep(r) ==
  \/ ClaimSlot(r) \/ ClaimRefused(r) \/ Provision(r) \/ Answering(r) \/ ProvisionFails(r)
  \/ PointAt(r) \/ Reachable(r) \/ PublishFails(r) \/ Settle(r) \/ SettleFails(r) \/ Meter(r)

TopUpStep(r) ==
  Pay(r) \/ PayFails(r) \/ Bank(r) \/ Thaw(r) \/ Unpause(r) \/ UnpauseFails(r)

EndStep(t) ==
  \/ FinalBurn(t) \/ StopLease(t) \/ Reap(t) \/ ReapFails(t) \/ Clear(t)
  \/ CheckDebt(t) \/ ReadDebt(t) \/ Refund(t) \/ RefundFails(t) \/ Mark(t)

SweepStep == TickMeter \/ Judge \/ PauseLease \/ Freeze \/ FreezeFails

ThreadStep ==
  \/ \E r \in Requests : CreateStep(r) \/ TopUpStep(r)
  \/ \E t \in Threads : EndStep(t)
  \/ SweepStep

Next ==
  \/ \E r \in Requests : CreateSession(r) \/ TopUpSession(r) \/ StopSession(r)
  \/ EndLease
  \/ SweepLeases
  \/ ThreadStep
  \/ Tick

Spec == Init /\ [][Next]_vars

\* Go schedules every runnable goroutine, every call out of the process has a
\* timeout, and the sweep's ticker keeps firing.  Time passes between one sweep
\* and the next, so the clock is not held up by steps that take none (SF).
\* Renters and the provider owe nothing.
Fairness ==
  /\ \A r \in Requests : WF_vars(CreateStep(r) \/ TopUpStep(r))
  /\ \A t \in Threads : WF_vars(EndStep(t))
  /\ WF_vars(SweepStep)
  /\ WF_vars(SweepLeases)
  /\ SF_vars(Tick)

FairSpec == Spec /\ Fairness

-----------------------------------------------------------------------------
(* What the node promises.                                                 *)

Pc == {"idle", "claim", "provision", "await", "publish", "reach", "settle", "meter",
       "pay", "bank", "thaw", "unpause",
       "burn", "end", "reap", "clear", "debt", "owed", "refund", "mark",
       "tick", "judge", "pause", "freeze"}

Op == {"none", "create", "abort", "topup", "stop", "sweep"}

Goroutine == [pc : Pc, op : Op, id : Leases \cup {NoLease}, amount : Nat]

TypeOK ==
  /\ DOMAIN lease \subseteq Leases
  /\ lease \in [DOMAIN lease -> LeaseRecord]
  /\ slot \in DOMAIN lease \cup {NoLease}
  /\ box \in [Leases -> {"none", "running", "frozen", "gone"}]
  /\ tunnel \in DOMAIN lease \cup {NoLease}
  /\ clock \in 0..MaxClock
  /\ thread \in [Threads -> Goroutine]
  /\ faults \in 0..MaxFaults
  /\ paid \in [Leases -> Nat] /\ returned \in [Leases -> Nat]

IsLive(l) == l \in DOMAIN lease /\ ~IsTerminal(lease[l])

(* Promises that hold however the goroutines interleave.                   *)

\* The node rents to one renter at a time: two leases are never live at once,
\* and the live one holds the slot (StartLease, releaseLeaseSlot).
OneLiveLease == \A l \in Leases : IsLive(l) => slot = l

\* A lease that is over stays over, whoever pauses, thaws, fails or stops it next.
TerminalIsFinal ==
  [][\A l \in DOMAIN lease : IsTerminal(lease[l]) => lease'[l].status = lease[l].status]_vars

\* No lease is active or frozen without a container behind it: teardown always
\* ends the lease before it touches the container.
LiveLeaseHasContainer ==
  \A l \in DOMAIN lease :
    lease[l].status \in {"active", "paused"} => box[l] \in {"running", "frozen"}

\* Money is only returned for a lease that is over.
RefundOnlyAfterEnd == \A l \in Leases : returned[l] > 0 => ~IsLive(l)

\* What a handler has been paid for lease l and not banked yet.
Unbanked(l, t) ==
  IF thread[t].id # l THEN 0
  ELSE CASE At(t, "bank") -> thread[t].amount
         [] At(t, "meter") -> Price * OpeningSeconds
         [] OTHER -> 0

\* What all handlers together have been paid for it and not banked.
HeldFor(l) == SumFunctionOnSet([t \in Threads |-> Unbanked(l, t)], Threads)

\* While a session lives its books are exact: every tinybar the facilitator
\* settled is the provider's, the renter's, or in the hands of a handler about
\* to bank it.  Only a settlement reported as failed escapes them.
LiveBooksExact ==
  \A l \in Leases : IsLive(l) =>
    LET booked == lease[l].burned + lease[l].credit + HeldFor(l)
    IN  /\ booked <= paid[l]
        /\ "settleLost" \notin Faults => booked = paid[l]

\* A lease that is over gives the node back: the slot does not stay with it.
SlotFreed == \A l \in Leases : (slot = l /\ ~IsLive(l)) ~> (slot # l)

\* A session whose credit is gone does not run for ever: it is frozen, ends or
\* is topped up, whatever keeps ticking its meter (syncExpiryLocked, sweepLeases).
DrySessionFreezes ==
  \A l \in Leases :
    LET Dry == /\ l \in DOMAIN lease
               /\ lease[l].status = "active" /\ lease[l].exhausted
    IN  (Dry /\ lease[l].expiresAt + FreezeGrace <= MaxClock) ~> ~Dry

\* A frozen session does not hold the node for ever: once its grace period is
\* over it ends, unless it is thawed first.
FrozenSessionEnds ==
  \A l \in Leases :
    LET Frozen == l \in DOMAIN lease /\ lease[l].status = "paused"
    IN  (Frozen /\ lease[l].pausedAt + GracePeriod <= MaxClock) ~> ~Frozen

\* Where a goroutine can only be once the lease it works on is over.
Ending == {"reap", "clear", "debt", "owed", "refund", "mark"}

\* Why those promises hold: a goroutine works on a lease that exists, and takes
\* down or settles only one that is over.
AgentInv ==
  /\ TypeOK
  /\ \A t \in Threads :
       /\ thread[t].pc \notin {"idle", "claim"} => thread[t].id \in DOMAIN lease
       /\ thread[t].pc \in Ending => ~IsLive(thread[t].id)
  /\ \A l \in Leases \ DOMAIN lease : returned[l] = 0
  /\ OneLiveLease
  /\ LiveLeaseHasContainer
  /\ RefundOnlyAfterEnd

(* What comments in the code and its README say of every interleaving, and the *)
(* code does not keep.                                                         *)

Quiet == \A t \in Threads : At(t, "idle")

\* A session evicted, or stopped, while a payment is under way is refunded like any
\* other (the comment on EndLease): no call failed, so nothing is owed.
EvictedIsRefunded ==
  Quiet /\ faults = 0 => \A l \in DOMAIN lease : IsTerminal(lease[l]) => lease[l].credit = 0

\* Nothing is refunded twice (the comments on settleSession and MarkSettled): what
\* was earned and what was returned never exceed what was paid.
NothingRefundedTwice ==
  \A l \in DOMAIN lease : lease[l].burned + returned[l] <= paid[l]

\* A refund whose transfer failed is tried again until it is made (the comments
\* in settleSession and sweepLeases).
FailedRefundRetried ==
  \A l \in Leases :
    (\E t \in Threads : At(t, "refund") /\ thread[t].id = l)
      ~> (l \in DOMAIN lease /\ lease[l].settle = "done")

\* The meter only ever runs while the container is running (the comment on Burn).
MeterRunsWithContainer ==
  [][\A l \in DOMAIN lease : lease'[l].burned > lease[l].burned => box[l] = "running"]_vars
=============================================================================
