--------------------------- MODULE NodeAgentProofs ---------------------------
(* Proofs about the node's goroutines, for any number of requests, leases    *)
(* and failures, however they interleave.                                    *)
EXTENDS NodeMishaps, LedgerProofs, SumTheorems, TLAPS

-----------------------------------------------------------------------------
(* How a goroutine moves.                                                  *)

\* Every goroutine but t stays where it is.
OthersStay(t) == \A u \in Threads \ {t} : thread'[u] = thread[u]

\* A step of one goroutine moves that goroutine only.
LEMMA GoToEffect ==
  ASSUME TypeOK, NEW t \in Threads, NEW pc \in Pc, GoTo(t, pc)
  PROVE  /\ thread' \in [Threads -> Goroutine]
         /\ OthersStay(t)
         /\ thread'[t].pc = pc /\ thread'[t].id = thread[t].id
BY DEF TypeOK, GoTo, OthersStay, Goroutine

LEMMA ReturnEffect ==
  ASSUME TypeOK, NEW t \in Threads, Return(t)
  PROVE  /\ thread' \in [Threads -> Goroutine]
         /\ OthersStay(t)
         /\ thread'[t].pc = "idle"
BY DEF TypeOK, Return, OthersStay, Goroutine, Idle, Pc, Op

LEMMA BeginEffect ==
  ASSUME TypeOK, NEW t \in Threads, NEW pc \in Pc, NEW op \in Op,
         NEW id \in Leases \cup {NoLease}, NEW amount \in Nat,
         Begin(t, pc, op, id, amount)
  PROVE  /\ thread' \in [Threads -> Goroutine]
         /\ OthersStay(t)
         /\ thread'[t].pc = pc /\ thread'[t].id = id
BY DEF TypeOK, Begin, OthersStay, Goroutine

\* One lease changes, the others do not.
LEMMA UpdateEffect ==
  ASSUME TypeOK, NEW t \in Threads, thread[t].id \in DOMAIN lease,
         NEW record \in LeaseRecord, Update(t, record)
  PROVE  /\ DOMAIN lease' = DOMAIN lease
         /\ lease' \in [DOMAIN lease' -> LeaseRecord]
         /\ lease'[thread[t].id] = record
         /\ \A l \in DOMAIN lease : l # thread[t].id => lease'[l] = lease[l]
BY DEF TypeOK, Update

-----------------------------------------------------------------------------
(* One step of one goroutine.                                              *)

\* A lease that is over keeps its status.
OverStaysOver == \A l \in DOMAIN lease : IsTerminal(lease[l]) => lease'[l].status = lease[l].status

\* What a step of goroutine t has to establish: everything but the shape of the
\* state, which TypeOK' covers.
SafeStep(t) ==
  /\ OthersStay(t)
  /\ DOMAIN lease' = DOMAIN lease
  /\ OverStaysOver
  /\ \A l \in DOMAIN lease : ~IsTerminal(lease'[l]) => slot' = slot \/ slot' = l
  /\ \A l \in DOMAIN lease :
       lease'[l].status \in {"active", "paused"} => box'[l] \in {"running", "frozen"}
  /\ \A l \in Leases : returned'[l] = returned[l] \/ (l \in DOMAIN lease /\ IsTerminal(lease[l]))
  /\ thread'[t].pc \notin {"idle", "claim"} => thread'[t].id \in DOMAIN lease
  /\ thread'[t].pc \in Ending => ~IsLive(thread[t].id)'

\* Such a step preserves the invariant.
LEMMA SafeStepKeeps ==
  ASSUME AgentInv, TypeOK', NEW t \in Threads, SafeStep(t)
  PROVE  AgentInv'
<1>1. /\ lease \in [DOMAIN lease -> LeaseRecord] /\ DOMAIN lease' = DOMAIN lease
      /\ DOMAIN lease \subseteq Leases /\ returned \in [Leases -> Nat]
  BY DEF AgentInv, TypeOK, SafeStep
<1>2. \A l \in Leases : IsLive(l)' => IsLive(l)
  BY <1>1 DEF SafeStep, IsLive, IsTerminal, OverStaysOver
<1>3. \A u \in Threads :
        /\ thread'[u].pc \notin {"idle", "claim"} => thread'[u].id \in DOMAIN lease'
        /\ thread'[u].pc \in Ending => ~IsLive(thread[u].id)'
  <2> SUFFICES ASSUME NEW u \in Threads
               PROVE  /\ thread'[u].pc \notin {"idle", "claim"} => thread'[u].id \in DOMAIN lease'
                      /\ thread'[u].pc \in Ending => ~IsLive(thread[u].id)'
    OBVIOUS
  <2>1. CASE u = t
    BY <1>1, <2>1 DEF SafeStep
  <2>2. CASE u # t
    <3>1. thread'[u] = thread[u]
      BY <2>2 DEF SafeStep, OthersStay
    <3>2. thread[u].pc \notin {"idle", "claim"} => thread[u].id \in DOMAIN lease
      BY DEF AgentInv
    <3>3. ASSUME thread[u].pc \in Ending PROVE ~IsLive(thread[u].id)'
      <4>1. thread[u].id \in DOMAIN lease /\ IsTerminal(lease[thread[u].id])
        BY <3>3 DEF AgentInv, Ending, IsLive
      <4>2. lease'[thread[u].id].status = lease[thread[u].id].status
        BY <4>1 DEF SafeStep, OverStaysOver
      <4>3. QED
        BY <3>1, <4>1, <4>2 DEF IsLive, IsTerminal
    <3>4. QED
      BY <1>1, <3>1, <3>2, <3>3
  <2>3. QED
    BY <2>1, <2>2
<1>4. OneLiveLease'
  BY <1>1, <1>2 DEF AgentInv, OneLiveLease, SafeStep, IsLive
<1>5. LiveLeaseHasContainer'
  BY <1>1 DEF SafeStep, LiveLeaseHasContainer
<1>6. RefundOnlyAfterEnd'
  <2> SUFFICES ASSUME NEW l \in Leases, returned'[l] > 0 PROVE ~IsLive(l)'
    BY DEF RefundOnlyAfterEnd
  <2>1. CASE returned'[l] = returned[l]
    BY <1>2, <2>1 DEF AgentInv, RefundOnlyAfterEnd
  <2>2. CASE l \in DOMAIN lease /\ IsTerminal(lease[l])
    BY <1>2, <2>2 DEF IsLive
  <2>3. QED
    BY <2>1, <2>2 DEF SafeStep
<1>7. \A l \in Leases \ DOMAIN lease' : returned'[l] = 0
  BY <1>1 DEF AgentInv, SafeStep
<1>8. QED
  BY <1>3, <1>4, <1>5, <1>6, <1>7 DEF AgentInv

\* A step that leaves slot, containers, refunds and every status alone is safe
\* when the goroutine only moves on.
LEMMA MovesOn ==
  ASSUME AgentInv, NEW t \in Threads, OthersStay(t),
         DOMAIN lease' = DOMAIN lease,
         \A l \in DOMAIN lease : lease'[l].status = lease[l].status,
         slot' = slot, returned' = returned,
         \A l \in Leases : box'[l] = box[l] \/ (box[l] \in {"running", "frozen"}
                                                /\ box'[l] \in {"running", "frozen"}),
         thread'[t].pc \notin {"idle", "claim"} => thread'[t].id \in DOMAIN lease,
         thread'[t].pc \in Ending => ~IsLive(thread'[t].id)
  PROVE  SafeStep(t)
<1>1. DOMAIN lease \subseteq Leases
  BY DEF AgentInv, TypeOK
<1>2. thread'[t].pc \in Ending => ~IsLive(thread[t].id)'
  BY DEF IsLive, IsTerminal
<1>3. \A l \in DOMAIN lease :
        lease'[l].status \in {"active", "paused"} => box'[l] \in {"running", "frozen"}
  BY <1>1 DEF AgentInv, LiveLeaseHasContainer
<1>4. QED
  BY <1>2, <1>3 DEF SafeStep, OverStaysOver

\* The variables a goroutine at work reads are typed.
LEMMA AtWork ==
  ASSUME AgentInv, NEW t \in Threads, thread[t].pc \notin {"idle", "claim"}
  PROVE  /\ thread[t].id \in DOMAIN lease /\ thread[t].id \in Leases
         /\ Of(t) \in LeaseRecord /\ Of(t) = lease[thread[t].id]
         /\ clock \in Nat /\ thread[t].amount \in Nat
         /\ thread[t].pc \in Ending => IsTerminal(Of(t))
BY AgentAssumption DEF AgentInv, TypeOK, Of, IsLive, Goroutine

\* A length and a chunk make a natural number of seconds.
LEMMA SecondsType ==
  /\ OpeningSeconds \in Nat /\ Price * OpeningSeconds \in Nat
  /\ \A l \in LeaseRecord : TopUpSeconds(l) \in Nat /\ l.price * TopUpSeconds(l) \in Nat
<1>1. OpeningSeconds \in Nat /\ SessionSeconds \in Nat /\ Chunk \in Nat
  BY AgentAssumption DEF OpeningSeconds
<1>2. Price * OpeningSeconds \in Nat
  BY <1>1, AmountType, PriceAssumption
<1>3. ASSUME NEW l \in LeaseRecord
      PROVE  TopUpSeconds(l) \in Nat /\ l.price * TopUpSeconds(l) \in Nat
  <2>1. l.sessionSeconds \in Nat /\ l.burned + l.credit \in Nat /\ l.price \in Nat
    BY DEF LeaseRecord
  <2>2. PaidSeconds(l) \in Nat
    BY <2>1 DEF PaidSeconds
  <2>3. UnpaidSeconds(l) \in Nat
    BY <2>1, <2>2 DEF UnpaidSeconds
  <2>4. TopUpSeconds(l) \in Nat
    BY <1>1, <2>3 DEF TopUpSeconds
  <2>5. QED
    BY <2>1, <2>4, AmountType
<1>4. QED
  BY <1>1, <1>2, <1>3

\* A fault is counted.
LEMMA FaultEffect ==
  ASSUME TypeOK, NEW kind, Fault(kind)
  PROVE  faults' \in 0..MaxFaults
BY AgentAssumption DEF TypeOK, Fault

-----------------------------------------------------------------------------
(* The shapes an action can have.                                          *)

\* A goroutine moves, and at most the tunnel, the payments, the count of
\* failures and whether a container is frozen change with it.
LEMMA QuietStep ==
  ASSUME AgentInv, NEW t \in Threads,
         thread' \in [Threads -> Goroutine], OthersStay(t),
         thread'[t].pc \notin {"idle", "claim"} => thread'[t].id \in DOMAIN lease,
         thread'[t].pc \in Ending => ~IsLive(thread'[t].id),
         UNCHANGED <<lease, slot, clock, returned>>,
         box' \in [Leases -> {"none", "running", "frozen", "gone"}],
         \A l \in Leases : box'[l] = box[l] \/ (box[l] \in {"running", "frozen"}
                                                /\ box'[l] \in {"running", "frozen"}),
         tunnel' \in DOMAIN lease \cup {NoLease},
         faults' \in 0..MaxFaults, paid' \in [Leases -> Nat]
  PROVE  TypeOK' /\ SafeStep(t)
<1>1. TypeOK'
  BY DEF AgentInv, TypeOK
<1>2. SafeStep(t)
  BY MovesOn
<1>3. QED
  BY <1>1, <1>2

\* A goroutine writes the lease it works on and moves on.  It may end the lease
\* and never revives it, and a lease it leaves running has its container.
LEMMA LeaseStep ==
  ASSUME AgentInv, NEW t \in Threads, thread[t].pc \notin {"idle", "claim"},
         thread' \in [Threads -> Goroutine], OthersStay(t),
         NEW record \in LeaseRecord, Update(t, record),
         IsTerminal(Of(t)) => record.status = Of(t).status,
         record.status \in {"active", "paused"} => box[thread[t].id] \in {"running", "frozen"},
         thread'[t].pc = "idle" \/ thread'[t].id = thread[t].id,
         thread'[t].pc \in Ending => IsTerminal(record),
         UNCHANGED <<slot, box, tunnel, clock, paid, returned>>,
         faults' \in 0..MaxFaults
  PROVE  TypeOK' /\ SafeStep(t)
<1>1. /\ TypeOK /\ thread[t].id \in DOMAIN lease /\ Of(t) = lease[thread[t].id]
  BY AtWork DEF AgentInv
<1>2. /\ DOMAIN lease' = DOMAIN lease
      /\ lease' \in [DOMAIN lease' -> LeaseRecord]
      /\ lease'[thread[t].id] = record
      /\ \A l \in DOMAIN lease : l # thread[t].id => lease'[l] = lease[l]
  BY <1>1, UpdateEffect
<1>3. TypeOK'
  BY <1>1, <1>2 DEF TypeOK
<1>4. OverStaysOver
  BY <1>1, <1>2 DEF OverStaysOver
<1>5. \A l \in DOMAIN lease :
        lease'[l].status \in {"active", "paused"} => box'[l] \in {"running", "frozen"}
  BY <1>1, <1>2 DEF AgentInv, LiveLeaseHasContainer
<1>6. thread'[t].pc \in Ending => ~IsLive(thread[t].id)'
  BY <1>1, <1>2 DEF IsLive, Ending
<1>7. thread'[t].pc \notin {"idle", "claim"} => thread'[t].id \in DOMAIN lease
  BY <1>1
<1>8. QED
  BY <1>2, <1>3, <1>4, <1>5, <1>6, <1>7 DEF SafeStep

-----------------------------------------------------------------------------
(* Every action but ClaimSlot and Tick is a safe step of its goroutine.    *)

\* Each step of each handler is a safe step, one lemma for each kind of step.
LEMMA CreateSessionSafe ==
  ASSUME AgentInv, NEW r \in Requests, CreateSession(r)
  PROVE  TypeOK' /\ SafeStep(r)
<1>1. TypeOK /\ r \in Threads /\ "claim" \in Pc /\ "create" \in Op
  BY DEF AgentInv, Pc, Op, Threads
<1>2. Begin(r, "claim", "create", NoLease, 0)
  BY DEF CreateSession
<1>3. /\ thread' \in [Threads -> Goroutine] /\ OthersStay(r) /\ thread'[r].pc = "claim"
  BY <1>1, <1>2, BeginEffect
<1>4. QED
  BY <1>1, <1>3, QuietStep DEF CreateSession, TypeOK, Ending

LEMMA ClaimRefusedSafe ==
  ASSUME AgentInv, NEW r \in Requests, ClaimRefused(r)
  PROVE  TypeOK' /\ SafeStep(r)
<1>1. TypeOK /\ r \in Threads
  BY DEF AgentInv, Threads
<1>2. /\ thread' \in [Threads -> Goroutine] /\ OthersStay(r) /\ thread'[r].pc = "idle"
  BY <1>1, ReturnEffect DEF ClaimRefused
<1>3. QED
  BY <1>1, <1>2, QuietStep DEF ClaimRefused, TypeOK, Ending

\* The calls of the opening that leave the lease alone.
LEMMA OpeningCallsSafe ==
  ASSUME AgentInv, NEW r \in Requests,
         PointAt(r) \/ Reachable(r) \/ PublishFails(r) \/ Settle(r) \/ SettleFails(r)
  PROVE  TypeOK' /\ SafeStep(r)
<1>1. TypeOK /\ r \in Threads /\ {"reach", "settle", "end", "meter"} \subseteq Pc \ Ending
  BY DEF AgentInv, Threads, Pc, Ending
<1>2. thread[r].id \in DOMAIN lease /\ Price * OpeningSeconds \in Nat
  BY <1>1, AtWork, SecondsType DEF At, PointAt, Reachable, PublishFails, Settle, SettleFails
<1>3. PICK pc \in {"reach", "settle", "end", "meter"} : GoTo(r, pc)
  BY DEF PointAt, Reachable, PublishFails, Settle, SettleFails
<1>4. /\ thread' \in [Threads -> Goroutine] /\ OthersStay(r)
      /\ thread'[r].pc = pc /\ thread'[r].id = thread[r].id
  BY <1>1, <1>3, GoToEffect
<1>5. UNCHANGED <<lease, slot, box, clock, returned>>
  BY DEF PointAt, Reachable, PublishFails, Settle, SettleFails
<1>6. faults' \in 0..MaxFaults
  BY <1>1, FaultEffect
     DEF TypeOK, PointAt, Reachable, PublishFails, Settle, SettleFails, Unanswered
<1>7. tunnel' \in DOMAIN lease \cup {NoLease}
  BY <1>1, <1>2 DEF TypeOK, PointAt, Reachable, PublishFails, Settle, SettleFails
<1>8. paid' \in [Leases -> Nat]
  <2>1. paid' = paid \/ paid' = [paid EXCEPT ![thread[r].id] = @ + Price * OpeningSeconds]
    BY DEF PointAt, Reachable, PublishFails, Settle, SettleFails
  <2>2. paid \in [Leases -> Nat]
    BY <1>1 DEF TypeOK
  <2> DEFINE amount == Price * OpeningSeconds
  <2>3. amount \in Nat /\ (paid' = paid \/ paid' = [paid EXCEPT ![thread[r].id] = @ + amount])
    BY <1>2, <2>1
  <2> HIDE DEF amount
  <2>4. QED
    BY <2>2, <2>3
<1>9. QED
  BY <1>1, <1>2, <1>4, <1>5, <1>6, <1>7, <1>8, QuietStep DEF TypeOK

\* Work begins on the lease in the slot.
LEMMA BeginSafe ==
  ASSUME AgentInv, NEW t \in Threads, slot # NoLease,
         NEW pc \in {"pay", "burn", "end", "debt", "tick", "judge"},
         NEW op \in Op, NEW amount \in Nat, Begin(t, pc, op, slot, amount),
         pc = "debt" => IsTerminal(lease[slot]),
         UNCHANGED <<lease, slot, box, tunnel, clock, faults, paid, returned>>
  PROVE  TypeOK' /\ SafeStep(t)
<1>1. TypeOK /\ slot \in DOMAIN lease /\ slot \in Leases /\ pc \in Pc
  BY DEF AgentInv, TypeOK, Pc
<1>2. /\ thread' \in [Threads -> Goroutine] /\ OthersStay(t)
      /\ thread'[t].pc = pc /\ thread'[t].id = slot
  BY <1>1, BeginEffect
<1>3. thread'[t].pc \in Ending => ~IsLive(thread'[t].id)
  BY <1>2 DEF Ending, IsLive
<1>4. QED
  BY <1>1, <1>2, <1>3, QuietStep DEF TypeOK

LEMMA TopUpSessionSafe ==
  ASSUME AgentInv, NEW r \in Requests, TopUpSession(r)
  PROVE  TypeOK' /\ SafeStep(r)
<1> DEFINE amount == lease[slot].price * TopUpSeconds(lease[slot])
<1>1. slot # NoLease /\ lease[slot] \in LeaseRecord
  BY DEF AgentInv, TypeOK, TopUpSession, SlotTaken
<1>2. amount \in Nat
  BY <1>1, SecondsType
<1>3. Begin(r, "pay", "topup", slot, amount) /\ r \in Threads /\ "topup" \in Op
  BY DEF TopUpSession, Threads, Op
<1>4. UNCHANGED <<lease, slot, box, tunnel, clock, faults, paid, returned>>
  BY DEF TopUpSession
<1> HIDE DEF amount
<1>5. QED
  BY <1>1, <1>2, <1>3, <1>4, BeginSafe

LEMMA StopSafe ==
  ASSUME AgentInv, NEW t \in Threads, slot # NoLease,
         Begin(t, AfterStop(lease[slot]), "stop", slot, 0),
         UNCHANGED <<lease, slot, box, tunnel, clock, faults, paid, returned>>
  PROVE  TypeOK' /\ SafeStep(t)
<1>1. AfterStop(lease[slot]) \in {"burn", "end"} /\ "stop" \in Op
  BY DEF AfterStop, Op
<1>2. QED
  BY <1>1, BeginSafe

LEMMA SweepLeasesSafe ==
  ASSUME AgentInv, SweepLeases
  PROVE  TypeOK' /\ SafeStep(Sweep)
<1> DEFINE l == lease[slot]
           pc == IF IsTerminal(l) THEN "debt"
                 ELSE IF l.metered /\ l.status = "active" THEN "tick" ELSE "judge"
<1>1. /\ slot # NoLease /\ Begin(Sweep, pc, "sweep", slot, 0)
      /\ UNCHANGED <<lease, slot, box, tunnel, clock, faults, paid, returned>>
  BY DEF SweepLeases
<1>2. pc \in {"debt", "tick", "judge"} /\ (pc = "debt" => IsTerminal(lease[slot]))
  OBVIOUS
<1>3. Sweep \in Threads /\ "sweep" \in Op
  BY DEF Threads, Op
<1> HIDE DEF pc
<1>4. QED
  BY <1>1, <1>2, <1>3, BeginSafe

\* A payment is made, or is not.
LEMMA PaymentSafe ==
  ASSUME AgentInv, NEW r \in Requests, Pay(r) \/ PayFails(r)
  PROVE  TypeOK' /\ SafeStep(r)
<1>1. TypeOK /\ r \in Threads /\ "bank" \in Pc \ Ending
  BY DEF AgentInv, Threads, Pc, Ending
<1>2. thread[r].id \in DOMAIN lease /\ thread[r].amount \in Nat
  BY <1>1, AtWork DEF At, Pay, PayFails
<1>3. GoTo(r, "bank") \/ Return(r)
  BY DEF Pay, PayFails
<1>4. /\ thread' \in [Threads -> Goroutine] /\ OthersStay(r)
      /\ thread'[r].pc \in {"bank", "idle"}
      /\ thread'[r].pc = "bank" => thread'[r].id = thread[r].id
  BY <1>1, <1>3, GoToEffect, ReturnEffect
<1>5. faults' \in 0..MaxFaults
  BY <1>1, FaultEffect DEF TypeOK, Pay, PayFails
<1>6. paid' \in [Leases -> Nat]
  BY <1>1, <1>2 DEF TypeOK, Pay, PayFails
<1>7. UNCHANGED <<lease, slot, box, tunnel, clock, returned>>
  BY DEF Pay, PayFails
<1>8. QED
  BY <1>1, <1>2, <1>4, <1>5, <1>6, <1>7, QuietStep DEF TypeOK, Ending

\* Docker freezes or thaws the container, or does not.
LEMMA FreezingSafe ==
  ASSUME AgentInv, NEW t \in Threads, Return(t),
         LET id == thread[t].id
         IN  \/ box' = box
             \/ box' = IF box[id] = "frozen" THEN [box EXCEPT ![id] = "running"] ELSE box
             \/ box' = IF box[id] = "running" THEN [box EXCEPT ![id] = "frozen"] ELSE box,
         faults' \in 0..MaxFaults,
         UNCHANGED <<lease, slot, tunnel, clock, paid, returned>>
  PROVE  TypeOK' /\ SafeStep(t)
<1>1. TypeOK
  BY DEF AgentInv
<1>2. /\ thread' \in [Threads -> Goroutine] /\ OthersStay(t) /\ thread'[t].pc = "idle"
  BY <1>1, ReturnEffect
<1>3. /\ box' \in [Leases -> {"none", "running", "frozen", "gone"}]
      /\ \A l \in Leases : box'[l] = box[l] \/ (box[l] \in {"running", "frozen"}
                                                /\ box'[l] \in {"running", "frozen"})
  BY <1>1 DEF TypeOK
<1>4. QED
  BY <1>1, <1>2, <1>3, QuietStep DEF TypeOK, Ending

LEMMA ThawingSafe ==
  ASSUME AgentInv, NEW r \in Requests, Unpause(r) \/ UnpauseFails(r)
  PROVE  TypeOK' /\ SafeStep(r)
<1>1. TypeOK /\ r \in Threads
  BY DEF AgentInv, Threads
<1>2. faults' \in 0..MaxFaults
  BY <1>1, FaultEffect DEF TypeOK, Unpause, UnpauseFails
<1>3. QED
  BY <1>1, <1>2, FreezingSafe DEF Unpause, UnpauseFails

LEMMA FreezeSafe ==
  ASSUME AgentInv, Freeze \/ FreezeFails
  PROVE  TypeOK' /\ SafeStep(Sweep)
<1>1. TypeOK /\ Sweep \in Threads
  BY DEF AgentInv, Threads
<1>2. faults' \in 0..MaxFaults
  BY <1>1, FaultEffect DEF TypeOK, Freeze, FreezeFails
<1>3. QED
  BY <1>1, <1>2, FreezingSafe DEF Freeze, FreezeFails

\* A goroutine that ends a lease, having seen it over.
LEMMA EndingSafe ==
  ASSUME AgentInv, NEW t \in Threads, Clear(t) \/ CheckDebt(t)
  PROVE  TypeOK' /\ SafeStep(t)
<1>1. TypeOK /\ {"debt", "owed"} \subseteq Pc
  BY DEF AgentInv, Pc
<1>2. thread[t].id \in DOMAIN lease /\ ~IsLive(thread[t].id)
  BY <1>1, AtWork DEF At, Clear, CheckDebt, Ending, IsLive, AgentInv
<1>3. Return(t) \/ \E pc \in {"debt", "owed"} : GoTo(t, pc)
  BY DEF Clear, CheckDebt
<1>4. /\ thread' \in [Threads -> Goroutine] /\ OthersStay(t)
      /\ thread'[t].pc = "idle" \/ thread'[t].id = thread[t].id
  BY <1>1, <1>3, GoToEffect, ReturnEffect
<1>5. UNCHANGED <<lease, slot, box, clock, faults, paid, returned>>
  BY DEF Clear, CheckDebt
<1>6. tunnel' \in {tunnel, NoLease}
  BY DEF Clear, CheckDebt
<1>7. QED
  BY <1>1, <1>2, <1>4, <1>5, <1>6, QuietStep DEF TypeOK, Ending

LEMMA JudgeSafe ==
  ASSUME AgentInv, Judge
  PROVE  TypeOK' /\ SafeStep(Sweep)
<1>1. TypeOK /\ Sweep \in Threads /\ {"end", "pause"} \subseteq Pc \ Ending
  BY DEF AgentInv, Threads, Pc, Ending
<1>2. thread[Sweep].id \in DOMAIN lease
  BY <1>1, AtWork DEF At, Judge
<1>3. Verdict(Of(Sweep)) \in {"end", "pause", "idle"}
  BY DEF Verdict
<1>4. Return(Sweep) \/ \E pc \in {"end", "pause"} : GoTo(Sweep, pc)
  BY <1>3 DEF Judge
<1>5. /\ thread' \in [Threads -> Goroutine] /\ OthersStay(Sweep)
      /\ thread'[Sweep].pc \in {"idle", "end", "pause"}
      /\ thread'[Sweep].pc = "idle" \/ thread'[Sweep].id = thread[Sweep].id
  BY <1>1, <1>4, GoToEffect, ReturnEffect
<1>6. QED
  BY <1>1, <1>2, <1>5, QuietStep DEF Judge, TypeOK, Ending

\* The debt is read.
LEMMA ReadDebtSafe ==
  ASSUME AgentInv, NEW t \in Threads, ReadDebt(t)
  PROVE  TypeOK' /\ SafeStep(t)
<1>1. TypeOK /\ thread[t].pc \notin {"idle", "claim"} /\ thread[t].pc \in Ending
      /\ {"mark", "refund"} \subseteq Pc
  BY DEF AgentInv, ReadDebt, At, Ending, Pc
<1>2. /\ thread[t].id \in DOMAIN lease /\ ~IsLive(thread[t].id)
      /\ Of(t) \in LeaseRecord
  BY <1>1, AtWork DEF AgentInv
<1>3. UNCHANGED <<lease, slot, box, tunnel, clock, faults, paid, returned>>
  BY DEF ReadDebt
<1>4. PICK pc \in {"mark", "refund"} :
        thread' = [thread EXCEPT ![t].pc = pc, ![t].amount = Of(t).credit]
  BY DEF ReadDebt
<1>5. Of(t).credit \in Nat
  BY <1>2 DEF LeaseRecord
<1>6. /\ thread' \in [Threads -> Goroutine] /\ OthersStay(t)
      /\ thread'[t].id = thread[t].id
  BY <1>1, <1>4, <1>5 DEF TypeOK, Goroutine, OthersStay
<1>7. QED
  BY <1>1, <1>2, <1>3, <1>6, QuietStep DEF TypeOK

\* The meter's methods leave the status alone, so whoever calls them, and
\* however late, the lease is as live as it was.
LEMMA LedgerStep ==
  ASSUME AgentInv, NEW t \in Threads, thread[t].pc \notin {"idle", "claim"},
         NEW record \in LeaseRecord, Update(t, record), record.status = Of(t).status,
         Return(t) \/ \E pc \in {"thaw", "end", "judge"} : GoTo(t, pc),
         UNCHANGED <<slot, box, tunnel, clock, faults, paid, returned>>
  PROVE  TypeOK' /\ SafeStep(t)
<1>1. TypeOK /\ {"thaw", "end", "judge"} \subseteq Pc \ Ending
  BY DEF AgentInv, Pc, Ending
<1>2. thread[t].id \in DOMAIN lease /\ Of(t) = lease[thread[t].id]
  BY AtWork
<1>3. /\ thread' \in [Threads -> Goroutine] /\ OthersStay(t)
      /\ thread'[t].pc \in {"idle", "thaw", "end", "judge"}
      /\ thread'[t].pc = "idle" \/ thread'[t].id = thread[t].id
  BY <1>1, GoToEffect, ReturnEffect
<1>4. record.status \in {"active", "paused"} => box[thread[t].id] \in {"running", "frozen"}
  BY <1>2 DEF AgentInv, LiveLeaseHasContainer
<1>5. QED
  BY <1>1, <1>3, <1>4, LeaseStep DEF TypeOK, Ending

LEMMA MeterSafe ==
  ASSUME AgentInv, NEW r \in Requests, Meter(r)
  PROVE  TypeOK' /\ SafeStep(r)
<1>1. r \in Threads /\ thread[r].pc \notin {"idle", "claim"}
  BY DEF Threads, Meter, At
<1>2. Of(r) \in LeaseRecord /\ clock \in Nat /\ SessionSeconds \in Nat
  BY <1>1, AtWork, AgentAssumption
<1> DEFINE amount == Price * OpeningSeconds
           record == MarkMetered(Of(r), SessionSeconds, amount, clock)
<1>3. amount \in Nat
  BY SecondsType
<1>4. /\ Update(r, record) /\ Return(r)
      /\ UNCHANGED <<slot, box, tunnel, clock, faults, paid, returned>>
  BY DEF Meter
<1> HIDE DEF amount
<1>5. record \in LeaseRecord /\ record.status = Of(r).status
  BY <1>2, <1>3, MethodsKeep
<1> HIDE DEF record
<1>6. QED
  BY <1>1, <1>4, <1>5, LedgerStep

LEMMA BankSafe ==
  ASSUME AgentInv, NEW r \in Requests, Bank(r)
  PROVE  TypeOK' /\ SafeStep(r)
<1>1. r \in Threads /\ thread[r].pc \notin {"idle", "claim"}
  BY DEF Threads, Bank, At
<1>2. Of(r) \in LeaseRecord /\ clock \in Nat /\ thread[r].amount \in Nat
  BY <1>1, AtWork
<1>3. /\ AddCredit(Of(r), thread[r].amount) \in LeaseRecord
      /\ AddCredit(Of(r), thread[r].amount).status = Of(r).status
  BY <1>2, MethodsKeep
<1>4. QED
  BY <1>1, <1>3, LedgerStep DEF Bank

\* The last charge of a lease about to end, and the sweep's tick.
LEMMA BurnSafe ==
  ASSUME AgentInv, NEW t \in Threads, FinalBurn(t) \/ (t = Sweep /\ TickMeter)
  PROVE  TypeOK' /\ SafeStep(t)
<1>1. thread[t].pc \notin {"idle", "claim"} /\ Update(t, Burn(Of(t), clock))
      /\ (GoTo(t, "end") \/ GoTo(t, "judge"))
  BY DEF FinalBurn, TickMeter, At
<1>2. Of(t) \in LeaseRecord /\ clock \in Nat
  BY <1>1, AtWork
<1>3. Burn(Of(t), clock) \in LeaseRecord /\ Burn(Of(t), clock).status = Of(t).status
  BY <1>2, BurnKeeps
<1>4. QED
  BY <1>1, <1>3, LedgerStep DEF FinalBurn, TickMeter

LEMMA MarkSafe ==
  ASSUME AgentInv, NEW t \in Threads, Mark(t)
  PROVE  TypeOK' /\ SafeStep(t)
<1>1. thread[t].pc \notin {"idle", "claim"}
  BY DEF Mark, At
<1>2. Of(t) \in LeaseRecord /\ thread[t].amount \in Nat
  BY <1>1, AtWork
<1>3. /\ MarkSettled(Of(t), thread[t].amount) \in LeaseRecord
      /\ MarkSettled(Of(t), thread[t].amount).status = Of(t).status
  BY <1>2, MethodsKeep
<1>4. QED
  BY <1>1, <1>3, LedgerStep DEF Mark

LEMMA AnsweringSafe ==
  ASSUME AgentInv, NEW r \in Requests, Answering(r)
  PROVE  TypeOK' /\ SafeStep(r)
<1>1. /\ TypeOK /\ r \in Threads /\ "publish" \in Pc \ Ending /\ "active" \in Status
      /\ thread[r].pc \notin {"idle", "claim"}
  BY DEF AgentInv, Threads, Pc, Ending, Status, Live, Answering, At
<1> DEFINE record == SetStatus(Of(r), "active")
<1>2. /\ Of(r) \in LeaseRecord /\ record \in LeaseRecord
      /\ IsTerminal(Of(r)) => record.status = Of(r).status
  BY <1>1, AtWork, StatusMoves
<1>3. /\ thread' \in [Threads -> Goroutine] /\ OthersStay(r)
      /\ thread'[r].pc = "publish" /\ thread'[r].id = thread[r].id
  BY <1>1, GoToEffect DEF Answering
<1>4. /\ box[thread[r].id] = "running" /\ Update(r, record)
      /\ UNCHANGED <<slot, box, tunnel, clock, faults, paid, returned>>
  BY DEF Answering
<1> HIDE DEF record
<1>5. QED
  BY <1>1, <1>2, <1>3, <1>4, LeaseStep DEF TypeOK

\* A lease is put in a final status.
LEMMA FinalStep ==
  ASSUME AgentInv, NEW t \in Threads, thread[t].pc \notin {"idle", "claim"},
         NEW status \in Terminal, Update(t, SetStatus(Of(t), status)),
         thread' \in [Threads -> Goroutine], OthersStay(t), thread'[t].id = thread[t].id,
         UNCHANGED <<slot, box, tunnel, clock, paid, returned>>,
         faults' \in 0..MaxFaults
  PROVE  TypeOK' /\ SafeStep(t)
<1> DEFINE record == SetStatus(Of(t), status)
<1>1. /\ record \in LeaseRecord
      /\ record.status = IF IsTerminal(Of(t)) THEN Of(t).status ELSE status
  BY AtWork, StatusMoves DEF Status
<1>2. IsTerminal(record) /\ record.status \notin {"active", "paused"}
  BY <1>1 DEF IsTerminal, Terminal
<1>3. Update(t, record)
  OBVIOUS
<1> HIDE DEF record
<1>4. QED
  BY <1>1, <1>2, <1>3, LeaseStep

LEMMA ProvisionFailsSafe ==
  ASSUME AgentInv, NEW r \in Requests, ProvisionFails(r)
  PROVE  TypeOK' /\ SafeStep(r)
<1>1. /\ TypeOK /\ r \in Threads /\ "reap" \in Pc /\ "abort" \in Op /\ "failed" \in Terminal
      /\ thread[r].pc \notin {"idle", "claim"}
  BY DEF AgentInv, Threads, Pc, Op, Terminal, ProvisionFails, At
<1>2. /\ thread' \in [Threads -> Goroutine] /\ OthersStay(r) /\ thread'[r].id = thread[r].id
  BY <1>1 DEF ProvisionFails, TypeOK, Goroutine, OthersStay
<1>3. faults' \in 0..MaxFaults
  BY <1>1, FaultEffect DEF TypeOK, ProvisionFails, Unanswered
<1>4. QED
  BY <1>1, <1>2, <1>3, FinalStep DEF ProvisionFails

LEMMA StopLeaseSafe ==
  ASSUME AgentInv, NEW t \in Threads, StopLease(t)
  PROVE  TypeOK' /\ SafeStep(t)
<1>1. TypeOK /\ {"clear", "reap"} \subseteq Pc /\ thread[t].pc \notin {"idle", "claim"}
  BY DEF AgentInv, Pc, StopLease, At
<1>2. FinalStatus(thread[t].op) \in Terminal
  BY DEF FinalStatus, Terminal
<1>3. \E pc \in {"clear", "reap"} : GoTo(t, pc)
  BY DEF StopLease
<1>4. /\ thread' \in [Threads -> Goroutine] /\ OthersStay(t) /\ thread'[t].id = thread[t].id
  BY <1>1, <1>3, GoToEffect
<1>5. QED
  BY <1>1, <1>2, <1>4, FinalStep DEF StopLease, TypeOK

\* Freezing and thawing swap the two statuses that have a container behind them.
LEMMA SwapStep ==
  ASSUME AgentInv, NEW t \in Threads, thread[t].pc \notin {"idle", "claim"},
         NEW record \in LeaseRecord, Update(t, record),
         \/ record.status = Of(t).status
         \/ {record.status, Of(t).status} \subseteq {"active", "paused"},
         Return(t) \/ \E pc \in {"unpause", "freeze"} : GoTo(t, pc),
         UNCHANGED <<slot, box, tunnel, clock, faults, paid, returned>>
  PROVE  TypeOK' /\ SafeStep(t)
<1>1. TypeOK /\ {"unpause", "freeze"} \subseteq Pc \ Ending
  BY DEF AgentInv, Pc, Ending
<1>2. thread[t].id \in DOMAIN lease /\ Of(t) = lease[thread[t].id]
  BY AtWork
<1>3. /\ thread' \in [Threads -> Goroutine] /\ OthersStay(t)
      /\ thread'[t].pc \in {"idle", "unpause", "freeze"}
      /\ thread'[t].pc = "idle" \/ thread'[t].id = thread[t].id
  BY <1>1, GoToEffect, ReturnEffect
<1>4. record.status \in {"active", "paused"} => box[thread[t].id] \in {"running", "frozen"}
  BY <1>2 DEF AgentInv, LiveLeaseHasContainer
<1>5. IsTerminal(Of(t)) => record.status = Of(t).status
  BY DEF IsTerminal, Terminal
<1>6. QED
  BY <1>1, <1>3, <1>4, <1>5, LeaseStep DEF TypeOK, Ending

LEMMA ThawSafe ==
  ASSUME AgentInv, NEW r \in Requests, Thaw(r)
  PROVE  TypeOK' /\ SafeStep(r)
<1>1. r \in Threads /\ thread[r].pc \notin {"idle", "claim"} /\ "active" \in Status
  BY DEF Threads, Thaw, At, Status, Live
<1>2. /\ Resume(Of(r), clock) \in LeaseRecord
      /\ Resume(Of(r), clock).status = IF Of(r).status = "paused" THEN "active" ELSE Of(r).status
  BY <1>1, AtWork, StatusMoves
<1>3. QED
  BY <1>1, <1>2, SwapStep DEF Thaw

LEMMA PauseLeaseSafe ==
  ASSUME AgentInv, PauseLease
  PROVE  TypeOK' /\ SafeStep(Sweep)
<1>1. Sweep \in Threads /\ thread[Sweep].pc \notin {"idle", "claim"} /\ "active" \in Status
  BY DEF Threads, PauseLease, At, Status, Live
<1>2. /\ Pause(Of(Sweep), clock) \in LeaseRecord
      /\ Pause(Of(Sweep), clock).status =
           IF Of(Sweep).status = "active" THEN "paused" ELSE Of(Sweep).status
  BY <1>1, AtWork, StatusMoves
<1>3. QED
  BY <1>1, <1>2, SwapStep DEF PauseLease

LEMMA ProvisionSafe ==
  ASSUME AgentInv, NEW r \in Requests, Provision(r)
  PROVE  TypeOK' /\ SafeStep(r)
<1>1. /\ TypeOK /\ r \in Threads /\ "await" \in Pc \ Ending
      /\ thread[r].pc \notin {"idle", "claim"}
  BY DEF AgentInv, Threads, Pc, Ending, Provision, At
<1>2. /\ thread' \in [Threads -> Goroutine] /\ OthersStay(r)
      /\ thread'[r].pc = "await" /\ thread'[r].id = thread[r].id
  BY <1>1, GoToEffect DEF Provision
<1>3. thread[r].id \in DOMAIN lease
  BY <1>1, AtWork
<1>4. TypeOK'
  BY <1>1, <1>2 DEF TypeOK, Provision
<1>5. \A l \in DOMAIN lease :
        lease'[l].status \in {"active", "paused"} => box'[l] \in {"running", "frozen"}
  BY <1>1 DEF AgentInv, TypeOK, LiveLeaseHasContainer, Provision
<1>6. SafeStep(r)
  BY <1>1, <1>2, <1>3, <1>5 DEF SafeStep, OverStaysOver, Provision
<1>7. QED
  BY <1>4, <1>6

\* The container goes, or does not, and the slot is freed, of a lease that is over.
LEMMA ReapSafe ==
  ASSUME AgentInv, NEW t \in Threads, Reap(t) \/ ReapFails(t)
  PROVE  TypeOK' /\ SafeStep(t)
<1> DEFINE id == thread[t].id
<1>1. TypeOK /\ "clear" \in Pc /\ thread[t].pc \notin {"idle", "claim"} /\ thread[t].pc \in Ending
  BY DEF AgentInv, Pc, Reap, ReapFails, At, Ending
<1>2. id \in DOMAIN lease /\ id \in Leases /\ IsTerminal(lease[id])
  BY <1>1, AtWork
<1>3. Return(t) \/ GoTo(t, "clear")
  BY DEF Reap, ReapFails, AfterReap
<1>4. /\ thread' \in [Threads -> Goroutine] /\ OthersStay(t)
      /\ thread'[t].pc = "idle" \/ thread'[t].id = id
  BY <1>1, <1>3, GoToEffect, ReturnEffect
<1>5. /\ box' = box \/ \E state \in {"gone", "running"} : box' = [box EXCEPT ![id] = state]
      /\ slot' = IF slot = id THEN NoLease ELSE slot
      /\ UNCHANGED <<lease, tunnel, clock, paid, returned>>
  BY DEF Reap, ReapFails, Released
<1>6. faults' \in 0..MaxFaults
  BY <1>1, FaultEffect DEF TypeOK, Reap, ReapFails
<1>7. TypeOK'
  BY <1>1, <1>4, <1>5, <1>6 DEF TypeOK
<1>8. \A l \in DOMAIN lease :
        lease'[l].status \in {"active", "paused"} => box'[l] \in {"running", "frozen"}
  <2>1. lease[id].status \notin {"active", "paused"}
    BY <1>2 DEF IsTerminal, Terminal
  <2>2. QED
    BY <1>1, <1>5, <2>1 DEF AgentInv, TypeOK, LiveLeaseHasContainer
<1>9. \A l \in DOMAIN lease : ~IsTerminal(lease'[l]) => slot' = slot \/ slot' = l
  BY <1>1, <1>2, <1>5 DEF AgentInv, TypeOK, OneLiveLease, IsLive
<1>10. thread'[t].pc \in Ending => ~IsLive(thread[t].id)'
  BY <1>2, <1>4, <1>5 DEF IsLive, Ending
<1>11. QED
  BY <1>2, <1>4, <1>5, <1>7, <1>8, <1>9, <1>10 DEF SafeStep, OverStaysOver

\* Money goes back for a lease that is over, whether or not the node hears of it.
LEMMA RefundSafe ==
  ASSUME AgentInv, NEW t \in Threads, Refund(t) \/ RefundFails(t)
  PROVE  TypeOK' /\ SafeStep(t)
<1> DEFINE id == thread[t].id
<1>1. TypeOK /\ "mark" \in Pc /\ thread[t].pc \notin {"idle", "claim"} /\ thread[t].pc \in Ending
  BY DEF AgentInv, Pc, Refund, RefundFails, At, Ending
<1>2. /\ id \in DOMAIN lease /\ id \in Leases /\ IsTerminal(lease[id])
      /\ thread[t].amount \in Nat
  BY <1>1, AtWork
<1>3. Return(t) \/ GoTo(t, "mark")
  BY DEF Refund, RefundFails
<1>4. /\ thread' \in [Threads -> Goroutine] /\ OthersStay(t)
      /\ thread'[t].pc = "idle" \/ thread'[t].id = id
  BY <1>1, <1>3, GoToEffect, ReturnEffect
<1>5. /\ returned' = returned \/ returned' = [returned EXCEPT ![id] = @ + thread[t].amount]
      /\ UNCHANGED <<lease, slot, box, tunnel, clock, paid>>
  BY DEF Refund, RefundFails
<1>6. faults' \in 0..MaxFaults
  BY <1>1, FaultEffect DEF TypeOK, Refund, RefundFails
<1>7. TypeOK'
  BY <1>1, <1>2, <1>4, <1>5, <1>6 DEF TypeOK
<1>8. \A l \in Leases : returned'[l] = returned[l] \/ (l \in DOMAIN lease /\ IsTerminal(lease[l]))
  BY <1>1, <1>2, <1>5 DEF TypeOK
<1>9. thread'[t].pc \in Ending => ~IsLive(thread[t].id)'
  BY <1>2, <1>4, <1>5 DEF IsLive, Ending
<1>10. QED
  BY <1>2, <1>4, <1>5, <1>7, <1>8, <1>9
     DEF SafeStep, OverStaysOver, AgentInv, LiveLeaseHasContainer

-----------------------------------------------------------------------------
(* The two steps that are no goroutine's progress on an existing lease.    *)

\* The claim is what keeps two renters apart: the slot is looked at and taken
\* under one lock, so nothing else is live when the new lease appears.
LEMMA ClaimSlotKeeps ==
  ASSUME AgentInv, NEW r \in Requests, ClaimSlot(r)
  PROVE  AgentInv' /\ OverStaysOver
<1>1. /\ TypeOK /\ r \in Threads /\ "provision" \in Pc
      /\ lease \in [DOMAIN lease -> LeaseRecord] /\ DOMAIN lease \subseteq Leases
  BY DEF AgentInv, TypeOK, Threads, Pc
<1>2. PICK l \in Leases \ DOMAIN lease :
        /\ lease' = [k \in DOMAIN lease \cup {l} |->
                       IF k = l THEN NewLease(OpeningSeconds, clock) ELSE lease[k]]
        /\ slot' = l
        /\ thread' = [thread EXCEPT ![r].pc = "provision", ![r].id = l]
  BY DEF ClaimSlot
<1>3. UNCHANGED <<box, tunnel, clock, faults, paid, returned>> /\ ~SlotTaken
  BY DEF ClaimSlot
<1> DEFINE new == NewLease(OpeningSeconds, clock)
<1>4. new \in LeaseRecord /\ new.status = "provisioning"
  <2>1. clock \in Nat /\ OpeningSeconds \in Nat
    BY <1>1, SecondsType, AgentAssumption DEF TypeOK
  <2>2. QED
    BY <2>1, NewLeaseType
<1> HIDE DEF new
<1>5. /\ DOMAIN lease' = DOMAIN lease \cup {l}
      /\ lease' \in [DOMAIN lease' -> LeaseRecord]
      /\ lease'[l] = new
      /\ \A k \in DOMAIN lease : lease'[k] = lease[k]
  BY <1>1, <1>2, <1>4 DEF new
<1>6. /\ thread' \in [Threads -> Goroutine] /\ OthersStay(r)
      /\ thread'[r].pc = "provision" /\ thread'[r].id = l
  BY <1>1, <1>2 DEF TypeOK, Goroutine, OthersStay
<1>7. TypeOK'
  BY <1>1, <1>2, <1>3, <1>5, <1>6 DEF TypeOK
<1>8. \A k \in Leases : ~IsLive(k)
  BY <1>3, AgentAssumption DEF AgentInv, OneLiveLease, SlotTaken, IsLive
<1>9. \A k \in DOMAIN lease : ~IsLive(k)'
  BY <1>1, <1>5, <1>8 DEF IsLive
<1>10. \A u \in Threads :
        /\ thread'[u].pc \notin {"idle", "claim"} => thread'[u].id \in DOMAIN lease'
        /\ thread'[u].pc \in Ending => ~IsLive(thread[u].id)'
  <2> SUFFICES ASSUME NEW u \in Threads
               PROVE  /\ thread'[u].pc \notin {"idle", "claim"} => thread'[u].id \in DOMAIN lease'
                      /\ thread'[u].pc \in Ending => ~IsLive(thread[u].id)'
    OBVIOUS
  <2>1. CASE u = r
    BY <1>5, <1>6, <2>1 DEF Ending
  <2>2. CASE u # r
    <3>1. thread'[u] = thread[u]
      BY <1>6, <2>2 DEF OthersStay
    <3>2. thread[u].pc \notin {"idle", "claim"} => thread[u].id \in DOMAIN lease
      BY DEF AgentInv
    <3>3. "idle" \notin Ending /\ "claim" \notin Ending
      BY DEF Ending
    <3>4. QED
      BY <1>5, <1>9, <3>1, <3>2, <3>3
  <2>3. QED
    BY <2>1, <2>2
<1>11. \A k \in Leases : IsLive(k)' => k = l
  BY <1>5, <1>9 DEF IsLive
<1>12. OneLiveLease'
  BY <1>2, <1>11 DEF OneLiveLease
<1>13. LiveLeaseHasContainer'
  BY <1>3, <1>4, <1>5 DEF AgentInv, LiveLeaseHasContainer
<1>14. returned[l] = 0 /\ \A k \in Leases \ DOMAIN lease' : returned'[k] = 0
  BY <1>2, <1>3, <1>5 DEF AgentInv
<1>15. RefundOnlyAfterEnd'
  BY <1>3, <1>11, <1>14 DEF RefundOnlyAfterEnd
<1>16. OverStaysOver
  BY <1>5 DEF OverStaysOver
<1>17. QED
  BY <1>7, <1>10, <1>12, <1>13, <1>14, <1>15, <1>16 DEF AgentInv

\* Time passes, or nothing happens.
LEMMA IdleKeeps ==
  ASSUME AgentInv, Tick \/ UNCHANGED vars
  PROVE  AgentInv' /\ OverStaysOver
<1>1. UNCHANGED <<lease, slot, box, tunnel, thread, faults, paid, returned>>
  BY DEF Tick, vars
<1>2. clock' \in 0..MaxClock
  BY AgentAssumption DEF AgentInv, TypeOK, Tick, vars
<1>3. TypeOK'
  BY <1>1, <1>2 DEF AgentInv, TypeOK
<1>4. QED
  BY <1>1, <1>3 DEF AgentInv, OneLiveLease, LiveLeaseHasContainer, RefundOnlyAfterEnd,
                    IsLive, OverStaysOver

-----------------------------------------------------------------------------
(* The invariant, and what it carries.                                     *)

LEMMA InitAgentInv == Init => AgentInv
<1> SUFFICES ASSUME Init PROVE AgentInv
  OBVIOUS
<1>1. DOMAIN lease = {}
  BY DEF Init
<1>2. TypeOK
  BY <1>1, AgentAssumption DEF Init, TypeOK, Goroutine, Idle, Pc, Op
<1>3. \A t \in Threads : thread[t].pc = "idle"
  BY DEF Init, Idle
<1>4. QED
  BY <1>1, <1>2, <1>3
     DEF Init, AgentInv, OneLiveLease, LiveLeaseHasContainer, RefundOnlyAfterEnd, IsLive, Ending

\* Every step is a claim, the passing of time, or a safe step of some goroutine.
LEMMA NextAgentInv ==
  ASSUME AgentInv, [Next]_vars
  PROVE  AgentInv' /\ OverStaysOver
<1>1. ASSUME NEW t \in Threads, TypeOK' /\ SafeStep(t)
      PROVE  AgentInv' /\ OverStaysOver
  BY <1>1, SafeStepKeeps DEF SafeStep
<1>2. ASSUME NEW r \in Requests, CreateSession(r) \/ TopUpSession(r) \/ StopSession(r)
      PROVE  TypeOK' /\ SafeStep(r)
  <2>1. CASE StopSession(r)
    BY <2>1, StopSafe DEF StopSession, Threads
  <2>2. QED
    BY <1>2, <2>1, CreateSessionSafe, TopUpSessionSafe
<1>3. CASE EndLease
  <2>1. Owner \in Threads /\ slot # NoLease
    BY <1>3 DEF Threads, EndLease, SlotTaken
  <2>2. TypeOK' /\ SafeStep(Owner)
    BY <1>3, <2>1, StopSafe DEF EndLease
  <2>3. QED
    BY <1>1, <2>1, <2>2
<1>4. Requests \subseteq Threads /\ Sweep \in Threads
  BY DEF Threads
<1>5. ASSUME NEW r \in Requests, CreateStep(r)
      PROVE  AgentInv' /\ OverStaysOver
  <2>1. CASE ClaimSlot(r)
    BY <2>1, ClaimSlotKeeps
  <2>2. CASE ~ClaimSlot(r)
    <3>1. TypeOK' /\ SafeStep(r)
      BY <1>5, <2>2, ClaimRefusedSafe, ProvisionSafe, AnsweringSafe, ProvisionFailsSafe,
         OpeningCallsSafe, MeterSafe DEF CreateStep
    <3>2. QED
      BY <1>1, <1>4, <3>1
  <2>3. QED
    BY <2>1, <2>2
<1>6. ASSUME NEW r \in Requests, TopUpStep(r)
      PROVE  TypeOK' /\ SafeStep(r)
  BY <1>6, PaymentSafe, BankSafe, ThawSafe, ThawingSafe DEF TopUpStep
<1>7. ASSUME NEW t \in Threads, EndStep(t)
      PROVE  TypeOK' /\ SafeStep(t)
  BY <1>7, BurnSafe, StopLeaseSafe, ReapSafe, EndingSafe, ReadDebtSafe, RefundSafe, MarkSafe
     DEF EndStep
<1>8. CASE SweepStep
  <2>1. TypeOK' /\ SafeStep(Sweep)
    BY <1>4, <1>8, BurnSafe, JudgeSafe, PauseLeaseSafe, FreezeSafe DEF SweepStep
  <2>2. QED
    BY <1>1, <1>4, <2>1
<1>9. CASE SweepLeases
  BY <1>1, <1>4, <1>9, SweepLeasesSafe
<1>10. CASE Tick \/ UNCHANGED vars
  BY <1>10, IdleKeeps
<1>11. CASE \E r \in Requests : CreateSession(r) \/ TopUpSession(r) \/ StopSession(r)
  BY <1>1, <1>2, <1>4, <1>11
<1>12. CASE ThreadStep
  BY <1>1, <1>4, <1>5, <1>6, <1>7, <1>8, <1>12 DEF ThreadStep
<1>13. QED
  BY <1>3, <1>9, <1>10, <1>11, <1>12 DEF Next

\* The invariant holds in every reachable state, however many goroutines there
\* are and however they interleave.
THEOREM AgentInvHolds == Spec => []AgentInv
<1>1. AgentInv /\ [Next]_vars => AgentInv'
  BY NextAgentInv
<1>2. QED
  BY <1>1, InitAgentInv, PTL DEF Spec

\* The node's state stays well typed.
THEOREM NodeTypeCorrect == Spec => []TypeOK
<1>1. AgentInv => TypeOK
  BY DEF AgentInv
<1>2. QED
  BY <1>1, AgentInvHolds, PTL

\* Two renters never share the node (StartLease, releaseLeaseSlot).
THEOREM OneLiveLeaseHolds == Spec => []OneLiveLease
<1>1. AgentInv => OneLiveLease
  BY DEF AgentInv
<1>2. QED
  BY <1>1, AgentInvHolds, PTL

\* No renter pays for a lease whose container has been taken down.
THEOREM LiveLeaseHasContainerHolds == Spec => []LiveLeaseHasContainer
<1>1. AgentInv => LiveLeaseHasContainer
  BY DEF AgentInv
<1>2. QED
  BY <1>1, AgentInvHolds, PTL

\* No money goes back while its lease is live (settleSession).
THEOREM RefundOnlyAfterEndHolds == Spec => []RefundOnlyAfterEnd
<1>1. AgentInv => RefundOnlyAfterEnd
  BY DEF AgentInv
<1>2. QED
  BY <1>1, AgentInvHolds, PTL

\* A lease that is over stays over (setStatus, fail, StopLease, PauseLease,
\* ResumeLease).
THEOREM TerminalIsFinalHolds == Spec => TerminalIsFinal
<1>1. AgentInv /\ [Next]_vars => [OverStaysOver]_vars
  BY NextAgentInv
<1>2. Spec => [][OverStaysOver]_vars
  BY <1>1, AgentInvHolds, PTL DEF Spec
<1>3. QED
  BY <1>2 DEF TerminalIsFinal, OverStaysOver

-----------------------------------------------------------------------------
(* A live session's books.                                                 *)

\* A ledger nothing has been banked on.
Blank(l) == ~l.metered /\ l.credit = 0 /\ l.burned = 0

\* Why the books stay exact.  A lease is opened by one goroutine, so the meter is
\* set once and on a blank ledger; a top-up is for a lease that is metered, so its
\* payment is not dropped when it is banked.
BooksInv ==
  /\ \A t \in Threads : thread[t].pc \in Opening => Blank(lease[thread[t].id])
  /\ \A t, u \in Threads :
       thread[t].pc \in Opening /\ thread[u].pc \in Opening /\ thread[t].id = thread[u].id => t = u
  /\ \A t \in Threads : thread[t].pc \in {"pay", "bank"} => lease[thread[t].id].metered
  /\ \A l \in Leases \ DOMAIN lease : paid[l] = 0
  /\ LiveBooksExact

\* There are finitely many goroutines to sum over.
LEMMA ThreadsFinite == IsFiniteSet(Threads)
<1>1. IsFiniteSet({Sweep}) /\ IsFiniteSet({Owner})
  BY FS_Singleton
<1>2. Threads = Requests \cup ({Sweep} \cup {Owner})
  BY DEF Threads
<1> QED
  BY <1>1, <1>2, GoroutineAssumption, FS_Union

\* What a goroutine has yet to bank is an amount.
LEMMA UnbankedType ==
  ASSUME TypeOK, NEW l, NEW t \in Threads
  PROVE  Unbanked(l, t) \in Nat
<1>1. Price * OpeningSeconds \in Nat
  BY SecondsType
<1>2. thread[t].amount \in Nat
  BY DEF TypeOK, Goroutine
<1> QED
  BY <1>1, <1>2 DEF Unbanked

\* When one goroutine moves, what is held changes by what it takes or banks.
LEMMA HeldChange ==
  ASSUME TypeOK, TypeOK', NEW t \in Threads, OthersStay(t), NEW l
  PROVE  /\ HeldFor(l) \in Int
         /\ HeldFor(l)' = HeldFor(l) + (Unbanked(l, t)' - Unbanked(l, t))
<1> PICK f : f = [u \in Threads |-> Unbanked(l, u)]
  OBVIOUS
<1> PICK g : g = [u \in Threads |-> Unbanked(l, u)']
  OBVIOUS
<1>1. \A u \in Threads : Unbanked(l, u) \in Nat
  BY UnbankedType
<1>2. ASSUME NEW u \in Threads PROVE Unbanked(l, u)' \in Nat
  <2>1. (Price * OpeningSeconds)' \in Nat
    BY SecondsType DEF OpeningSeconds
  <2>2. thread'[u].amount \in Nat
    BY DEF TypeOK, Goroutine
  <2> QED
    BY <2>1, <2>2 DEF Unbanked
<1>3. \A u \in Threads \ {t} : Unbanked(l, u)' = Unbanked(l, u)
  BY DEF OthersStay, Unbanked, At, OpeningSeconds
<1>4. \A u \in Threads : f[u] = Unbanked(l, u) /\ g[u] = Unbanked(l, u)'
  OBVIOUS
<1>5. \A u \in Threads : f[u] \in Int /\ g[u] \in Int
  BY <1>1, <1>2, <1>4
<1>6. \A u \in Threads \ {t} : g[u] = f[u]
  BY <1>3, <1>4
<1>7. SumFunctionOnSet(g, Threads) = SumFunctionOnSet(f, Threads) + (g[t] - f[t])
  BY ONLY <1>5, <1>6, ThreadsFinite, t \in Threads, SumUpdate
<1>8. SumFunctionOnSet(f, Threads) \in Int
  BY ONLY <1>5, ThreadsFinite, SumInt
<1>9. HeldFor(l) = SumFunctionOnSet(f, Threads) /\ HeldFor(l)' = SumFunctionOnSet(g, Threads)
  BY DEF HeldFor
<1> QED
  BY <1>4, <1>7, <1>8, <1>9

\* What a step of goroutine t does to the books: what it adds to a ledger or holds
\* for it is what the facilitator was paid; no more, and no less unless a payment
\* was reported as failed.
BooksStep(t) ==
  /\ OthersStay(t)
  /\ DOMAIN lease' = DOMAIN lease
  /\ OverStaysOver
  /\ \A l \in DOMAIN lease :
       /\ lease[l].metered => lease'[l].metered
       /\ Blank(lease[l]) => \/ Blank(lease'[l])
                             \/ thread[t].pc = "meter" /\ thread[t].id = l
  /\ thread'[t].pc \in Opening =>
       /\ thread[t].pc \in Opening /\ thread'[t].id = thread[t].id
       /\ Blank(lease'[thread[t].id])
  /\ thread'[t].pc \in {"pay", "bank"} =>
       thread'[t].id \in DOMAIN lease /\ lease'[thread'[t].id].metered
  /\ \A l \in Leases : paid'[l] = paid[l] \/ l \in DOMAIN lease
  /\ \A l \in DOMAIN lease : ~IsTerminal(lease'[l]) =>
       LET gain == (lease'[l].burned + lease'[l].credit) - (lease[l].burned + lease[l].credit)
                     + (Unbanked(l, t)' - Unbanked(l, t))
       IN  /\ gain <= paid'[l] - paid[l]
           /\ "settleLost" \notin Faults => gain = paid'[l] - paid[l]

\* A step that moves the books of one lease as BooksStep says keeps them exact.
LEMMA BooksStepKeeps ==
  ASSUME AgentInv, AgentInv', BooksInv, NEW t \in Threads, BooksStep(t)
  PROVE  BooksInv'
<1>1. /\ TypeOK /\ TypeOK' /\ OthersStay(t) /\ DOMAIN lease' = DOMAIN lease
      /\ lease \in [DOMAIN lease -> LeaseRecord] /\ lease' \in [DOMAIN lease -> LeaseRecord]
      /\ paid \in [Leases -> Nat] /\ paid' \in [Leases -> Nat] /\ DOMAIN lease \subseteq Leases
  BY DEF AgentInv, TypeOK, BooksStep
<1>2. \A u \in Threads : thread[u].pc \notin {"idle", "claim"} => thread[u].id \in DOMAIN lease
  BY DEF AgentInv
<1>3. \A u \in Threads : thread'[u].pc \in Opening => Blank(lease'[thread'[u].id])
  <2> SUFFICES ASSUME NEW u \in Threads, thread'[u].pc \in Opening
               PROVE  Blank(lease'[thread'[u].id])
    OBVIOUS
  <2>1. CASE u = t
    BY <2>1 DEF BooksStep
  <2>2. CASE u # t
    <3>1. thread'[u] = thread[u]
      BY <2>2 DEF BooksStep, OthersStay
    <3>2. thread[u].id \in DOMAIN lease /\ Blank(lease[thread[u].id])
      BY <1>2, <3>1 DEF Opening, BooksInv
    <3>3. ~(thread[t].pc = "meter" /\ thread[t].id = thread[u].id)
      BY <2>2, <3>1 DEF BooksInv, Opening
    <3> QED
      BY <3>1, <3>2, <3>3 DEF BooksStep
  <2> QED
    BY <2>1, <2>2
<1>4. \A u, v \in Threads :
        thread'[u].pc \in Opening /\ thread'[v].pc \in Opening /\ thread'[u].id = thread'[v].id => u = v
  <2>1. \A u \in Threads : thread'[u].pc \in Opening => thread[u].pc \in Opening /\ thread'[u].id = thread[u].id
    BY DEF BooksStep, OthersStay
  <2> QED
    BY <2>1 DEF BooksInv
<1>5. \A u \in Threads : thread'[u].pc \in {"pay", "bank"} => lease'[thread'[u].id].metered
  BY <1>2 DEF BooksStep, OthersStay, BooksInv
<1>6. \A l \in Leases \ DOMAIN lease' : paid'[l] = 0
  BY <1>1 DEF BooksStep, BooksInv
<1>7. LiveBooksExact'
  <2> SUFFICES ASSUME NEW l \in Leases, IsLive(l)'
               PROVE  /\ lease'[l].burned + lease'[l].credit + HeldFor(l)' <= paid'[l]
                      /\ "settleLost" \notin Faults =>
                           lease'[l].burned + lease'[l].credit + HeldFor(l)' = paid'[l]
    BY DEF LiveBooksExact
  <2>1. l \in DOMAIN lease /\ ~IsTerminal(lease'[l]) /\ IsLive(l)
    BY <1>1 DEF IsLive, BooksStep, OverStaysOver, IsTerminal
  <2>2. /\ lease[l].burned + lease[l].credit + HeldFor(l) <= paid[l]
        /\ "settleLost" \notin Faults => lease[l].burned + lease[l].credit + HeldFor(l) = paid[l]
    BY <2>1 DEF BooksInv, LiveBooksExact
  <2>3. HeldFor(l) \in Int /\ HeldFor(l)' = HeldFor(l) + (Unbanked(l, t)' - Unbanked(l, t))
    BY <1>1, HeldChange
  <2>4. Unbanked(l, t) \in Nat
    BY <1>1, UnbankedType
  <2>5. Unbanked(l, t)' \in Nat
    <3>1. (Price * OpeningSeconds)' \in Nat
      BY SecondsType DEF OpeningSeconds
    <3>2. thread'[t].amount \in Nat
      BY <1>1 DEF TypeOK, Goroutine
    <3> QED
      BY <3>1, <3>2 DEF Unbanked
  <2>6. /\ lease[l].burned \in Nat /\ lease[l].credit \in Nat
        /\ lease'[l].burned \in Nat /\ lease'[l].credit \in Nat
        /\ paid[l] \in Nat /\ paid'[l] \in Nat
    BY <1>1, <2>1 DEF LeaseRecord
  <2>7. LET gain == (lease'[l].burned + lease'[l].credit) - (lease[l].burned + lease[l].credit)
                     + (Unbanked(l, t)' - Unbanked(l, t))
        IN  /\ gain <= paid'[l] - paid[l]
            /\ "settleLost" \notin Faults => gain = paid'[l] - paid[l]
    BY <2>1 DEF BooksStep
  <2> QED
    BY <2>2, <2>3, <2>4, <2>5, <2>6, <2>7
<1> QED
  BY <1>3, <1>4, <1>5, <1>6, <1>7 DEF BooksInv

\* A step that pays and banks nothing.
LEMMA CalmStep ==
  ASSUME AgentInv, BooksInv, TypeOK', OverStaysOver, NEW t \in Threads, OthersStay(t), paid' = paid,
         DOMAIN lease' = DOMAIN lease,
         thread[t].pc \notin {"bank", "meter"}, thread'[t].pc \notin {"bank", "meter"},
         thread'[t].pc \in Opening => thread[t].pc \in Opening /\ thread'[t].id = thread[t].id,
         thread'[t].pc = "pay" => thread'[t].id \in DOMAIN lease /\ lease[thread'[t].id].metered,
         \A l \in DOMAIN lease :
           /\ lease'[l].metered = lease[l].metered
           /\ Blank(lease[l]) => Blank(lease'[l])
           /\ ~IsTerminal(lease'[l]) =>
                lease'[l].burned + lease'[l].credit = lease[l].burned + lease[l].credit
  PROVE  BooksStep(t)
<1>1. thread'[t].pc \in Opening => Blank(lease'[thread[t].id])
  BY DEF BooksInv, AgentInv, Opening
<1>2. \A l : Unbanked(l, t) = 0 /\ Unbanked(l, t)' = 0
  BY DEF Unbanked, At
<1>3. /\ \A l \in DOMAIN lease : l \in Leases
      /\ lease \in [DOMAIN lease -> LeaseRecord] /\ lease' \in [DOMAIN lease -> LeaseRecord]
      /\ paid \in [Leases -> Nat]
  BY DEF AgentInv, TypeOK
<1>4. ASSUME NEW l \in DOMAIN lease, ~IsTerminal(lease'[l])
      PROVE  LET gain == (lease'[l].burned + lease'[l].credit) - (lease[l].burned + lease[l].credit)
                     + (Unbanked(l, t)' - Unbanked(l, t))
             IN  /\ gain <= paid'[l] - paid[l]
                 /\ "settleLost" \notin Faults => gain = paid'[l] - paid[l]
  <2>1. /\ lease[l].burned \in Nat /\ lease[l].credit \in Nat
        /\ lease'[l].burned \in Nat /\ lease'[l].credit \in Nat /\ paid[l] \in Nat
    BY <1>3 DEF LeaseRecord
  <2>2. (lease'[l].burned + lease'[l].credit) - (lease[l].burned + lease[l].credit) + (0 - 0) = 0
    BY <1>4, <2>1
  <2> QED
    BY <1>2, <2>1, <2>2
<1> QED
  BY <1>1, <1>4 DEF BooksStep

\* The ledger is left alone.
LEMMA CalmHold ==
  ASSUME AgentInv, BooksInv, TypeOK', NEW t \in Threads, OthersStay(t), UNCHANGED <<lease, paid>>,
         thread[t].pc \notin {"bank", "meter"}, thread'[t].pc \notin {"bank", "meter"},
         thread'[t].pc \in Opening => thread[t].pc \in Opening /\ thread'[t].id = thread[t].id,
         thread'[t].pc = "pay" => thread'[t].id \in DOMAIN lease /\ lease[thread'[t].id].metered
  PROVE  BooksStep(t)
BY CalmStep DEF OverStaysOver

\* The ledger the goroutine works on is written, and no money comes or goes unless
\* the lease is over.
LEMMA CalmWrite ==
  ASSUME AgentInv, BooksInv, TypeOK', OverStaysOver, NEW t \in Threads, OthersStay(t), paid' = paid,
         thread[t].pc \notin {"idle", "claim", "bank", "meter"},
         thread'[t].pc \notin {"bank", "meter", "pay"},
         thread'[t].pc \in Opening => thread[t].pc \in Opening /\ thread'[t].id = thread[t].id,
         NEW record \in LeaseRecord, Update(t, record),
         record.metered = Of(t).metered,
         Blank(Of(t)) => Blank(record),
         IsTerminal(record) \/ record.burned + record.credit = Of(t).burned + Of(t).credit
  PROVE  BooksStep(t)
<1>1. TypeOK /\ thread[t].id \in DOMAIN lease /\ Of(t) = lease[thread[t].id]
  BY AtWork DEF AgentInv
<1>2. /\ DOMAIN lease' = DOMAIN lease
      /\ lease'[thread[t].id] = record
      /\ \A l \in DOMAIN lease : l # thread[t].id => lease'[l] = lease[l]
  BY <1>1, UpdateEffect
<1>3. ASSUME NEW l \in DOMAIN lease
      PROVE  /\ lease'[l].metered = lease[l].metered
             /\ Blank(lease[l]) => Blank(lease'[l])
             /\ ~IsTerminal(lease'[l]) =>
                  lease'[l].burned + lease'[l].credit = lease[l].burned + lease[l].credit
  BY <1>1, <1>2
<1> QED
  BY <1>2, <1>3, CalmStep

\* Requests that begin, and steps that leave ledgers and payments alone.
LEMMA BeginBooks ==
  ASSUME AgentInv, BooksInv, AgentInv', NEW t \in Threads, UNCHANGED <<lease, paid>>,
         NEW pc \in {"claim", "pay", "burn", "end", "debt", "tick", "judge"}, NEW op \in Op,
         NEW id \in DOMAIN lease \cup {NoLease}, NEW amount \in Nat, Begin(t, pc, op, id, amount),
         pc = "pay" => id \in DOMAIN lease /\ lease[id].metered
  PROVE  BooksStep(t)
<1>1. TypeOK /\ TypeOK' /\ pc \in Pc /\ pc \notin Opening /\ id \in Leases \cup {NoLease}
  BY DEF AgentInv, TypeOK, Pc, Opening
<1>2. OthersStay(t) /\ thread'[t].pc = pc /\ thread'[t].id = id /\ thread[t].pc = "idle"
  BY <1>1, BeginEffect DEF Begin, At
<1> QED
  BY <1>1, <1>2, CalmHold

\* Each step of each handler moves the books as BooksStep says, one lemma for each kind.
LEMMA RequestBooks ==
  ASSUME AgentInv, BooksInv, AgentInv', NEW r \in Requests,
         CreateSession(r) \/ TopUpSession(r) \/ StopSession(r)
  PROVE  BooksStep(r)
<1>1. r \in Threads /\ TypeOK /\ {"create", "topup", "stop"} \subseteq Op
  BY DEF Threads, AgentInv, Op
<1>2. CASE CreateSession(r)
  BY <1>1, <1>2, BeginBooks DEF CreateSession
<1>3. CASE TopUpSession(r)
  <2>1. slot \in DOMAIN lease /\ lease[slot] \in LeaseRecord /\ lease[slot].metered
    BY <1>1, <1>3 DEF TypeOK, TopUpSession, SlotTaken
  <2> PICK amount : amount = lease[slot].price * TopUpSeconds(lease[slot])
    OBVIOUS
  <2>2. amount \in Nat
    BY <2>1, SecondsType
  <2>3. Begin(r, "pay", "topup", slot, amount) /\ UNCHANGED <<lease, paid>>
    BY <1>3 DEF TopUpSession
  <2> QED
    BY <1>1, <2>1, <2>2, <2>3, BeginBooks
<1>4. CASE StopSession(r)
  <2>1. AfterStop(lease[slot]) \in {"burn", "end"}
    BY DEF AfterStop
  <2>2. Begin(r, AfterStop(lease[slot]), "stop", slot, 0) /\ UNCHANGED <<lease, paid>>
        /\ slot \in DOMAIN lease
    BY <1>1, <1>4 DEF StopSession, TypeOK
  <2> QED
    BY <1>1, <2>1, <2>2, BeginBooks
<1> QED
  BY <1>2, <1>3, <1>4

LEMMA EndLeaseBooks ==
  ASSUME AgentInv, BooksInv, AgentInv', EndLease
  PROVE  BooksStep(Owner)
<1>1. Owner \in Threads /\ TypeOK /\ "stop" \in Op
  BY DEF Threads, AgentInv, Op
<1>2. AfterStop(lease[slot]) \in {"burn", "end"}
  BY DEF AfterStop
<1>3. Begin(Owner, AfterStop(lease[slot]), "stop", slot, 0) /\ UNCHANGED <<lease, paid>>
      /\ slot \in DOMAIN lease
  BY <1>1 DEF EndLease, TypeOK, SlotTaken
<1> QED
  BY <1>1, <1>2, <1>3, BeginBooks

LEMMA SweepLeasesBooks ==
  ASSUME AgentInv, BooksInv, AgentInv', SweepLeases
  PROVE  BooksStep(Sweep)
<1>1. Sweep \in Threads /\ TypeOK /\ "sweep" \in Op
  BY DEF Threads, AgentInv, Op
<1>2. PICK pc \in {"debt", "tick", "judge"} : Begin(Sweep, pc, "sweep", slot, 0)
  BY DEF SweepLeases
<1>3. UNCHANGED <<lease, paid>> /\ slot \in DOMAIN lease
  BY <1>1 DEF SweepLeases, TypeOK
<1> QED
  BY <1>1, <1>2, <1>3, BeginBooks

\* A goroutine returns or moves on without looking at the ledger.
LEMMA WalkBooks ==
  ASSUME AgentInv, BooksInv, AgentInv', NEW t \in Threads, UNCHANGED <<lease, paid>>,
         thread[t].pc \notin {"bank", "meter"},
         \/ Return(t)
         \/ \E pc \in Pc \ {"bank", "meter", "pay"} :
              GoTo(t, pc) /\ (pc \in Opening => thread[t].pc \in Opening)
  PROVE  BooksStep(t)
<1>1. TypeOK /\ TypeOK'
  BY DEF AgentInv
<1>2. CASE Return(t)
  <2>1. OthersStay(t) /\ thread'[t].pc = "idle"
    BY <1>1, <1>2, ReturnEffect
  <2> QED
    BY <1>1, <2>1, CalmHold DEF Opening
<1>3. ASSUME NEW pc \in Pc \ {"bank", "meter", "pay"}, GoTo(t, pc), pc \in Opening => thread[t].pc \in Opening
      PROVE  BooksStep(t)
  <2>1. OthersStay(t) /\ thread'[t].pc = pc /\ thread'[t].id = thread[t].id
    BY <1>1, <1>3, GoToEffect
  <2> QED
    BY <1>1, <1>3, <2>1, CalmHold
<1> QED
  BY <1>2, <1>3

LEMMA WalkingBooks ==
  ASSUME AgentInv, BooksInv, AgentInv', NEW t \in Threads,
         \/ ClaimRefused(t) \/ Provision(t) \/ PointAt(t) \/ Reachable(t) \/ PublishFails(t)
         \/ Unpause(t) \/ UnpauseFails(t) \/ Reap(t) \/ ReapFails(t) \/ Clear(t) \/ CheckDebt(t)
         \/ Refund(t) \/ RefundFails(t)
  PROVE  BooksStep(t)
<1> DEFINE To == Pc \ {"bank", "meter", "pay"}
<1>0. /\ {"await", "reach", "settle", "end", "clear", "debt", "owed", "mark"} \subseteq To
      /\ {"await", "reach", "settle"} \subseteq Opening
      /\ {"end", "clear", "debt", "owed", "mark"} \cap Opening = {}
      /\ {"provision", "publish", "reach"} \subseteq Opening
  BY DEF Pc, Opening
<1>1. UNCHANGED <<lease, paid>>
  BY DEF ClaimRefused, Provision, PointAt, Reachable, PublishFails, Unpause, UnpauseFails,
         Reap, ReapFails, Clear, CheckDebt, Refund, RefundFails
<1>2. thread[t].pc \notin {"bank", "meter"}
  BY DEF ClaimRefused, Provision, PointAt, Reachable, PublishFails, Unpause, UnpauseFails,
         Reap, ReapFails, Clear, CheckDebt, Refund, RefundFails, At
<1>3. \/ Return(t)
      \/ \E pc \in To : GoTo(t, pc) /\ (pc \in Opening => thread[t].pc \in Opening)
  <2>1. CASE Provision(t) \/ PointAt(t) \/ Reachable(t) \/ PublishFails(t)
    BY <1>0, <2>1 DEF Provision, PointAt, Reachable, PublishFails, At
  <2>2. CASE ClaimRefused(t) \/ Unpause(t) \/ UnpauseFails(t) \/ RefundFails(t)
    BY <2>2 DEF ClaimRefused, Unpause, UnpauseFails, RefundFails
  <2>3. CASE Reap(t) \/ ReapFails(t) \/ Clear(t) \/ CheckDebt(t) \/ Refund(t)
    BY <1>0, <2>3 DEF Reap, ReapFails, AfterReap, Clear, CheckDebt, Refund
  <2> QED
    BY <2>1, <2>2, <2>3
<1> QED
  BY <1>1, <1>2, <1>3, WalkBooks

LEMMA SweepWalkBooks ==
  ASSUME AgentInv, BooksInv, AgentInv', Judge \/ Freeze \/ FreezeFails
  PROVE  BooksStep(Sweep)
<1> DEFINE To == Pc \ {"bank", "meter", "pay"}
<1>0. {"end", "pause"} \subseteq To /\ {"end", "pause"} \cap Opening = {} /\ Sweep \in Threads
  BY DEF Pc, Opening, Threads
<1>1. UNCHANGED <<lease, paid>> /\ thread[Sweep].pc \notin {"bank", "meter"}
  BY DEF Judge, Freeze, FreezeFails, At
<1>2. Verdict(Of(Sweep)) \in {"end", "pause", "idle"}
  BY DEF Verdict
<1>3. Return(Sweep) \/ \E pc \in {"end", "pause"} : GoTo(Sweep, pc)
  BY <1>2 DEF Judge, Freeze, FreezeFails
<1> QED
  BY <1>0, <1>1, <1>3, WalkBooks

\* A ledger is written under a status, a freeze, a thaw or a charge.
LEMMA WriteBooks ==
  ASSUME AgentInv, BooksInv, AgentInv', OverStaysOver, NEW t \in Threads, paid' = paid,
         thread[t].pc \notin {"idle", "claim", "bank", "meter"},
         \/ Return(t)
         \/ \E pc \in Pc \ {"bank", "meter", "pay"} :
              GoTo(t, pc) /\ (pc \in Opening => thread[t].pc \in Opening),
         NEW record \in LeaseRecord, Update(t, record),
         record.metered = Of(t).metered,
         Blank(Of(t)) => Blank(record),
         IsTerminal(record) \/ record.burned + record.credit = Of(t).burned + Of(t).credit
  PROVE  BooksStep(t)
<1>1. TypeOK /\ TypeOK'
  BY DEF AgentInv
<1>2. CASE Return(t)
  <2>1. OthersStay(t) /\ thread'[t].pc = "idle"
    BY <1>1, <1>2, ReturnEffect
  <2> QED
    BY <1>1, <2>1, CalmWrite DEF Opening
<1>3. ASSUME NEW pc \in Pc \ {"bank", "meter", "pay"}, GoTo(t, pc), pc \in Opening => thread[t].pc \in Opening
      PROVE  BooksStep(t)
  <2>1. OthersStay(t) /\ thread'[t].pc = pc /\ thread'[t].id = thread[t].id
    BY <1>1, <1>3, GoToEffect
  <2> QED
    BY <1>1, <1>3, <2>1, CalmWrite
<1> QED
  BY <1>2, <1>3

LEMMA StatusBooks ==
  ASSUME AgentInv, BooksInv, AgentInv', OverStaysOver, NEW t \in Threads,
         \/ Answering(t) \/ StopLease(t) \/ Thaw(t) \/ (t = Sweep /\ PauseLease)
  PROVE  BooksStep(t)
<1>0. /\ {"publish", "reap", "clear", "unpause", "freeze"} \subseteq Pc \ {"bank", "meter", "pay"}
      /\ {"reap", "clear", "unpause", "freeze"} \cap Opening = {} /\ "await" \in Opening
      /\ "active" \in Status /\ FinalStatus(thread[t].op) \in Status
  BY DEF Pc, Opening, Status, Live, Terminal, FinalStatus
<1>1. /\ thread[t].pc \notin {"idle", "claim", "bank", "meter"} /\ paid' = paid
      /\ \/ Return(t)
         \/ \E pc \in Pc \ {"bank", "meter", "pay"} :
              GoTo(t, pc) /\ (pc \in Opening => thread[t].pc \in Opening)
  BY <1>0 DEF Answering, StopLease, Thaw, PauseLease, At
<1>2. Of(t) \in LeaseRecord /\ clock \in Nat
  BY <1>1, AtWork
<1>3. PICK record \in LeaseRecord : Update(t, record) /\ SameMoney(record, Of(t))
  <2>1. CASE Answering(t) \/ StopLease(t)
    <3>1. PICK status \in Status : Update(t, SetStatus(Of(t), status))
      BY <1>0, <2>1 DEF Answering, StopLease
    <3> QED
      BY <1>2, <3>1, StatusMoves, StatusKeepsMoney
  <2>2. CASE Thaw(t)
    BY <1>0, <1>2, <2>2, StatusMoves, StatusKeepsMoney DEF Thaw
  <2>3. CASE t = Sweep /\ PauseLease
    BY <1>0, <1>2, <2>3, StatusMoves, StatusKeepsMoney DEF PauseLease
  <2> QED
    BY <2>1, <2>2, <2>3
<1> QED
  BY <1>1, <1>3, WriteBooks DEF SameMoney, Blank

LEMMA ProvisionFailsBooks ==
  ASSUME AgentInv, BooksInv, AgentInv', OverStaysOver, NEW r \in Requests, ProvisionFails(r)
  PROVE  BooksStep(r)
<1>1. /\ TypeOK /\ TypeOK' /\ r \in Threads /\ "failed" \in Status /\ paid' = paid
      /\ thread[r].pc \notin {"idle", "claim", "bank", "meter"}
  BY DEF AgentInv, Threads, Status, Terminal, ProvisionFails, At
<1>2. OthersStay(r) /\ thread'[r].pc = "reap"
  BY <1>1 DEF ProvisionFails, TypeOK, Goroutine, OthersStay
<1>3. Of(r) \in LeaseRecord /\ clock \in Nat
  BY <1>1, AtWork
<1>4. PICK record \in LeaseRecord : Update(r, record) /\ SameMoney(record, Of(r))
  BY <1>1, <1>3, StatusMoves, StatusKeepsMoney DEF ProvisionFails
<1> QED
  BY <1>1, <1>2, <1>4, CalmWrite DEF SameMoney, Blank, Opening

LEMMA BurnBooks ==
  ASSUME AgentInv, BooksInv, AgentInv', OverStaysOver, NEW t \in Threads,
         FinalBurn(t) \/ (t = Sweep /\ TickMeter)
  PROVE  BooksStep(t)
<1>1. /\ thread[t].pc \notin {"idle", "claim", "bank", "meter"} /\ paid' = paid
      /\ Update(t, Burn(Of(t), clock))
      /\ GoTo(t, "end") \/ GoTo(t, "judge")
  BY DEF FinalBurn, TickMeter, At
<1>2. {"end", "judge"} \subseteq Pc \ {"bank", "meter", "pay"} /\ {"end", "judge"} \cap Opening = {}
  BY DEF Pc, Opening
<1>3. Of(t) \in LeaseRecord /\ clock \in Nat
  BY <1>1, AtWork
<1>4. /\ Burn(Of(t), clock) \in LeaseRecord
      /\ Burn(Of(t), clock).metered = Of(t).metered
      /\ ~Of(t).metered => Burn(Of(t), clock) = Of(t)
      /\ Burn(Of(t), clock).burned + Burn(Of(t), clock).credit = Of(t).burned + Of(t).credit
  BY <1>3, BurnMoves, BurnKeeps
<1>5. Blank(Of(t)) => Blank(Burn(Of(t), clock))
  BY <1>4 DEF Blank
<1> QED
  BY <1>1, <1>2, <1>4, <1>5, WriteBooks

\* What a lease that is over owes is read, and its settlement recorded.
LEMMA SettledBooks ==
  ASSUME AgentInv, BooksInv, AgentInv', OverStaysOver, NEW t \in Threads, ReadDebt(t) \/ Mark(t)
  PROVE  BooksStep(t)
<1>1. /\ thread[t].pc \notin {"idle", "claim", "bank", "meter"} /\ thread[t].pc \in Ending
      /\ paid' = paid /\ TypeOK /\ TypeOK'
  BY DEF ReadDebt, Mark, At, Ending, AgentInv
<1>2. Of(t) \in LeaseRecord /\ thread[t].amount \in Nat /\ IsTerminal(Of(t))
  BY <1>1, AtWork
<1>3. CASE ReadDebt(t)
  <2>1. PICK pc \in {"mark", "refund"} :
          thread' = [thread EXCEPT ![t].pc = pc, ![t].amount = Of(t).credit]
    BY <1>3 DEF ReadDebt
  <2>2. OthersStay(t) /\ thread'[t].pc = pc /\ lease' = lease
    BY <1>1, <1>3, <2>1 DEF TypeOK, Goroutine, OthersStay, ReadDebt
  <2> QED
    BY <1>1, <2>2, CalmHold DEF Opening
<1>4. CASE Mark(t)
  <2>1. PICK amount \in Nat : Update(t, MarkSettled(Of(t), amount)) /\ Return(t)
    BY <1>2, <1>4 DEF Mark
  <2> PICK record : record = MarkSettled(Of(t), amount)
    OBVIOUS
  <2>2. record \in LeaseRecord /\ IsTerminal(record)
    BY <1>2, MethodsKeep DEF IsTerminal
  <2>3. record.metered = Of(t).metered /\ (Blank(Of(t)) => Blank(record))
    BY <1>2, MarkSettledMoves DEF Blank
  <2> QED
    BY <1>1, <2>1, <2>2, <2>3, WriteBooks
<1> QED
  BY <1>3, <1>4

\* A step that pays for, or banks on, the lease the goroutine works on, and no other.
LEMMA MoneyStep ==
  ASSUME AgentInv, BooksInv, AgentInv', OverStaysOver, NEW t \in Threads,
         thread[t].pc \notin {"idle", "claim"}, OthersStay(t), NEW id, id = thread[t].id,
         thread'[t].pc = "idle" \/ thread'[t].id = id,
         thread'[t].pc \in Opening => thread[t].pc \in Opening /\ lease' = lease,
         thread'[t].pc \in {"pay", "bank"} => thread[t].pc = "pay" /\ lease' = lease,
         DOMAIN lease' = DOMAIN lease,
         \A l \in DOMAIN lease : l # id => lease'[l] = lease[l],
         \A l \in Leases : l # id => paid'[l] = paid[l],
         Of(t).metered => lease'[id].metered,
         thread[t].pc = "meter" \/ (Blank(Of(t)) => Blank(lease'[id])),
         LET gain == (lease'[id].burned + lease'[id].credit) - (lease[id].burned + lease[id].credit)
                       + (Unbanked(id, t)' - Unbanked(id, t))
         IN  /\ gain <= paid'[id] - paid[id]
             /\ "settleLost" \notin Faults => gain = paid'[id] - paid[id]
  PROVE  BooksStep(t)
<1>1. /\ TypeOK /\ TypeOK' /\ id \in DOMAIN lease /\ Of(t) = lease[id]
      /\ lease \in [DOMAIN lease -> LeaseRecord] /\ DOMAIN lease \subseteq Leases
      /\ paid \in [Leases -> Nat]
  BY AtWork DEF AgentInv, TypeOK
<1>2. thread'[t].pc \in Opening =>
        thread[t].pc \in Opening /\ thread'[t].id = id /\ Blank(lease'[id])
  BY DEF BooksInv, Opening
<1>3. thread'[t].pc \in {"pay", "bank"} =>
        thread'[t].id \in DOMAIN lease /\ lease'[thread'[t].id].metered
  BY <1>1 DEF BooksInv
<1>4. ASSUME NEW l \in DOMAIN lease, ~IsTerminal(lease'[l])
      PROVE  LET gain == (lease'[l].burned + lease'[l].credit) - (lease[l].burned + lease[l].credit)
                           + (Unbanked(l, t)' - Unbanked(l, t))
             IN  /\ gain <= paid'[l] - paid[l]
                 /\ "settleLost" \notin Faults => gain = paid'[l] - paid[l]
  <2>1. CASE l = id
    BY <2>1
  <2>2. CASE l # id
    <3>1. Unbanked(l, t) = 0 /\ Unbanked(l, t)' = 0
      BY <2>2 DEF Unbanked, At
    <3>2. lease'[l] = lease[l] /\ paid'[l] = paid[l] /\ paid[l] \in Nat
          /\ lease[l].burned \in Nat /\ lease[l].credit \in Nat
      BY <1>1, <2>2 DEF LeaseRecord
    <3> QED
      BY <3>1, <3>2
  <2> QED
    BY <2>1, <2>2
<1>5. \A l \in Leases : paid'[l] = paid[l] \/ l \in DOMAIN lease
  BY <1>1
<1>6. \A l \in DOMAIN lease :
       /\ lease[l].metered => lease'[l].metered
       /\ Blank(lease[l]) => \/ Blank(lease'[l])
                             \/ thread[t].pc = "meter" /\ thread[t].id = l
  BY <1>1
<1> QED
  BY <1>2, <1>3, <1>4, <1>5, <1>6 DEF BooksStep

\* The facilitator is asked for the opening chunk or for a top-up.
LEMMA PayingBooks ==
  ASSUME AgentInv, BooksInv, AgentInv', OverStaysOver, NEW t \in Threads,
         Settle(t) \/ SettleFails(t) \/ Pay(t) \/ PayFails(t)
  PROVE  BooksStep(t)
<1> PICK id : id = thread[t].id
  OBVIOUS
<1> PICK price : price = IF At(t, "settle") THEN Price * OpeningSeconds ELSE thread[t].amount
  OBVIOUS
<1>1. /\ TypeOK /\ TypeOK' /\ lease' = lease /\ thread[t].pc \in {"settle", "pay"}
      /\ {"meter", "end", "bank"} \subseteq Pc /\ "settle" \in Opening
      /\ {"end", "bank"} \cap Opening = {}
  BY DEF AgentInv, Settle, SettleFails, Pay, PayFails, At, Pc, Opening
<1>2. /\ id \in DOMAIN lease /\ id \in Leases /\ Of(t) = lease[id] /\ thread[t].amount \in Nat
      /\ lease[id] \in LeaseRecord
  BY <1>1, AtWork
<1>3. price \in Nat
  BY <1>2, SecondsType
<1>4. paid \in [Leases -> Nat] /\ lease[id].burned \in Nat /\ lease[id].credit \in Nat
  BY <1>1, <1>2 DEF TypeOK, LeaseRecord
<1>5. Unbanked(id, t) = 0
  BY <1>1 DEF Unbanked, At
<1>6. \/ /\ OthersStay(t) /\ thread'[t].id = id
         /\ \/ thread[t].pc = "settle" /\ thread'[t].pc = "meter"
            \/ thread[t].pc = "pay" /\ thread'[t].pc = "bank"
         /\ paid' = [paid EXCEPT ![id] = @ + price]
         /\ thread'[t].amount = thread[t].amount
      \/ /\ OthersStay(t)
         /\ thread'[t].pc = "idle" \/ (thread'[t].pc = "end" /\ thread'[t].id = id)
         /\ paid' = paid \/ (Fault("settleLost") /\ paid' = [paid EXCEPT ![id] = @ + price])
  <2>1. CASE Settle(t)
    <3>1. GoTo(t, "meter") /\ thread[t].pc = "settle" /\ paid' = [paid EXCEPT ![id] = @ + price]
      BY <2>1 DEF Settle, At
    <3>2. thread'[t].amount = thread[t].amount
      BY <1>1, <3>1 DEF GoTo, TypeOK, Goroutine
    <3> QED
      BY <1>1, <3>1, <3>2, GoToEffect
  <2>2. CASE Pay(t)
    <3>1. GoTo(t, "bank") /\ thread[t].pc = "pay" /\ paid' = [paid EXCEPT ![id] = @ + price]
      BY <2>2 DEF Pay, At
    <3>2. thread'[t].amount = thread[t].amount
      BY <1>1, <3>1 DEF GoTo, TypeOK, Goroutine
    <3> QED
      BY <1>1, <3>1, <3>2, GoToEffect
  <2>3. CASE SettleFails(t)
    <3>1. /\ GoTo(t, "end")
          /\ paid' = paid \/ (Fault("settleLost") /\ paid' = [paid EXCEPT ![id] = @ + price])
      BY <2>3 DEF SettleFails, At
    <3> QED
      BY <1>1, <3>1, GoToEffect
  <2>4. CASE PayFails(t)
    <3>1. /\ Return(t)
          /\ paid' = paid \/ (Fault("settleLost") /\ paid' = [paid EXCEPT ![id] = @ + price])
      BY <2>4 DEF PayFails, At
    <3> QED
      BY <1>1, <3>1, ReturnEffect
  <2> QED
    BY <2>1, <2>2, <2>3, <2>4
<1>7. Unbanked(id, t)' = IF thread'[t].pc \in {"meter", "bank"} THEN price ELSE 0
  <2>1. CASE thread'[t].pc = "meter"
    BY <1>1, <1>6, <2>1 DEF Unbanked, At, OpeningSeconds
  <2>2. CASE thread'[t].pc = "bank"
    BY <1>1, <1>6, <2>2 DEF Unbanked, At
  <2>3. CASE thread'[t].pc \notin {"meter", "bank"}
    BY <1>6, <2>3 DEF Unbanked, At
  <2> QED
    BY <2>1, <2>2, <2>3
<1>8. LET gain == (lease'[id].burned + lease'[id].credit) - (lease[id].burned + lease[id].credit)
                     + (Unbanked(id, t)' - Unbanked(id, t))
      IN  /\ gain <= paid'[id] - paid[id]
          /\ "settleLost" \notin Faults => gain = paid'[id] - paid[id]
  <2> PICK held : held = Unbanked(id, t)'
    OBVIOUS
  <2>1. \/ held = price /\ paid'[id] = paid[id] + price
        \/ held = 0 /\ (paid'[id] = paid[id] \/ ("settleLost" \in Faults /\ paid'[id] = paid[id] + price))
    BY <1>2, <1>4, <1>6, <1>7 DEF Fault
  <2>2. paid[id] \in Nat /\ lease'[id] = lease[id]
    BY <1>1, <1>2, <1>4
  <2> QED
    BY <1>3, <1>4, <1>5, <2>1, <2>2
<1>9. \A l \in Leases : l # id => paid'[l] = paid[l]
  BY <1>4, <1>6
<1>10. /\ OthersStay(t) /\ (thread'[t].pc = "idle" \/ thread'[t].id = id)
       /\ thread'[t].pc \in Opening => thread[t].pc \in Opening
       /\ thread'[t].pc \in {"pay", "bank"} => thread[t].pc = "pay"
  BY <1>1, <1>6 DEF Opening
<1> QED
  BY <1>1, <1>2, <1>8, <1>9, <1>10, MoneyStep

\* What was paid is banked.
LEMMA BankingBooks ==
  ASSUME AgentInv, BooksInv, AgentInv', OverStaysOver, NEW t \in Threads, Meter(t) \/ Bank(t)
  PROVE  BooksStep(t)
<1> PICK id : id = thread[t].id
  OBVIOUS
<1> PICK price : price = IF At(t, "meter") THEN Price * OpeningSeconds ELSE thread[t].amount
  OBVIOUS
<1>1. /\ TypeOK /\ TypeOK' /\ UNCHANGED paid /\ thread[t].pc \in {"meter", "bank"}
      /\ "thaw" \in Pc \ Opening /\ "meter" \in Opening
  BY DEF AgentInv, Meter, Bank, At, Pc, Opening
<1>2. /\ id \in DOMAIN lease /\ id \in Leases /\ Of(t) = lease[id] /\ thread[t].amount \in Nat
      /\ lease[id] \in LeaseRecord /\ clock \in Nat
  BY <1>1, AtWork
<1>3. price \in Nat /\ SessionSeconds \in Nat
  BY <1>2, SecondsType, AgentAssumption
<1>4. Unbanked(id, t) = price
  BY <1>1 DEF Unbanked, At
<1>5. /\ OthersStay(t)
      /\ thread'[t].pc = "idle" \/ (thread'[t].pc = "thaw" /\ thread'[t].id = id)
  BY <1>1, GoToEffect, ReturnEffect DEF Meter, Bank
<1>6. PICK record \in LeaseRecord :
        /\ Update(t, record) /\ record.metered
        /\ record.burned + record.credit = (lease[id].burned + lease[id].credit) + price
  <2>1. CASE Meter(t)
    <3> PICK record : record = MarkMetered(Of(t), SessionSeconds, price, clock)
      OBVIOUS
    <3>1. Update(t, record) /\ Blank(lease[id])
      BY <1>1, <1>2, <2>1 DEF Meter, At, BooksInv
    <3>2. record \in LeaseRecord /\ record.metered /\ record.burned = 0 /\ record.credit = price
      <4> PICK k \in LeaseRecord : k = Of(t)
        BY <1>2
      <4>1. record = MarkMetered(k, SessionSeconds, price, clock)
        OBVIOUS
      <4>2. price \in Nat /\ SessionSeconds \in Nat /\ clock \in Nat
        BY <1>2, <1>3
      <4>3. LET m == MarkMetered(k, SessionSeconds, price, clock)
            IN  m \in LeaseRecord /\ m.metered /\ m.burned = 0 /\ m.credit = price
        BY ONLY <4>2, k \in LeaseRecord, MarkMeteredEffect
      <4> QED
        BY ONLY <4>1, <4>3
    <3> QED
      BY <1>3, <3>1, <3>2 DEF Blank
  <2>2. CASE Bank(t)
    <3> PICK record : record = AddCredit(Of(t), price)
      OBVIOUS
    <3>1. Update(t, record) /\ lease[id].metered
      BY <1>1, <2>2 DEF Bank, At, BooksInv
    <3>2. /\ record \in LeaseRecord /\ record.metered = lease[id].metered /\ record.burned = lease[id].burned
          /\ record.credit = lease[id].credit + price
      <4>1. Of(t) \in LeaseRecord /\ Of(t).metered
        BY <1>2, <3>1
      <4> QED
        BY <4>1, <1>2, <1>3, AddCreditEffect
    <3>3. lease[id].burned \in Nat /\ lease[id].credit \in Nat
      BY <1>2 DEF LeaseRecord
    <3>4. record.burned + record.credit = (lease[id].burned + lease[id].credit) + price
      BY <1>3, <3>2, <3>3
    <3> QED
      BY <3>1, <3>2, <3>4
  <2> QED
    BY <2>1, <2>2
<1>7. /\ DOMAIN lease' = DOMAIN lease /\ lease'[id] = record
      /\ \A l \in DOMAIN lease : l # id => lease'[l] = lease[l]
  BY <1>1, <1>2, <1>6, UpdateEffect
<1>8. Unbanked(id, t)' = 0
  BY <1>5 DEF Unbanked, At
<1>9. LET gain == (lease'[id].burned + lease'[id].credit) - (lease[id].burned + lease[id].credit)
                     + (Unbanked(id, t)' - Unbanked(id, t))
      IN  /\ gain <= paid'[id] - paid[id]
          /\ "settleLost" \notin Faults => gain = paid'[id] - paid[id]
  <2>1. paid[id] \in Nat /\ lease[id].burned \in Nat /\ lease[id].credit \in Nat
    BY <1>1, <1>2 DEF TypeOK, LeaseRecord
  <2> QED
    BY <1>1, <1>3, <1>4, <1>6, <1>7, <1>8, <2>1
<1>10. thread[t].pc = "meter" \/ (Blank(Of(t)) => Blank(lease'[id]))
  BY <1>1, <1>2 DEF BooksInv, Blank
<1> QED
  BY <1>1, <1>2, <1>5, <1>6, <1>7, <1>9, <1>10, MoneyStep DEF Opening

\* A lease appears with nothing paid for it and nobody holding anything for it.
LEMMA ClaimSlotBooks ==
  ASSUME AgentInv, BooksInv, AgentInv', NEW r \in Requests, ClaimSlot(r)
  PROVE  BooksInv'
<1>1. /\ TypeOK /\ TypeOK' /\ r \in Threads
      /\ lease \in [DOMAIN lease -> LeaseRecord] /\ DOMAIN lease \subseteq Leases
  BY DEF AgentInv, TypeOK, Threads
<1>2. PICK l \in Leases \ DOMAIN lease :
        /\ lease' = [k \in DOMAIN lease \cup {l} |->
                       IF k = l THEN NewLease(OpeningSeconds, clock) ELSE lease[k]]
        /\ thread' = [thread EXCEPT ![r].pc = "provision", ![r].id = l]
  BY DEF ClaimSlot
<1>3. /\ DOMAIN lease' = DOMAIN lease \cup {l}
      /\ lease'[l].credit = 0 /\ lease'[l].burned = 0 /\ ~lease'[l].metered
      /\ \A k \in DOMAIN lease : lease'[k] = lease[k]
  <2>1. clock \in Nat /\ OpeningSeconds \in Nat
    BY <1>1, SecondsType, AgentAssumption DEF TypeOK
  <2>2. lease'[l] = NewLease(OpeningSeconds, clock)
    BY <1>2
  <2> QED
    BY <1>1, <1>2, <2>1, <2>2, NewLeaseType
<1>4. /\ OthersStay(r) /\ thread'[r].pc = "provision" /\ thread'[r].id = l /\ thread[r].pc = "claim"
      /\ paid' = paid
  BY <1>1, <1>2 DEF TypeOK, Goroutine, OthersStay, ClaimSlot, At
<1>5. \A u \in Threads : thread[u].pc \notin {"idle", "claim"} => thread[u].id \in DOMAIN lease
  BY DEF AgentInv
<1>6. \A u \in Threads \ {r} :
        /\ thread'[u] = thread[u]
        /\ thread'[u].pc \notin {"idle", "claim"} => thread[u].id \in DOMAIN lease /\ thread[u].id # l
  BY <1>2, <1>4, <1>5 DEF OthersStay
<1>7. \A u \in Threads : thread'[u].pc \in Opening => Blank(lease'[thread'[u].id])
  BY <1>3, <1>4, <1>6 DEF BooksInv, Blank, Opening
<1>8. \A u, v \in Threads :
        thread'[u].pc \in Opening /\ thread'[v].pc \in Opening /\ thread'[u].id = thread'[v].id => u = v
  BY <1>4, <1>6 DEF BooksInv, Opening
<1>9. \A u \in Threads : thread'[u].pc \in {"pay", "bank"} => lease'[thread'[u].id].metered
  BY <1>3, <1>4, <1>6 DEF BooksInv
<1>10. \A k \in Leases \ DOMAIN lease' : paid'[k] = 0
  BY <1>3, <1>4 DEF BooksInv
<1>11. \A k : HeldFor(k) \in Int /\ HeldFor(k)' = HeldFor(k)
  <2>1. \A k : Unbanked(k, r) = 0 /\ Unbanked(k, r)' = 0
    BY <1>4 DEF Unbanked, At
  <2> SUFFICES ASSUME NEW k PROVE HeldFor(k) \in Int /\ HeldFor(k)' = HeldFor(k)
    OBVIOUS
  <2>2. HeldFor(k) \in Int /\ HeldFor(k)' = HeldFor(k) + (Unbanked(k, r)' - Unbanked(k, r))
    BY <1>1, <1>4, HeldChange
  <2> QED
    BY <2>1, <2>2
<1>12. HeldFor(l) = 0
  <2> PICK f : f = [u \in Threads |-> Unbanked(l, u)]
    OBVIOUS
  <2>1. \A u \in Threads : Unbanked(l, u) = 0
    BY <1>2, <1>5 DEF Unbanked, At
  <2>2. \A u \in Threads : f[u] = 0
    BY <2>1
  <2>3. SumFunctionOnSet(f, Threads) = 0
    BY ONLY <2>2, ThreadsFinite, SumZero
  <2> QED
    BY <2>3 DEF HeldFor
<1>13. LiveBooksExact'
  <2> SUFFICES ASSUME NEW k \in Leases, IsLive(k)'
               PROVE  /\ lease'[k].burned + lease'[k].credit + HeldFor(k)' <= paid'[k]
                      /\ "settleLost" \notin Faults =>
                           lease'[k].burned + lease'[k].credit + HeldFor(k)' = paid'[k]
    BY DEF LiveBooksExact
  <2>1. CASE k = l
    BY <1>2, <1>3, <1>4, <1>11, <1>12, <2>1 DEF BooksInv
  <2>2. CASE k # l
    <3>1. IsLive(k) /\ lease'[k] = lease[k]
      BY <1>3, <2>2 DEF IsLive
    <3> QED
      BY <1>4, <1>11, <3>1 DEF BooksInv, LiveBooksExact
  <2> QED
    BY <2>1, <2>2
<1> QED
  BY <1>7, <1>8, <1>9, <1>10, <1>13 DEF BooksInv

\* Time passing moves no books.
LEMMA IdleBooks ==
  ASSUME AgentInv, BooksInv, Tick \/ UNCHANGED vars
  PROVE  BooksInv'
<1>1. UNCHANGED <<lease, thread, paid>>
  BY DEF Tick, vars
<1>2. LiveBooksExact'
  BY <1>1 DEF BooksInv, LiveBooksExact, IsLive, HeldFor, Unbanked, At, OpeningSeconds
<1> QED
  BY <1>1, <1>2 DEF BooksInv

LEMMA InitBooks == Init => BooksInv
<1> SUFFICES ASSUME Init PROVE BooksInv
  OBVIOUS
<1>1. DOMAIN lease = {} /\ \A t \in Threads : thread[t].pc = "idle"
  BY DEF Init, Idle
<1> QED
  BY <1>1 DEF Init, BooksInv, LiveBooksExact, IsLive, Opening

LEMMA NextBooks ==
  ASSUME AgentInv, BooksInv, [Next]_vars
  PROVE  BooksInv'
<1>0. AgentInv' /\ OverStaysOver /\ Requests \subseteq Threads /\ {Sweep, Owner} \subseteq Threads
  BY NextAgentInv DEF Threads
<1>1. ASSUME NEW t \in Threads, BooksStep(t) PROVE BooksInv'
  BY <1>0, <1>1, BooksStepKeeps
<1>2. CASE \E r \in Requests : CreateSession(r) \/ TopUpSession(r) \/ StopSession(r)
  BY <1>0, <1>1, <1>2, RequestBooks
<1>3. CASE EndLease
  BY <1>0, <1>1, <1>3, EndLeaseBooks
<1>4. CASE SweepLeases
  BY <1>0, <1>1, <1>4, SweepLeasesBooks
<1>5. ASSUME NEW r \in Requests, CreateStep(r) PROVE BooksInv'
  <2>1. CASE ClaimSlot(r)
    BY <1>0, <2>1, ClaimSlotBooks
  <2>2. CASE ~ClaimSlot(r)
    BY <1>0, <1>1, <1>5, <2>2, WalkingBooks, StatusBooks, ProvisionFailsBooks, PayingBooks,
       BankingBooks DEF CreateStep
  <2> QED
    BY <2>1, <2>2
<1>6. ASSUME NEW r \in Requests, TopUpStep(r) PROVE BooksInv'
  BY <1>0, <1>1, <1>6, WalkingBooks, StatusBooks, PayingBooks, BankingBooks DEF TopUpStep
<1>7. ASSUME NEW t \in Threads, EndStep(t) PROVE BooksInv'
  BY <1>0, <1>1, <1>7, WalkingBooks, StatusBooks, BurnBooks, SettledBooks DEF EndStep
<1>8. CASE SweepStep
  BY <1>0, <1>1, <1>8, SweepWalkBooks, StatusBooks, BurnBooks DEF SweepStep
<1>9. CASE Tick \/ UNCHANGED vars
  BY <1>9, IdleBooks
<1>10. CASE ThreadStep
  BY <1>5, <1>6, <1>7, <1>8, <1>10 DEF ThreadStep
<1> QED
  BY <1>2, <1>3, <1>4, <1>9, <1>10 DEF Next

\* What a handler does to the books of the session it works on, and to no other.
THEOREM BooksInvHolds == Spec => []BooksInv
<1>1. AgentInv /\ BooksInv /\ [Next]_vars => BooksInv'
  BY NextBooks
<1> QED
  BY <1>1, InitBooks, AgentInvHolds, PTL DEF Spec

\* A living session's books are exact, however many handlers hold money for it:
\* what was settled is earned, credited or about to be banked (handleCreateSession,
\* handleTopUpSession, MarkMetered, AddCredit, Burn).
THEOREM LiveBooksExactHolds == Spec => []LiveBooksExact
<1>1. BooksInv => LiveBooksExact
  BY DEF BooksInv
<1> QED
  BY <1>1, BooksInvHolds, PTL


-----------------------------------------------------------------------------
(* What a goroutine at work does, action by action, in one table.          *)

\* A step of goroutine t on the lease it has begun to work on.
Works(t) ==
  \/ t \in Requests /\ CreateStep(t) /\ ~ClaimSlot(t)
  \/ t \in Requests /\ TopUpStep(t)
  \/ EndStep(t)
  \/ t = Sweep /\ SweepStep

\* Where it goes on to.
Onward(t) ==
  LET w == thread[t]
  IN  CASE w.pc = "provision" -> {"await", "reap"}
        [] w.pc = "await" -> {"publish", "reap"}
        [] w.pc = "publish" -> {"reach", "end"}
        [] w.pc = "reach" -> {"settle", "end"}
        [] w.pc = "settle" -> {"meter", "end"}
        [] w.pc = "pay" -> {"bank", "idle"}
        [] w.pc = "bank" -> {"thaw"}
        [] w.pc = "thaw" -> {"unpause", "idle"}
        [] w.pc = "burn" -> {"end"}
        [] w.pc = "end" -> IF IsTerminal(Of(t)) THEN {"clear"} ELSE {"reap"}
        [] w.pc = "reap" -> IF w.op = "abort" THEN {"idle"} ELSE {"clear"}
        [] w.pc = "clear" -> IF w.op = "create" THEN {"idle"} ELSE {"debt"}
        [] w.pc = "debt" -> IF Of(t).metered /\ Of(t).settle = "pending" THEN {"owed"} ELSE {"idle"}
        [] w.pc = "owed" -> IF Of(t).credit = 0 THEN {"mark"} ELSE {"refund"}
        [] w.pc = "refund" -> {"mark", "idle"}
        [] w.pc = "tick" -> {"judge"}
        [] w.pc = "judge" -> IF IsTerminal(Of(t)) THEN {"idle"} ELSE {"idle", "end", "pause"}
        [] w.pc = "pause" -> {"freeze", "idle"}
        [] OTHER -> {"idle"}

\* A handler that gives up on provisioning aborts.
Aborts(t) == thread[t].pc \in {"provision", "await"} /\ thread'[t].pc = "reap"

Course(t) ==
  LET w == thread[t]
      v == thread'[t]
  IN  /\ OthersStay(t)
      /\ w.pc # "idle"
      /\ v.pc \in Onward(t)
      /\ v.pc = "idle" => v = Idle
      /\ v.pc # "idle" => /\ v.id = w.id
                          /\ v.op = IF Aborts(t) THEN "abort" ELSE w.op
                          /\ v.amount = IF w.pc = "owed" THEN Of(t).credit ELSE w.amount

\* What it writes on the lease: money, and a status that ends it when the goroutine
\* goes on to take it down.
Writes(t) ==
  LET w == thread[t]
      k == lease[w.id]
      n == lease'[w.id]
  IN  /\ DOMAIN lease' = DOMAIN lease
      /\ \A l \in DOMAIN lease : l # w.id => lease'[l] = lease[l]
      /\ w.pc \in {"meter", "bank", "mark", "burn", "tick"} => n.status = k.status
      /\ ~IsTerminal(k) /\ IsTerminal(n) => thread'[t].pc = "reap"
      /\ w.pc = "meter" => /\ n.metered /\ n.settle = "pending" /\ n.refunded = k.refunded
                           /\ n.burned = 0 /\ n.credit = Price * OpeningSeconds
      /\ w.pc = "bank" => /\ n.metered = k.metered /\ n.settle = k.settle
                          /\ n.refunded = k.refunded /\ n.burned = k.burned
                          /\ k.metered => n.credit = k.credit + w.amount
                          /\ ~k.metered => n = k
      /\ w.pc = "mark" => /\ n.metered = k.metered /\ n.burned = k.burned
                          /\ k.settle = "none" => n = k
                          /\ k.settle # "none" => n.credit = 0 /\ n.settle = "done" /\ n.refunded = w.amount
      /\ w.pc \in {"burn", "tick"} => /\ n.metered = k.metered /\ n.settle = k.settle
                                      /\ n.refunded = k.refunded
                                      /\ n.burned + n.credit = k.burned + k.credit
                                      /\ k.credit = 0 => n.credit = 0
                                      /\ ~k.metered => n = k
      /\ w.pc \notin {"meter", "bank", "mark", "burn", "tick"} => SameMoney(n, k)

\* What it does to the container.
Standing == {"running", "frozen"}

Builds(t) ==
  LET w == thread[t]
  IN  /\ \A l \in Leases : l # w.id => box'[l] = box[l]
      /\ w.pc = "reap" /\ w.id \in Leases => box'[w.id] \notin Standing \/ Unremoved(w.id)
      /\ w.pc \notin {"provision", "reap"} /\ w.id \in Leases => (box'[w.id] \in Standing <=> box[w.id] \in Standing)

\* What it does to the tunnel.
Tunnels(t) ==
  LET w == thread[t]
  IN  /\ w.pc = "publish" => \/ thread'[t].pc = "reach" /\ tunnel' = w.id
                             \/ thread'[t].pc = "end" /\ tunnel' \in {tunnel, NoLease}
      /\ w.pc = "clear" => tunnel' = NoLease
      /\ w.pc \notin {"publish", "clear"} => tunnel' = tunnel

\* What it pays and returns.
Pays(t) ==
  LET w == thread[t]
      price == IF w.pc = "settle" THEN Price * OpeningSeconds ELSE w.amount
  IN  /\ \A l \in Leases : l # w.id => paid'[l] = paid[l] /\ returned'[l] = returned[l]
      /\ w.pc \notin {"settle", "pay"} => paid' = paid
      /\ w.pc # "refund" => returned' = returned
      /\ w.pc \in {"settle", "pay"} =>
           IF thread'[t].pc \in {"meter", "bank"} THEN paid'[w.id] = paid[w.id] + price
           ELSE paid' = paid \/ (paid'[w.id] = paid[w.id] + price /\ faults' > faults)
      /\ w.pc = "refund" =>
           IF thread'[t].pc = "mark" THEN returned'[w.id] = returned[w.id] + w.amount
           ELSE /\ Refused(w.id)
                /\ \/ returned' = returned
                   \/ returned'[w.id] = returned[w.id] + w.amount /\ faults' > faults

\* Work begins: a renter's on no lease yet, any other on the lease in the slot.
Started(t) ==
  LET v == thread'[t]
  IN  /\ OthersStay(t) /\ thread[t].pc = "idle"
      /\ UNCHANGED <<lease, slot, box, tunnel, paid, returned>>
      /\ \/ v = [pc |-> "claim", op |-> "create", id |-> NoLease, amount |-> 0]
         \/ /\ v.id = slot /\ slot \in DOMAIN lease
            /\ \/ v.pc = "pay" /\ v.op = "topup"
               \/ v.pc \in {"burn", "end"} /\ v.op = "stop"
               \/ v.pc \in {"debt", "tick", "judge"} /\ v.op = "sweep"
LEMMA GoToCourse ==
  ASSUME TypeOK, NEW t \in Threads, NEW pc, GoTo(t, pc), pc \in Onward(t), pc # "idle",
         thread[t].pc \notin {"idle", "owed"}, pc = "reap" => thread[t].pc = "end"
  PROVE  Course(t)
<1>1. thread'[t] = [thread[t] EXCEPT !.pc = pc] /\ OthersStay(t)
  BY DEF TypeOK, GoTo, OthersStay
<1>2. /\ thread'[t].pc = pc /\ thread'[t].id = thread[t].id /\ thread'[t].op = thread[t].op
      /\ thread'[t].amount = thread[t].amount
  BY <1>1 DEF TypeOK, Goroutine
<1>3. ~Aborts(t)
  BY <1>2 DEF Aborts
<1> QED
  BY <1>1, <1>2, <1>3 DEF Course

LEMMA ReturnCourse ==
  ASSUME TypeOK, NEW t \in Threads, Return(t), "idle" \in Onward(t), thread[t].pc # "idle"
  PROVE  Course(t)
<1>1. thread'[t] = Idle /\ OthersStay(t)
  BY DEF TypeOK, Return, OthersStay
<1> QED
  BY <1>1 DEF Course, Idle

LEMMA OpeningCourse ==
  ASSUME TypeOK, NEW t \in Threads,
         \/ ClaimRefused(t) \/ Provision(t) \/ Answering(t) \/ PointAt(t) \/ Reachable(t)
         \/ PublishFails(t) \/ Settle(t) \/ SettleFails(t) \/ Meter(t)
  PROVE  Course(t)
<1>1. CASE ClaimRefused(t) \/ Meter(t)
  <2>1. thread[t].pc \in {"claim", "meter"} /\ Return(t)
    BY <1>1 DEF ClaimRefused, Meter, At
  <2>2. "idle" \in Onward(t)
    BY <2>1 DEF Onward
  <2> QED
    BY <2>1, <2>2, ReturnCourse
<1>2. CASE \/ Provision(t) \/ Answering(t) \/ PointAt(t) \/ Reachable(t)
           \/ PublishFails(t) \/ Settle(t) \/ SettleFails(t)
  <2>1. \E pc \in {"await", "publish", "reach", "settle", "meter", "end"} :
          /\ GoTo(t, pc)
          /\ \/ thread[t].pc = "provision" /\ pc = "await"
             \/ thread[t].pc = "await" /\ pc = "publish"
             \/ thread[t].pc = "publish" /\ pc \in {"reach", "end"}
             \/ thread[t].pc = "reach" /\ pc \in {"settle", "end"}
             \/ thread[t].pc = "settle" /\ pc \in {"meter", "end"}
    BY <1>2 DEF Provision, Answering, PointAt, Reachable, PublishFails, Settle, SettleFails, At
  <2>2. PICK pc \in {"await", "publish", "reach", "settle", "meter", "end"} :
          /\ GoTo(t, pc) /\ pc \in Onward(t)
          /\ thread[t].pc \in {"provision", "await", "publish", "reach", "settle"}
    BY <2>1 DEF Onward
  <2> QED
    BY <2>2, GoToCourse
<1> QED
  BY <1>1, <1>2

LEMMA AbortCourse ==
  ASSUME TypeOK, NEW t \in Threads, ProvisionFails(t)
  PROVE  Course(t)
<1>1. /\ thread[t].pc \in {"provision", "await"} /\ OthersStay(t)
      /\ thread'[t] = [thread[t] EXCEPT !.pc = "reap", !.op = "abort"]
  BY DEF ProvisionFails, At, TypeOK, OthersStay
<1>2. /\ thread'[t].pc = "reap" /\ thread'[t].op = "abort" /\ thread'[t].id = thread[t].id
      /\ thread'[t].amount = thread[t].amount
  BY <1>1 DEF TypeOK, Goroutine
<1>3. "reap" \in Onward(t)
  BY <1>1 DEF Onward
<1> QED
  BY <1>1, <1>2, <1>3 DEF Course, Aborts

LEMMA TopUpCourse ==
  ASSUME TypeOK, NEW t \in Threads,
         Pay(t) \/ PayFails(t) \/ Bank(t) \/ Thaw(t) \/ Unpause(t) \/ UnpauseFails(t)
  PROVE  Course(t)
<1>1. /\ thread[t].pc \in {"pay", "bank", "thaw", "unpause"}
      /\ \/ thread[t].pc # "bank" /\ Return(t)
         \/ thread[t].pc = "pay" /\ GoTo(t, "bank")
         \/ thread[t].pc = "bank" /\ GoTo(t, "thaw")
         \/ thread[t].pc = "thaw" /\ GoTo(t, "unpause")
  BY DEF Pay, PayFails, Bank, Thaw, Unpause, UnpauseFails, At
<1>2. CASE thread[t].pc # "bank" /\ Return(t)
  <2>1. "idle" \in Onward(t)
    BY <1>1, <1>2 DEF Onward
  <2> QED
    BY <1>1, <1>2, <2>1, ReturnCourse
<1>3. CASE ~(thread[t].pc # "bank" /\ Return(t))
  <2>1. PICK pc \in {"bank", "thaw", "unpause"} : GoTo(t, pc) /\ pc \in Onward(t)
    BY <1>1, <1>3 DEF Onward
  <2> QED
    BY <1>1, <2>1, GoToCourse
<1> QED
  BY <1>2, <1>3

LEMMA EndCourse ==
  ASSUME TypeOK, NEW t \in Threads,
         FinalBurn(t) \/ StopLease(t) \/ Reap(t) \/ ReapFails(t) \/ Clear(t)
  PROVE  Course(t)
<1>1. CASE FinalBurn(t) \/ StopLease(t)
  <2>1. PICK pc \in {"end", "clear", "reap"} :
          /\ GoTo(t, pc) /\ pc \in Onward(t) /\ thread[t].pc \in {"burn", "end"}
          /\ pc = "reap" => thread[t].pc = "end"
    BY <1>1 DEF FinalBurn, StopLease, At, Onward
  <2> QED
    BY <2>1, GoToCourse
<1>2. CASE Reap(t) \/ ReapFails(t) \/ Clear(t)
  <2>1. \/ thread[t].pc = "reap" /\ IF thread[t].op = "abort" THEN Return(t) ELSE GoTo(t, "clear")
        \/ thread[t].pc = "clear" /\ IF thread[t].op = "create" THEN Return(t) ELSE GoTo(t, "debt")
    BY <1>2 DEF Reap, ReapFails, AfterReap, Clear, At
  <2>2. CASE Return(t) /\ "idle" \in Onward(t) /\ thread[t].pc # "idle"
    BY <2>2, ReturnCourse
  <2>3. CASE \E pc \in {"clear", "debt"} : /\ GoTo(t, pc) /\ pc \in Onward(t)
                                            /\ thread[t].pc \in {"reap", "clear"}
    BY <2>3, GoToCourse
  <2> QED
    BY <2>1, <2>2, <2>3 DEF Onward
<1> QED
  BY <1>1, <1>2

LEMMA SettleCourse ==
  ASSUME TypeOK, NEW t \in Threads,
         CheckDebt(t) \/ ReadDebt(t) \/ Refund(t) \/ RefundFails(t) \/ Mark(t)
  PROVE  Course(t)
<1>1. CASE ReadDebt(t)
  <2>1. PICK pc : pc = IF Of(t).credit = 0 THEN "mark" ELSE "refund"
    OBVIOUS
  <2>2. /\ thread[t].pc = "owed" /\ OthersStay(t)
        /\ thread'[t] = [thread[t] EXCEPT !.pc = pc, !.amount = Of(t).credit]
    BY <1>1, <2>1 DEF ReadDebt, At, TypeOK, OthersStay
  <2>3. /\ thread'[t].pc = pc /\ thread'[t].op = thread[t].op /\ thread'[t].id = thread[t].id
        /\ thread'[t].amount = Of(t).credit
    BY <2>2 DEF TypeOK, Goroutine
  <2>4. pc \in Onward(t) /\ pc # "idle"
    BY <2>1, <2>2 DEF Onward
  <2> QED
    BY <2>2, <2>3, <2>4 DEF Course, Aborts
<1>2. CASE CheckDebt(t) \/ Refund(t) \/ RefundFails(t) \/ Mark(t)
  <2>1. /\ thread[t].pc \in {"debt", "refund", "mark"}
        /\ \/ Return(t) /\ "idle" \in Onward(t)
           \/ \E pc \in {"owed", "mark"} : GoTo(t, pc) /\ pc \in Onward(t)
    BY <1>2 DEF CheckDebt, Refund, RefundFails, Mark, At, Onward
  <2> QED
    BY <2>1, ReturnCourse, GoToCourse
<1> QED
  BY <1>1, <1>2

LEMMA SweepCourse ==
  ASSUME TypeOK, SweepStep
  PROVE  Course(Sweep)
<1>0. Sweep \in Threads
  BY DEF Threads
<1>1. Verdict(Of(Sweep)) \in {"end", "pause", "idle"}
      /\ (IsTerminal(Of(Sweep)) => Verdict(Of(Sweep)) = "idle")
  BY DEF Verdict, IsTerminal, Terminal
<1>2. /\ thread[Sweep].pc \in {"tick", "judge", "pause", "freeze"}
      /\ \/ Return(Sweep) /\ "idle" \in Onward(Sweep)
         \/ \E pc \in {"judge", "end", "pause", "freeze"} : GoTo(Sweep, pc) /\ pc \in Onward(Sweep)
  BY <1>1 DEF SweepStep, TickMeter, Judge, PauseLease, Freeze, FreezeFails, At, Onward
<1> QED
  BY <1>0, <1>2, ReturnCourse, GoToCourse

LEMMA WorksCourse ==
  ASSUME TypeOK, NEW t \in Threads, Works(t)
  PROVE  Course(t)
BY OpeningCourse, AbortCourse, TopUpCourse, EndCourse, SettleCourse, SweepCourse
   DEF Works, CreateStep, TopUpStep, EndStep

\* The steps that leave the ledger alone, that change a status, and that move money.
LEMMA HoldWrites ==
  ASSUME NEW t \in Threads, lease' = lease, thread[t].pc \notin {"meter", "bank", "mark", "burn", "tick"}
  PROVE  Writes(t)
BY DEF Writes, SameMoney

LEMMA StatusWrites ==
  ASSUME AgentInv, NEW t \in Threads,
         thread[t].pc \notin {"idle", "claim", "meter", "bank", "mark", "burn", "tick"},
         NEW record \in LeaseRecord, Update(t, record), SameMoney(record, Of(t)),
         thread'[t].pc = "reap" \/ IsTerminal(Of(t)) \/ ~IsTerminal(record)
  PROVE  Writes(t)
<1>1. TypeOK /\ thread[t].id \in DOMAIN lease /\ Of(t) = lease[thread[t].id]
  BY AtWork DEF AgentInv
<1>2. /\ DOMAIN lease' = DOMAIN lease
      /\ lease'[thread[t].id] = record
      /\ \A l \in DOMAIN lease : l # thread[t].id => lease'[l] = lease[l]
  BY <1>1, UpdateEffect
<1> QED
  BY <1>1, <1>2 DEF Writes

LEMMA StatusStepsWrites ==
  ASSUME AgentInv, NEW t \in Threads,
         Answering(t) \/ ProvisionFails(t) \/ StopLease(t) \/ Thaw(t) \/ (t = Sweep /\ PauseLease)
  PROVE  Writes(t)
<1>1. /\ thread[t].pc \in {"provision", "await", "end", "thaw", "pause"}
      /\ {"active", "failed", FinalStatus(thread[t].op)} \subseteq Status
      /\ {"active", "paused"} \cap Terminal = {}
  BY DEF Answering, ProvisionFails, StopLease, Thaw, PauseLease, At, Status, Live, Terminal, FinalStatus
<1>2. Of(t) \in LeaseRecord /\ clock \in Nat /\ thread[t].id \in DOMAIN lease /\ TypeOK
  BY <1>1, AtWork DEF AgentInv
<1>3. CASE Answering(t)
  <2>1. Update(t, SetStatus(Of(t), "active"))
    BY <1>3 DEF Answering
  <2>2. /\ SetStatus(Of(t), "active") \in LeaseRecord /\ SameMoney(SetStatus(Of(t), "active"), Of(t))
        /\ IsTerminal(Of(t)) \/ ~IsTerminal(SetStatus(Of(t), "active"))
    BY <1>1, <1>2, StatusMoves, StatusKeepsMoney DEF IsTerminal
  <2> QED
    BY <1>1, <2>1, <2>2, StatusWrites
<1>4. CASE ProvisionFails(t)
  <2>1. Update(t, SetStatus(Of(t), "failed")) /\ thread'[t].pc = "reap"
    BY <1>2, <1>4 DEF ProvisionFails, TypeOK
  <2>2. SetStatus(Of(t), "failed") \in LeaseRecord /\ SameMoney(SetStatus(Of(t), "failed"), Of(t))
    BY <1>1, <1>2, StatusMoves, StatusKeepsMoney
  <2> QED
    BY <1>1, <2>1, <2>2, StatusWrites
<1>5. CASE StopLease(t)
  <2> PICK status : status = FinalStatus(thread[t].op)
    OBVIOUS
  <2>1. Update(t, SetStatus(Of(t), status)) /\ (thread'[t].pc = "reap" \/ IsTerminal(Of(t)))
    BY <1>2, <1>5 DEF StopLease, TypeOK, GoTo
  <2>2. SetStatus(Of(t), status) \in LeaseRecord /\ SameMoney(SetStatus(Of(t), status), Of(t))
    BY <1>1, <1>2, StatusMoves, StatusKeepsMoney
  <2> QED
    BY <1>1, <2>1, <2>2, StatusWrites
<1>6. CASE Thaw(t)
  <2>1. Update(t, Resume(Of(t), clock))
    BY <1>6 DEF Thaw
  <2>2. /\ Resume(Of(t), clock) \in LeaseRecord /\ SameMoney(Resume(Of(t), clock), Of(t))
        /\ IsTerminal(Of(t)) \/ ~IsTerminal(Resume(Of(t), clock))
    BY <1>1, <1>2, StatusMoves, StatusKeepsMoney DEF IsTerminal
  <2> QED
    BY <1>1, <2>1, <2>2, StatusWrites
<1>7. CASE t = Sweep /\ PauseLease
  <2>1. Update(t, Pause(Of(t), clock))
    BY <1>7 DEF PauseLease
  <2>2. /\ Pause(Of(t), clock) \in LeaseRecord /\ SameMoney(Pause(Of(t), clock), Of(t))
        /\ IsTerminal(Of(t)) \/ ~IsTerminal(Pause(Of(t), clock))
    BY <1>1, <1>2, StatusMoves, StatusKeepsMoney DEF IsTerminal
  <2> QED
    BY <1>1, <2>1, <2>2, StatusWrites
<1> QED
  BY <1>3, <1>4, <1>5, <1>6, <1>7

LEMMA MoneyWrites ==
  ASSUME AgentInv, NEW t \in Threads,
         Meter(t) \/ Bank(t) \/ Mark(t) \/ FinalBurn(t) \/ (t = Sweep /\ TickMeter)
  PROVE  Writes(t)
<1> PICK id : id = thread[t].id
  OBVIOUS
<1> PICK k : k = lease[id]
  OBVIOUS
<1> PICK price : price = Price * OpeningSeconds
  OBVIOUS
<1>0. thread[t].pc \in {"meter", "bank", "mark", "burn", "tick"}
  BY DEF Meter, Bank, Mark, FinalBurn, TickMeter, At
<1>1. /\ TypeOK /\ id \in DOMAIN lease /\ Of(t) = k /\ k \in LeaseRecord
      /\ clock \in Nat /\ thread[t].amount \in Nat
  BY <1>0, AtWork DEF AgentInv
<1>2. price \in Nat /\ SessionSeconds \in Nat
  BY SecondsType, AgentAssumption
<1>3. ASSUME NEW record \in LeaseRecord, Update(t, record)
      PROVE  /\ DOMAIN lease' = DOMAIN lease
             /\ lease'[id] = record
             /\ \A l \in DOMAIN lease : l # id => lease'[l] = lease[l]
  BY <1>1, <1>3, UpdateEffect
<1>4. CASE Meter(t)
  <2> PICK n : n = MarkMetered(k, SessionSeconds, price, clock)
    OBVIOUS
  <2>1. thread[t].pc = "meter" /\ Update(t, n)
    BY <1>1, <1>4 DEF Meter, At
  <2>2. LET m == MarkMetered(k, SessionSeconds, price, clock)
        IN  /\ m \in LeaseRecord /\ m.status = k.status /\ m.metered
            /\ m.settle = "pending" /\ m.refunded = k.refunded /\ m.burned = 0 /\ m.credit = price
    BY ONLY <1>1, <1>2, MarkMeteredEffect
  <2>3. /\ n \in LeaseRecord /\ n.status = k.status /\ n.metered
        /\ n.settle = "pending" /\ n.refunded = k.refunded /\ n.burned = 0 /\ n.credit = price
    BY ONLY <2>2, n = MarkMetered(k, SessionSeconds, price, clock)
  <2>4. IsTerminal(k) <=> IsTerminal(n)
    BY <2>3 DEF IsTerminal
  <2> QED
    BY <1>3, <2>1, <2>3, <2>4 DEF Writes
<1>5. CASE Bank(t)
  <2> PICK n : n = AddCredit(k, thread[t].amount)
    OBVIOUS
  <2>1. thread[t].pc = "bank" /\ Update(t, n)
    BY <1>1, <1>5 DEF Bank, At
  <2>2. /\ n \in LeaseRecord /\ n.status = k.status
        /\ n.metered = k.metered /\ n.burned = k.burned
        /\ n.settle = k.settle /\ n.refunded = k.refunded
        /\ k.metered => n.credit = k.credit + thread[t].amount
        /\ ~k.metered => n = k
    BY <1>1, AddCreditMoves, MethodsKeep
  <2>4. IsTerminal(k) <=> IsTerminal(n)
    BY <2>2 DEF IsTerminal
  <2> QED
    BY <1>3, <2>1, <2>2, <2>4 DEF Writes
<1>6. CASE Mark(t)
  <2> PICK n : n = MarkSettled(k, thread[t].amount)
    OBVIOUS
  <2>1. thread[t].pc = "mark" /\ Update(t, n)
    BY <1>1, <1>6 DEF Mark, At
  <2>2. /\ n \in LeaseRecord /\ n.status = k.status
        /\ n.metered = k.metered /\ n.burned = k.burned
        /\ k.settle = "none" => n = k
        /\ k.settle # "none" => n.credit = 0 /\ n.settle = "done" /\ n.refunded = thread[t].amount
    BY <1>1, MarkSettledMoves, MethodsKeep
  <2>4. IsTerminal(k) <=> IsTerminal(n)
    BY <2>2 DEF IsTerminal
  <2> QED
    BY <1>3, <2>1, <2>2, <2>4 DEF Writes
<1>7. CASE FinalBurn(t) \/ (t = Sweep /\ TickMeter)
  <2> PICK n : n = Burn(k, clock)
    OBVIOUS
  <2>1. thread[t].pc \in {"burn", "tick"} /\ Update(t, n)
    BY <1>1, <1>7 DEF FinalBurn, TickMeter, At
  <2>2. /\ n \in LeaseRecord /\ n.status = k.status
        /\ n.metered = k.metered /\ n.burned + n.credit = k.burned + k.credit
        /\ n.settle = k.settle /\ n.refunded = k.refunded
        /\ k.credit = 0 => n.credit = 0
        /\ ~k.metered => n = k
    BY <1>1, BurnMoves, BurnKeeps
  <2>4. IsTerminal(k) <=> IsTerminal(n)
    BY <2>2 DEF IsTerminal
  <2> QED
    BY <1>3, <2>1, <2>2, <2>4 DEF Writes
<1> QED
  BY <1>4, <1>5, <1>6, <1>7

LEMMA WorksWrites ==
  ASSUME AgentInv, NEW t \in Threads, Works(t)
  PROVE  Writes(t)
<1>1. CASE \/ ClaimRefused(t) \/ Provision(t) \/ PointAt(t) \/ Reachable(t) \/ PublishFails(t)
           \/ Settle(t) \/ SettleFails(t) \/ Pay(t) \/ PayFails(t) \/ Unpause(t) \/ UnpauseFails(t)
  <2>1. lease' = lease /\ thread[t].pc \notin {"meter", "bank", "mark", "burn", "tick"}
    BY <1>1 DEF ClaimRefused, Provision, PointAt, Reachable, PublishFails, Settle, SettleFails,
                Pay, PayFails, Unpause, UnpauseFails, At
  <2> QED
    BY <2>1, HoldWrites
<1>2. CASE \/ Reap(t) \/ ReapFails(t) \/ Clear(t) \/ CheckDebt(t) \/ ReadDebt(t)
           \/ Refund(t) \/ RefundFails(t) \/ (t = Sweep /\ (Judge \/ Freeze \/ FreezeFails))
  <2>1. lease' = lease /\ thread[t].pc \notin {"meter", "bank", "mark", "burn", "tick"}
    BY <1>2 DEF Reap, ReapFails, Clear, CheckDebt, ReadDebt, Refund, RefundFails,
                Judge, Freeze, FreezeFails, At
  <2> QED
    BY <2>1, HoldWrites
<1> QED
  BY <1>1, <1>2, StatusStepsWrites, MoneyWrites DEF Works, CreateStep, TopUpStep, EndStep, SweepStep

LEMMA WorksBuilds ==
  ASSUME AgentInv, NEW t \in Threads, Works(t)
  PROVE  Builds(t)
<1>0. box \in [Leases -> {"none", "running", "frozen", "gone"}]
  BY DEF AgentInv, TypeOK
<1>1. CASE \/ ClaimRefused(t) \/ Answering(t) \/ ProvisionFails(t) \/ PointAt(t) \/ Reachable(t)
           \/ PublishFails(t) \/ Settle(t) \/ SettleFails(t) \/ Meter(t)
           \/ Pay(t) \/ PayFails(t) \/ Bank(t) \/ Thaw(t) \/ UnpauseFails(t)
  <2>1. box' = box /\ thread[t].pc # "reap"
    BY <1>1 DEF ClaimRefused, Answering, ProvisionFails, PointAt, Reachable, PublishFails, Settle,
                SettleFails, Meter, Pay, PayFails, Bank, Thaw, UnpauseFails, At
  <2> QED
    BY <2>1 DEF Builds
<1>2. CASE \/ FinalBurn(t) \/ StopLease(t) \/ Clear(t) \/ CheckDebt(t) \/ ReadDebt(t)
           \/ Refund(t) \/ RefundFails(t) \/ Mark(t)
           \/ (t = Sweep /\ (TickMeter \/ Judge \/ PauseLease \/ FreezeFails))
  <2>1. box' = box /\ thread[t].pc # "reap"
    BY <1>2 DEF FinalBurn, StopLease, Clear, CheckDebt, ReadDebt, Refund, RefundFails, Mark,
                TickMeter, Judge, PauseLease, FreezeFails, At
  <2> QED
    BY <2>1 DEF Builds
<1>3. CASE Provision(t)
  BY <1>0, <1>3 DEF Builds, Provision, At
<1>4. CASE Unpause(t) \/ (t = Sweep /\ Freeze)
  BY <1>0, <1>4 DEF Builds, Standing, Unpause, Freeze, At
<1>5. CASE Reap(t)
  BY <1>0, <1>5 DEF Builds, Standing, Reap, At
<1>6. CASE ReapFails(t)
  <2>1. thread[t].pc = "reap" /\ Unremoved(thread[t].id)
    BY <1>6 DEF ReapFails, At, Unremoved
  <2>2. box' = box \/ box' = [box EXCEPT ![thread[t].id] = "running"]
    BY <1>6 DEF ReapFails
  <2> QED
    BY <1>0, <2>1, <2>2 DEF Builds
<1> QED
  BY <1>1, <1>2, <1>3, <1>4, <1>5, <1>6 DEF Works, CreateStep, TopUpStep, EndStep, SweepStep

LEMMA WorksTunnels ==
  ASSUME AgentInv, NEW t \in Threads, Works(t)
  PROVE  Tunnels(t)
<1>0. TypeOK /\ {"reach", "end"} \subseteq Pc
  BY DEF AgentInv, Pc
<1>1. CASE \/ ClaimRefused(t) \/ Provision(t) \/ Answering(t) \/ ProvisionFails(t) \/ Reachable(t)
           \/ Settle(t) \/ SettleFails(t) \/ Meter(t)
           \/ Pay(t) \/ PayFails(t) \/ Bank(t) \/ Thaw(t) \/ Unpause(t) \/ UnpauseFails(t)
  <2>1. tunnel' = tunnel /\ thread[t].pc \notin {"publish", "clear"}
    BY <1>1 DEF ClaimRefused, Provision, Answering, ProvisionFails, Reachable, Settle,
                SettleFails, Meter, Pay, PayFails, Bank, Thaw, Unpause, UnpauseFails, At
  <2> QED
    BY <2>1 DEF Tunnels
<1>2. CASE \/ FinalBurn(t) \/ StopLease(t) \/ Reap(t) \/ ReapFails(t) \/ CheckDebt(t) \/ ReadDebt(t)
           \/ Refund(t) \/ RefundFails(t) \/ Mark(t)
           \/ (t = Sweep /\ (TickMeter \/ Judge \/ PauseLease \/ Freeze \/ FreezeFails))
  <2>1. tunnel' = tunnel /\ thread[t].pc \notin {"publish", "clear"}
    BY <1>2 DEF FinalBurn, StopLease, Reap, ReapFails, CheckDebt, ReadDebt, Refund, RefundFails, Mark,
                TickMeter, Judge, PauseLease, Freeze, FreezeFails, At
  <2> QED
    BY <2>1 DEF Tunnels
<1>3. CASE PointAt(t)
  BY <1>0, <1>3 DEF PointAt, At, GoTo, Tunnels, TypeOK
<1>4. CASE PublishFails(t)
  BY <1>0, <1>4 DEF PublishFails, At, GoTo, Tunnels, TypeOK
<1>5. CASE Clear(t)
  BY <1>5 DEF Clear, At, Tunnels
<1> QED
  BY <1>1, <1>2, <1>3, <1>4, <1>5 DEF Works, CreateStep, TopUpStep, EndStep, SweepStep

LEMMA WorksPays ==
  ASSUME AgentInv, NEW t \in Threads, Works(t)
  PROVE  Pays(t)
<1>0. /\ TypeOK /\ paid \in [Leases -> Nat] /\ returned \in [Leases -> Nat] /\ faults \in Nat
      /\ {"bank", "meter", "mark", "end"} \subseteq Pc
  BY AgentAssumption DEF AgentInv, TypeOK, Pc
<1> PICK price : price = Price * OpeningSeconds
  OBVIOUS
<1>1. CASE \/ ClaimRefused(t) \/ Provision(t) \/ Answering(t) \/ ProvisionFails(t) \/ PointAt(t)
           \/ Reachable(t) \/ PublishFails(t) \/ Meter(t)
           \/ Bank(t) \/ Thaw(t) \/ Unpause(t) \/ UnpauseFails(t)
  <2>1. paid' = paid /\ returned' = returned /\ thread[t].pc \notin {"settle", "pay", "refund"}
    BY <1>1 DEF ClaimRefused, Provision, Answering, ProvisionFails, PointAt, Reachable, PublishFails,
                Meter, Bank, Thaw, Unpause, UnpauseFails, At
  <2> QED
    BY <2>1 DEF Pays
<1>2. CASE \/ FinalBurn(t) \/ StopLease(t) \/ Reap(t) \/ ReapFails(t) \/ Clear(t)
           \/ CheckDebt(t) \/ ReadDebt(t) \/ Mark(t)
           \/ (t = Sweep /\ (TickMeter \/ Judge \/ PauseLease \/ Freeze \/ FreezeFails))
  <2>1. paid' = paid /\ returned' = returned /\ thread[t].pc \notin {"settle", "pay", "refund"}
    BY <1>2 DEF FinalBurn, StopLease, Reap, ReapFails, Clear, CheckDebt, ReadDebt, Mark,
                TickMeter, Judge, PauseLease, Freeze, FreezeFails, At
  <2> QED
    BY <2>1 DEF Pays
<1>3. CASE Settle(t) \/ SettleFails(t) \/ Pay(t) \/ PayFails(t)
  <2> PICK sum : sum = IF thread[t].pc = "settle" THEN price ELSE thread[t].amount
    OBVIOUS
  <2>0. \A pc \in Pc : GoTo(t, pc) => thread'[t].pc = pc
    BY <1>0, GoToEffect
  <2>9. Return(t) => thread'[t].pc = "idle"
    BY <1>0, ReturnEffect
  <2>7. thread[t].pc \in {"settle", "pay"} /\ returned' = returned
    BY <1>3 DEF Settle, SettleFails, Pay, PayFails, At
  <2>8. \/ /\ thread'[t].pc \in {"meter", "bank"}
           /\ paid' = [paid EXCEPT ![thread[t].id] = paid[thread[t].id] + sum]
        \/ /\ thread'[t].pc \in {"end", "idle"}
           /\ \/ paid' = paid
              \/ /\ faults' = faults + 1
                 /\ paid' = [paid EXCEPT ![thread[t].id] = paid[thread[t].id] + sum]
    <3>1. CASE Settle(t)
      BY <1>0, <2>0, <3>1 DEF Settle, At
    <3>2. CASE SettleFails(t)
      BY <1>0, <2>0, <3>2 DEF SettleFails, At, Fault
    <3>3. CASE Pay(t)
      BY <1>0, <2>0, <3>3 DEF Pay, At
    <3>4. CASE PayFails(t)
      BY <2>9, <3>4 DEF PayFails, At, Fault
    <3> QED
      BY <1>3, <3>1, <3>2, <3>3, <3>4
  <2>1. /\ thread[t].pc \in {"settle", "pay"} /\ returned' = returned
        /\ \/ /\ thread'[t].pc \in {"meter", "bank"}
              /\ paid' = [paid EXCEPT ![thread[t].id] = paid[thread[t].id] + sum]
           \/ /\ thread'[t].pc \in {"end", "idle"}
              /\ \/ paid' = paid
                 \/ /\ faults' = faults + 1
                    /\ paid' = [paid EXCEPT ![thread[t].id] = paid[thread[t].id] + sum]
    BY <2>7, <2>8
  <2>2. thread[t].id \in Leases
    BY <2>1, AtWork
  <2>3. faults' = faults + 1 => faults' > faults
    BY <1>0
  <2>4. sum = IF thread[t].pc = "settle" THEN Price * OpeningSeconds ELSE thread[t].amount
    OBVIOUS
  <2>5. \A l \in Leases : l # thread[t].id => paid'[l] = paid[l]
    BY <1>0, <2>1
  <2>6. \/ thread'[t].pc \in {"meter", "bank"} /\ paid'[thread[t].id] = paid[thread[t].id] + sum
        \/ /\ thread'[t].pc \in {"end", "idle"}
           /\ paid' = paid \/ (faults' > faults /\ paid'[thread[t].id] = paid[thread[t].id] + sum)
    BY <1>0, <2>1, <2>2, <2>3
  <2> QED
    BY <2>1, <2>4, <2>5, <2>6 DEF Pays
<1>4. CASE Refund(t) \/ RefundFails(t)
  <2> PICK sum : sum = thread[t].amount
    OBVIOUS
  <2>8. /\ GoTo(t, "mark") => thread'[t].pc = "mark"
        /\ Return(t) => thread'[t].pc = "idle"
    BY <1>0, GoToEffect, ReturnEffect
  <2>9. /\ thread[t].pc = "refund" /\ paid' = paid
        /\ RefundFails(t) =>
             /\ Return(t)
             /\ \/ returned' = returned
                \/ /\ faults' = faults + 1
                   /\ returned' = [returned EXCEPT ![thread[t].id] = returned[thread[t].id] + sum]
        /\ Refund(t) =>
             /\ GoTo(t, "mark")
             /\ returned' = [returned EXCEPT ![thread[t].id] = returned[thread[t].id] + sum]
    BY <1>4 DEF Refund, RefundFails, At, Fault
  <2>1. /\ thread[t].pc = "refund" /\ paid' = paid
        /\ \/ /\ thread'[t].pc = "mark"
              /\ returned' = [returned EXCEPT ![thread[t].id] = returned[thread[t].id] + sum]
           \/ /\ thread'[t].pc = "idle" /\ RefundFails(t)
              /\ \/ returned' = returned
                 \/ /\ faults' = faults + 1
                    /\ returned' = [returned EXCEPT ![thread[t].id] = returned[thread[t].id] + sum]
    BY <1>4, <2>8, <2>9
  <2>2. thread[t].id \in Leases
    BY <2>1, AtWork
  <2>3. faults' = faults + 1 => faults' > faults
    BY <1>0
  <2>5. \A l \in Leases : l # thread[t].id => returned'[l] = returned[l]
    BY <1>0, <2>1
  <2>6. RefundFails(t) => Refused(thread[t].id)
    BY DEF Refused
  <2>7. \/ thread'[t].pc = "mark" /\ returned'[thread[t].id] = returned[thread[t].id] + sum
        \/ /\ thread'[t].pc = "idle" /\ Refused(thread[t].id)
           /\ \/ returned' = returned
              \/ faults' > faults /\ returned'[thread[t].id] = returned[thread[t].id] + sum
    BY <1>0, <2>1, <2>2, <2>3, <2>6
  <2> QED
    BY <2>1, <2>5, <2>7 DEF Pays
<1> QED
  BY <1>1, <1>2, <1>3, <1>4 DEF Works, CreateStep, TopUpStep, EndStep, SweepStep

\* Work begins on nothing yet, or on the lease in the slot.
LEMMA StartsWork ==
  ASSUME AgentInv, NEW t \in Threads,
         \/ t \in Requests /\ (CreateSession(t) \/ TopUpSession(t) \/ StopSession(t))
         \/ t = Owner /\ EndLease
         \/ t = Sweep /\ SweepLeases
  PROVE  Started(t)
<1>0. thread \in [Threads -> Goroutine] /\ slot \in DOMAIN lease \cup {NoLease}
  BY DEF AgentInv, TypeOK
<1>1. ASSUME NEW pc, NEW op, NEW id, NEW amount, Begin(t, pc, op, id, amount)
      PROVE  /\ OthersStay(t) /\ thread[t].pc = "idle"
             /\ thread'[t] = [pc |-> pc, op |-> op, id |-> id, amount |-> amount]
             /\ thread'[t].pc = pc /\ thread'[t].op = op /\ thread'[t].id = id
  BY <1>0, <1>1 DEF Begin, OthersStay, At
<1>2. CASE CreateSession(t)
  BY <1>1, <1>2 DEF CreateSession, Started
<1>3. CASE TopUpSession(t)
  <2> PICK amount : amount = lease[slot].price * TopUpSeconds(lease[slot])
    OBVIOUS
  <2>1. Begin(t, "pay", "topup", slot, amount) /\ slot \in DOMAIN lease
    BY <1>0, <1>3 DEF TopUpSession, SlotTaken
  <2>2. UNCHANGED <<lease, slot, box, tunnel, paid, returned>>
    BY <1>3 DEF TopUpSession
  <2>3. /\ OthersStay(t) /\ thread[t].pc = "idle"
        /\ thread'[t].pc = "pay" /\ thread'[t].op = "topup" /\ thread'[t].id = slot
    BY <1>1, <2>1
  <2> QED
    BY <2>1, <2>2, <2>3 DEF Started
<1>4. CASE StopSession(t) \/ (t = Owner /\ EndLease)
  <2>1. PICK pc \in {"burn", "end"} : Begin(t, pc, "stop", slot, 0) /\ slot \in DOMAIN lease
    BY <1>0, <1>4 DEF StopSession, EndLease, SlotTaken, AfterStop
  <2>2. UNCHANGED <<lease, slot, box, tunnel, paid, returned>>
    BY <1>4 DEF StopSession, EndLease
  <2>3. /\ OthersStay(t) /\ thread[t].pc = "idle"
        /\ thread'[t].pc = pc /\ thread'[t].op = "stop" /\ thread'[t].id = slot
    BY <1>1, <2>1
  <2> QED
    BY <2>1, <2>2, <2>3 DEF Started
<1>5. CASE t = Sweep /\ SweepLeases
  <2>1. PICK pc \in {"debt", "tick", "judge"} : Begin(t, pc, "sweep", slot, 0) /\ slot \in DOMAIN lease
    BY <1>0, <1>5 DEF SweepLeases
  <2>2. UNCHANGED <<lease, slot, box, tunnel, paid, returned>>
    BY <1>5 DEF SweepLeases
  <2>3. /\ OthersStay(t) /\ thread[t].pc = "idle"
        /\ thread'[t].pc = pc /\ thread'[t].op = "sweep" /\ thread'[t].id = slot
    BY <1>1, <2>1
  <2> QED
    BY <2>1, <2>2, <2>3 DEF Started
<1> QED
  BY <1>2, <1>3, <1>4, <1>5

\* The slot is claimed for a lease nobody works on, and no other is live.
Claimed(t, l) ==
  /\ l \in Leases \ DOMAIN lease
  /\ DOMAIN lease' = DOMAIN lease \cup {l}
  /\ Blank(lease'[l]) /\ lease'[l].settle = "none" /\ lease'[l].refunded = 0
  /\ IsLive(l)'
  /\ \A k \in DOMAIN lease : lease'[k] = lease[k] /\ IsTerminal(lease[k])
  /\ OthersStay(t)
  /\ thread[t].pc = "claim"
  /\ thread'[t].pc = "provision" /\ thread'[t].id = l /\ thread'[t].op = thread[t].op
  /\ UNCHANGED <<box, tunnel, paid, returned>>
  /\ paid[l] = 0 /\ returned[l] = 0
  /\ \A u \in Threads : thread[u].pc \notin {"idle", "claim"} => thread[u].id # l

LEMMA ClaimsSlot ==
  ASSUME AgentInv, BooksInv, NEW r \in Requests, ClaimSlot(r)
  PROVE  \E l \in Leases : Claimed(r, l)
<1>1. /\ TypeOK /\ r \in Threads
      /\ lease \in [DOMAIN lease -> LeaseRecord] /\ DOMAIN lease \subseteq Leases
  BY DEF AgentInv, TypeOK, Threads
<1>2. PICK l \in Leases \ DOMAIN lease :
        /\ lease' = [k \in DOMAIN lease \cup {l} |->
                       IF k = l THEN NewLease(OpeningSeconds, clock) ELSE lease[k]]
        /\ thread' = [thread EXCEPT ![r].pc = "provision", ![r].id = l]
  BY DEF ClaimSlot
<1>3. /\ ~SlotTaken /\ thread[r].pc = "claim"
      /\ UNCHANGED <<box, tunnel, paid, returned>>
  BY DEF ClaimSlot, At
<1>4. /\ DOMAIN lease' = DOMAIN lease \cup {l}
      /\ lease'[l].credit = 0 /\ lease'[l].burned = 0 /\ ~lease'[l].metered
      /\ lease'[l].settle = "none" /\ lease'[l].refunded = 0 /\ lease'[l].status = "provisioning"
      /\ \A k \in DOMAIN lease : lease'[k] = lease[k]
  <2>1. clock \in Nat /\ OpeningSeconds \in Nat
    BY <1>1, SecondsType, AgentAssumption DEF TypeOK
  <2>2. lease'[l] = NewLease(OpeningSeconds, clock)
    BY <1>2
  <2> QED
    BY <1>1, <1>2, <2>1, <2>2, NewLeaseType
<1>5. IsLive(l)'
  BY <1>4 DEF IsLive, IsTerminal, Terminal
<1>6. \A k \in DOMAIN lease : IsTerminal(lease[k])
  <2>1. \A k \in Leases : ~IsLive(k)
    BY <1>3, AgentAssumption DEF AgentInv, OneLiveLease, SlotTaken, IsLive
  <2> QED
    BY <1>1, <2>1 DEF IsLive
<1>7. OthersStay(r) /\ thread'[r].pc = "provision" /\ thread'[r].id = l /\ thread'[r].op = thread[r].op
  BY <1>1, <1>2 DEF TypeOK, Goroutine, OthersStay
<1>8. paid[l] = 0 /\ returned[l] = 0
  BY <1>2 DEF AgentInv, BooksInv
<1>9. \A u \in Threads : thread[u].pc \notin {"idle", "claim"} => thread[u].id # l
  BY <1>2 DEF AgentInv
<1>10. Claimed(r, l)
  BY <1>2, <1>3, <1>4, <1>5, <1>6, <1>7, <1>8, <1>9 DEF Claimed, Blank
<1> QED
  BY <1>10

\* Every step is one of these, or the passing of time.
Rests == UNCHANGED <<lease, slot, box, tunnel, thread, paid, returned>>

LEMMA StepKinds ==
  ASSUME AgentInv, BooksInv, [Next]_vars
  PROVE  \/ \E t \in Threads : /\ Works(t) /\ Course(t) /\ Writes(t)
                               /\ Builds(t) /\ Tunnels(t) /\ Pays(t)
         \/ \E t \in Threads : Started(t)
         \/ \E t \in Threads, l \in Leases : Claimed(t, l)
         \/ Rests
<1>0. TypeOK /\ Requests \subseteq Threads /\ {Sweep, Owner} \subseteq Threads
  BY DEF AgentInv, Threads
<1>1. ASSUME NEW t \in Threads, Works(t)
      PROVE  Works(t) /\ Course(t) /\ Writes(t) /\ Builds(t) /\ Tunnels(t) /\ Pays(t)
  BY <1>0, <1>1, WorksCourse, WorksWrites, WorksBuilds, WorksTunnels, WorksPays
<1>2. CASE \E r \in Requests : CreateSession(r) \/ TopUpSession(r) \/ StopSession(r)
  BY <1>0, <1>2, StartsWork
<1>3. CASE EndLease \/ SweepLeases
  BY <1>0, <1>3, StartsWork
<1>4. CASE ThreadStep
  <2>1. CASE \E r \in Requests : ClaimSlot(r)
    BY <1>0, <2>1, ClaimsSlot
  <2>2. CASE ~\E r \in Requests : ClaimSlot(r)
    <3>1. \E t \in Threads : Works(t)
      BY <1>0, <1>4, <2>2 DEF ThreadStep, Works
    <3> QED
      BY <1>1, <3>1
  <2> QED
    BY <2>1, <2>2
<1>5. CASE Tick \/ UNCHANGED vars
  BY <1>5 DEF Tick, vars, Rests
<1> QED
  BY <1>2, <1>3, <1>4, <1>5 DEF Next

-----------------------------------------------------------------------------
(* What else is true of every lease, whatever happens to it.               *)

\* A goroutine that opens a lease, from the claim of the slot to its end.
Creates(t) == thread[t].op \in {"create", "abort"} /\ thread[t].pc \notin {"idle", "claim"}

\* Where a goroutine is on its way to end a lease, or to settle one that has ended.
Closing == {"burn", "tick", "judge", "pause", "end", "reap", "clear", "debt"} \cup Settling

RoleOK(w) ==
  /\ w.pc \in Opening \cup {"claim"} => w.op = "create"
  /\ w.op = "abort" => w.pc = "reap"
  /\ w.op = "create" => w.pc \in Opening \cup {"claim", "end", "reap", "clear"}
  /\ w.pc \in Closing => w.op \in {"create", "abort", "stop", "sweep"}

\* A lease is settled when it has been metered, and ended.
SettleOK(l) ==
  /\ ~l.metered <=> l.settle = "none"
  /\ ~l.metered => Blank(l)
  /\ l.settle # "done" => l.refunded = 0
  /\ l.settle = "done" => IsTerminal(l)

\* A lease has one goroutine that opens it, on a ledger that stays blank until it
\* is metered, which is the last thing it does.
RoleInv ==
  /\ \A t \in Threads : RoleOK(thread[t])
  /\ \A t \in Threads : Creates(t) => Blank(lease[thread[t].id])
  /\ \A t, u \in Threads : Creates(t) /\ Creates(u) /\ thread[t].id = thread[u].id => t = u
  /\ \A l \in DOMAIN lease : SettleOK(lease[l])

(* What is true of a lease that has been spared.                           *)

\* A lease that is over while it is being opened was ended early.
EarlyInv ==
  \A t \in Threads :
    thread[t].pc \in Opening /\ IsTerminal(lease[thread[t].id]) => "early" \in amiss[thread[t].id]

\* Only its own goroutines meddle with the tunnel of a lease that was not crowded,
\* and whoever opens it has pointed the tunnel at it before it is metered.  The
\* tunnel does not point at a lease before it is published.
TunnelInv ==
  /\ \A l \in DOMAIN lease : IsLive(l) /\ Spared(l, {"crowded"}) =>
       /\ \A t \in Threads : thread[t].pc \in Meddling => thread[t].id = l
       /\ \A t \in Threads : WorksOn(t, l, {"reach", "settle", "meter"}) => tunnel = l
  /\ \A t \in Threads :
       thread[t].pc \in {"provision", "await", "publish"} \/ thread[t].op = "abort"
         => tunnel # thread[t].id
  /\ TunnelServesTheHolder

\* Credit left on a settled session came too late.
OwesInv ==
  /\ \A l \in DOMAIN lease : lease[l].settle = "done" /\ lease[l].credit > 0 => "late" \in amiss[l]
  /\ EndedOwesNothing

\* One goroutine settles a session, and what it has read is what is owed.
SettlesAlone(l) ==
  /\ \A t, u \in Threads : WorksOn(t, l, Settling) /\ WorksOn(u, l, Settling) => t = u
  /\ \A t \in Threads : WorksOn(t, l, Settling) => lease[l].settle = "pending"
  /\ \A t \in Threads : WorksOn(t, l, Refunding) => thread[t].amount = lease[l].credit

\* What the books of a session come to, and what was transferred back.
Booked(l) == lease[l].burned + lease[l].credit + lease[l].refunded

Repaid(l) ==
  /\ \A t \in Threads : WorksOn(t, l, {"mark"}) => returned[l] = thread[t].amount
  /\ ~BeingMarked(l) => returned[l] = lease[l].refunded

Balanced(l) == paid[l] = Booked(l) + HeldFor(l) /\ Repaid(l)

MoneyOK(l) == SettlesAlone(l) /\ (Spared(l, {"lost"}) => Balanced(l))

MoneyInv == \A l \in DOMAIN lease : Spared(l, {"crossed"}) => MoneyOK(l)

-----------------------------------------------------------------------------
(* Each of them is kept.                                                   *)

\* Where a goroutine at work can have come from.
LEMMA CourseRoles ==
  ASSUME NEW t \in Threads, Course(t), RoleOK(thread[t])
  PROVE  /\ RoleOK(thread'[t])
         /\ Creates(t)' => Creates(t) /\ thread'[t].id = thread[t].id /\ thread[t].pc # "meter"
<1>1. CASE thread'[t].pc = "idle"
  BY <1>1 DEF Course, Idle, RoleOK, Creates, Opening, Closing, Settling
<1>2. CASE thread'[t].pc # "idle"
  <2>1. /\ thread'[t].id = thread[t].id
        /\ thread'[t].op = IF Aborts(t) THEN "abort" ELSE thread[t].op
        /\ thread'[t].pc \in Onward(t) /\ thread[t].pc # "idle"
    BY <1>2 DEF Course
  <2>2. thread[t].pc \notin {"claim", "meter"}
    BY <1>2, <2>1 DEF Onward
  <2>3. CASE Aborts(t)
    <3>1. thread'[t].op = "abort" /\ thread'[t].pc = "reap" /\ thread[t].op = "create"
      BY <2>1, <2>3 DEF Aborts, RoleOK, Opening
    <3> QED
      BY <2>1, <2>2, <3>1 DEF RoleOK, Creates, Opening, Closing, Settling
  <2>4. CASE ~Aborts(t)
    <3>1. thread'[t].op = thread[t].op
      BY <2>1, <2>4
    <3>2. thread'[t].pc \in Opening \cup {"claim"} => thread[t].pc \in Opening
      BY <2>1 DEF Onward, Opening
    <3>3. thread[t].op # "abort"
      BY <1>2, <2>1 DEF RoleOK, Onward
    <3>4. thread[t].op = "create" => thread'[t].pc \in Opening \cup {"end", "reap", "clear"}
      BY <1>2, <2>1 DEF RoleOK, Onward, Opening
    <3>5. thread'[t].pc \in Closing => thread[t].pc \in Closing \cup Opening
      BY <2>1 DEF Onward, Closing, Opening, Settling
    <3>7. thread'[t].pc \in Closing => thread[t].op \in {"create", "abort", "stop", "sweep"}
      BY <3>5 DEF RoleOK
    <3>8. RoleOK(thread'[t])
      BY <3>1, <3>2, <3>3, <3>4, <3>7 DEF RoleOK
    <3> QED
      BY <2>1, <2>2, <3>1, <3>8 DEF Creates
  <2> QED
    BY <2>3, <2>4
<1> QED
  BY <1>1, <1>2

\* A blank ledger stays blank until it is metered, and a settlement stays one.
LEMMA WritesLedger ==
  ASSUME AgentInv, NEW t \in Threads, Writes(t), OverStaysOver,
         thread[t].pc # "idle",
         NEW l \in DOMAIN lease, SettleOK(lease[l]), thread[t].pc = "meter" /\ thread[t].id = l => Blank(lease[l])
  PROVE  /\ SettleOK(lease'[l])
         /\ Blank(lease[l]) /\ ~(thread[t].pc = "meter" /\ thread[t].id = l) => Blank(lease'[l])
<1>1. CASE thread[t].id # l
  <2>1. lease'[l] = lease[l]
    BY <1>1 DEF Writes
  <2>2. IsTerminal(lease[l]) => IsTerminal(lease'[l])
    BY DEF OverStaysOver, IsTerminal
  <2> QED
    BY <1>1, <2>1, <2>2 DEF SettleOK, Blank
<1>2. CASE thread[t].id = l
  <2> PICK k : k = lease[l]
    OBVIOUS
  <2> PICK n : n = lease'[l]
    OBVIOUS
  <2>1. IsTerminal(k) => IsTerminal(n)
    BY DEF OverStaysOver, IsTerminal
  <2>2. CASE thread[t].pc = "meter"
    BY <1>2, <2>1, <2>2 DEF Writes, SettleOK, Blank
  <2>3. CASE thread[t].pc = "bank"
    BY <1>2, <2>1, <2>3 DEF Writes, SettleOK, Blank
  <2>4. CASE thread[t].pc = "mark"
    <3>1. IsTerminal(k)
      BY <1>2, <2>4 DEF AgentInv, Ending, IsLive
    <3> QED
      BY <1>2, <2>1, <2>4, <3>1 DEF Writes, SettleOK, Blank
  <2>5. CASE thread[t].pc \in {"burn", "tick"}
    BY <1>2, <2>1, <2>5 DEF Writes, SettleOK, Blank
  <2>6. CASE thread[t].pc \notin {"meter", "bank", "mark", "burn", "tick"}
    BY <1>2, <2>1, <2>6 DEF Writes, SettleOK, Blank, SameMoney
  <2> QED
    BY <1>2, <2>2, <2>3, <2>4, <2>5, <2>6
<1> QED
  BY <1>1, <1>2

LEMMA WorksRoles ==
  ASSUME AgentInv, RoleInv, OverStaysOver, NEW t \in Threads, Course(t), Writes(t)
  PROVE  RoleInv'
<1>1. /\ \A u \in Threads \ {t} : thread'[u] = thread[u]
      /\ thread[t].pc # "idle" /\ DOMAIN lease' = DOMAIN lease
  BY DEF Course, OthersStay, Writes
<1>2. \A u \in Threads : RoleOK(thread[u])
  BY DEF RoleInv
<1>3. /\ RoleOK(thread'[t])
      /\ Creates(t)' => Creates(t) /\ thread'[t].id = thread[t].id /\ thread[t].pc # "meter"
  BY <1>2, CourseRoles
<1>4. \A u \in Threads : RoleOK(thread'[u])
  BY <1>1, <1>2, <1>3
<1>5. \A u \in Threads : /\ Creates(u)' => Creates(u) /\ thread'[u].id = thread[u].id
                         /\ Creates(u)' /\ u = t => thread[t].pc # "meter"
  BY <1>1, <1>3 DEF Creates
<1>6. \A u, v \in Threads : Creates(u)' /\ Creates(v)' /\ thread'[u].id = thread'[v].id => u = v
  BY <1>5 DEF RoleInv
<1>7. thread[t].pc = "meter" => Creates(t)
  BY <1>2 DEF RoleOK, Opening, Creates
<1>8. ASSUME NEW l \in DOMAIN lease
      PROVE  /\ SettleOK(lease'[l])
             /\ Blank(lease[l]) /\ ~(thread[t].pc = "meter" /\ thread[t].id = l) => Blank(lease'[l])
  <2>1. SettleOK(lease[l]) /\ (thread[t].pc = "meter" /\ thread[t].id = l => Blank(lease[l]))
    BY <1>7 DEF RoleInv
  <2> QED
    BY <1>1, <2>1, WritesLedger
<1>9. ASSUME NEW u \in Threads, Creates(u)' PROVE Blank(lease'[thread'[u].id])
  <2>1. Creates(u) /\ thread'[u].id = thread[u].id /\ Blank(lease[thread[u].id])
    BY <1>5, <1>9 DEF RoleInv
  <2>2. thread[u].id \in DOMAIN lease
    BY <2>1 DEF AgentInv, Creates
  <2>3. ~(thread[t].pc = "meter" /\ thread[t].id = thread[u].id)
    BY <1>5, <1>7, <1>9, <2>1 DEF RoleInv
  <2> QED
    BY <1>8, <2>1, <2>2, <2>3
<1> QED
  BY <1>1, <1>4, <1>6, <1>8, <1>9 DEF RoleInv

LEMMA StartedRoles ==
  ASSUME RoleInv, NEW t \in Threads, Started(t)
  PROVE  RoleInv'
<1>1. /\ \A u \in Threads \ {t} : thread'[u] = thread[u]
      /\ lease' = lease
  BY DEF Started, OthersStay
<1>2. RoleOK(thread'[t]) /\ ~Creates(t)'
  BY DEF Started, RoleOK, Creates, Opening, Closing, Settling
<1>3. \A u \in Threads : RoleOK(thread'[u])
  BY <1>1, <1>2 DEF RoleInv
<1>4. \A u \in Threads : Creates(u)' => Creates(u) /\ thread'[u] = thread[u]
  BY <1>1, <1>2 DEF Creates
<1> QED
  BY <1>1, <1>3, <1>4 DEF RoleInv

LEMMA ClaimedRoles ==
  ASSUME AgentInv, RoleInv, NEW t \in Threads, NEW l \in Leases, Claimed(t, l)
  PROVE  RoleInv'
<1>1. /\ \A u \in Threads \ {t} : thread'[u] = thread[u]
      /\ DOMAIN lease' = DOMAIN lease \cup {l} /\ \A k \in DOMAIN lease : lease'[k] = lease[k]
      /\ l \notin DOMAIN lease
  BY DEF Claimed, OthersStay
<1>2. thread[t].op = "create"
  BY DEF Claimed, RoleInv, RoleOK
<1>3. RoleOK(thread'[t]) /\ thread'[t].id = l /\ Blank(lease'[l])
  BY <1>2 DEF Claimed, RoleOK, Opening, Closing, Settling
<1>4. \A u \in Threads : RoleOK(thread'[u])
  BY <1>1, <1>3 DEF RoleInv
<1>5. \A u \in Threads \ {t} : Creates(u)' => /\ Creates(u) /\ thread'[u] = thread[u]
                                              /\ thread[u].id \in DOMAIN lease
  BY <1>1 DEF Creates, AgentInv
<1>6. \A k \in DOMAIN lease' : SettleOK(lease'[k])
  <2>1. SettleOK(lease'[l])
    BY DEF Claimed, SettleOK, Blank
  <2> QED
    BY <1>1, <2>1 DEF RoleInv
<1>7. \A u \in Threads : Creates(u)' => Blank(lease'[thread'[u].id])
  BY <1>1, <1>3, <1>5 DEF RoleInv
<1>8. \A u, v \in Threads : Creates(u)' /\ Creates(v)' /\ thread'[u].id = thread'[v].id => u = v
  BY <1>1, <1>3, <1>5 DEF RoleInv
<1> QED
  BY <1>4, <1>6, <1>7, <1>8 DEF RoleInv

LEMMA NextRoles ==
  ASSUME AgentInv, BooksInv, RoleInv, [Next]_vars
  PROVE  RoleInv'
<1>1. OverStaysOver
  BY NextAgentInv
<1>2. CASE \E t \in Threads : Course(t) /\ Writes(t)
  BY <1>1, <1>2, WorksRoles
<1>3. CASE \E t \in Threads : Started(t)
  BY <1>3, StartedRoles
<1>4. CASE \E t \in Threads, l \in Leases : Claimed(t, l)
  BY <1>4, ClaimedRoles
<1>5. CASE Rests
  BY <1>5 DEF Rests, RoleInv, Creates
<1> QED
  BY <1>2, <1>3, <1>4, <1>5, StepKinds

LEMMA InitRoles == Init => RoleInv
<1> SUFFICES ASSUME Init PROVE RoleInv
  OBVIOUS
<1>1. DOMAIN lease = {} /\ \A t \in Threads : thread[t].pc = "idle" /\ thread[t].op = "none"
  BY DEF Init, Idle
<1> QED
  BY <1>1 DEF RoleInv, RoleOK, Creates, Opening, Closing, Settling

-----------------------------------------------------------------------------
(* What is written down, and what follows from it not having been.         *)

\* Mishaps are never struck out, and none that happens is left out.
Recorded ==
  /\ \A l \in Leases : amiss[l] \subseteq amiss'[l]
  /\ \A l \in Leases, m \in Mishap : Happens(l, m) => m \in amiss'[l]

LEMMA HistoryGrows ==
  ASSUME HistoryOK, HNext
  PROVE  HistoryOK' /\ Recorded
<1>1. amiss' = [l \in Leases |-> amiss[l] \cup {m \in Mishap : Happens(l, m)}]
  BY DEF HNext
<1>2. \A l \in Leases : amiss'[l] = amiss[l] \cup {m \in Mishap : Happens(l, m)}
  BY <1>1
<1>3. \A l \in Leases : amiss[l] \subseteq Mishap
  BY DEF HistoryOK
<1>4. HistoryOK'
  BY <1>1, <1>2, <1>3 DEF HistoryOK
<1> QED
  BY <1>2, <1>4 DEF Recorded

LEMMA NotAmiss ==
  ASSUME Recorded, NEW l \in Leases
  PROVE  /\ "lost" \notin amiss'[l] => "lost" \notin amiss[l] /\ ~Lost(l)
         /\ "refused" \notin amiss'[l] => "refused" \notin amiss[l] /\ ~Refused(l)
         /\ "unremoved" \notin amiss'[l] => "unremoved" \notin amiss[l] /\ ~Unremoved(l)
         /\ "early" \notin amiss'[l] => "early" \notin amiss[l] /\ ~Early(l)
         /\ "crowded" \notin amiss'[l] => "crowded" \notin amiss[l] /\ ~Crowded(l)
         /\ "late" \notin amiss'[l] => "late" \notin amiss[l] /\ ~Late(l)
         /\ "crossed" \notin amiss'[l] => "crossed" \notin amiss[l] /\ ~Crossed(l)
<1>1. \A m \in Mishap : m \notin amiss'[l] => m \notin amiss[l] /\ ~Happens(l, m)
  BY DEF Recorded
<1>2. /\ "lost" \in Mishap /\ "refused" \in Mishap /\ "unremoved" \in Mishap /\ "early" \in Mishap
      /\ "crowded" \in Mishap /\ "late" \in Mishap /\ "crossed" \in Mishap
  BY DEF Mishap
<1>3. /\ Happens(l, "lost") <=> Lost(l)
      /\ Happens(l, "refused") <=> Refused(l)
      /\ Happens(l, "unremoved") <=> Unremoved(l)
      /\ Happens(l, "early") <=> Early(l)
      /\ Happens(l, "crowded") <=> Crowded(l)
      /\ Happens(l, "late") <=> Late(l)
      /\ Happens(l, "crossed") <=> Crossed(l)
  BY DEF Happens
<1> QED
  BY <1>1, <1>2, <1>3

\* The leases a step can end: the one its goroutine goes on to take down.
LEMMA WorksEnd ==
  ASSUME NEW t \in Threads, Course(t), Writes(t), NEW l \in DOMAIN lease,
         IsTerminal(lease'[l]), ~IsTerminal(lease[l])
  PROVE  thread[t].id = l /\ thread'[t].pc = "reap" /\ thread'[t].id = l
<1>1. thread[t].id = l
  BY DEF Writes
<1>2. thread'[t].pc = "reap"
  BY <1>1 DEF Writes
<1> QED
  BY <1>1, <1>2 DEF Course

\* A goroutine that opens a lease is the one that creates it.
LEMMA OpenersCreate ==
  ASSUME RoleInv, NEW t \in Threads, NEW u \in Threads, thread[t].pc \in Opening,
         thread[u].pc \in Opening \/ thread[u].op = "abort", thread[t].id = thread[u].id
  PROVE  t = u
<1>1. RoleOK(thread[t]) /\ RoleOK(thread[u])
  BY DEF RoleInv
<1>2. Creates(t) /\ Creates(u)
  BY <1>1 DEF RoleOK, Creates, Opening
<1> QED
  BY <1>2 DEF RoleInv

-----------------------------------------------------------------------------
(* A lease that is over while it is being opened.                          *)

LEMMA WorksEarly ==
  ASSUME AgentInv, EarlyInv, Recorded, NEW t \in Threads, Course(t), Writes(t)
  PROVE  EarlyInv'
<1> SUFFICES ASSUME NEW u \in Threads, thread'[u].pc \in Opening, IsTerminal(lease'[thread'[u].id])
             PROVE  "early" \in amiss'[thread'[u].id]
  BY DEF EarlyInv
<1>1. thread[u].pc \in Opening /\ thread'[u].id = thread[u].id
  <2>1. CASE u = t
    <3>1. thread'[t].pc \in Onward(t) /\ thread'[t].pc # "idle"
      BY <2>1 DEF Course, Opening
    <3>2. thread[t].pc \in Opening
      BY <2>1, <3>1 DEF Onward, Opening
    <3> QED
      BY <2>1, <3>1, <3>2 DEF Course
  <2>2. CASE u # t
    BY <2>2 DEF Course, OthersStay
  <2> QED
    BY <2>1, <2>2
<1> PICK l : l = thread[u].id
  OBVIOUS
<1>2. l \in DOMAIN lease /\ l \in Leases
  BY <1>1 DEF AgentInv, Opening, TypeOK
<1>3. CASE IsTerminal(lease[l])
  BY <1>1, <1>2, <1>3 DEF EarlyInv, Recorded
<1>4. CASE ~IsTerminal(lease[l])
  <2>1. thread'[t].pc = "reap"
    BY <1>1, <1>2, <1>4, WorksEnd
  <2>2. u # t
    BY <2>1 DEF Opening
  <2>3. thread'[u] = thread[u]
    BY <2>2 DEF Course, OthersStay
  <2>4. Early(l)
    BY <1>1, <1>2, <1>4, <2>3 DEF Early, IsLive, WorksOn
  <2> QED
    BY <1>1, <1>2, <2>4, NotAmiss
<1> QED
  BY <1>3, <1>4

LEMMA StartedEarly ==
  ASSUME AgentInv, EarlyInv, Recorded, NEW t \in Threads, Started(t)
  PROVE  EarlyInv'
<1>1. \A u \in Threads : thread'[u].pc \in Opening => thread'[u] = thread[u]
  BY DEF Started, OthersStay, Opening
<1>2. \A u \in Threads : thread[u].pc \in Opening => thread[u].id \in Leases
  BY DEF AgentInv, TypeOK, Opening
<1> QED
  BY <1>1, <1>2 DEF EarlyInv, Recorded, Started

LEMMA ClaimedEarly ==
  ASSUME AgentInv, EarlyInv, Recorded, NEW t \in Threads, NEW l \in Leases, Claimed(t, l)
  PROVE  EarlyInv'
<1>1. \A u \in Threads \ {t} : thread'[u] = thread[u]
  BY DEF Claimed, OthersStay
<1>2. \A u \in Threads : thread[u].pc \in Opening => thread[u].id \in DOMAIN lease /\ thread[u].id \in Leases
  BY DEF AgentInv, TypeOK, Opening
<1>3. thread'[t].id = l /\ ~IsTerminal(lease'[l])
  BY DEF Claimed, IsLive
<1>4. \A k \in DOMAIN lease : lease'[k] = lease[k]
  BY DEF Claimed
<1> QED
  BY <1>1, <1>2, <1>3, <1>4 DEF EarlyInv, Recorded

-----------------------------------------------------------------------------
(* The container of a lease that is over.                                  *)

LEMMA WorksLeft ==
  ASSUME AgentInv, EarlyInv, NothingLeftBehind, Recorded, NEW t \in Threads,
         Course(t), Writes(t), Builds(t)
  PROVE  NothingLeftBehind'
<1>0. DOMAIN lease' = DOMAIN lease /\ DOMAIN lease \subseteq Leases
  BY DEF Writes, AgentInv, TypeOK
<1> SUFFICES ASSUME NEW l \in DOMAIN lease, IsTerminal(lease'[l]), box'[l] \in Standing,
                    "unremoved" \notin amiss'[l], "early" \notin amiss'[l]
             PROVE  \E u \in Threads : thread'[u].id = l /\ thread'[u].pc = "reap"
  BY <1>0 DEF NothingLeftBehind, Standing, Spared, WorksOn
<1>1. /\ "unremoved" \notin amiss[l] /\ ~Unremoved(l)
      /\ "early" \notin amiss[l] /\ l \in Leases
  BY <1>0, NotAmiss
<1>2. CASE ~IsTerminal(lease[l])
  BY <1>2, WorksEnd
<1>3. CASE IsTerminal(lease[l])
  <2>1. CASE box[l] \in Standing
    <3>1. PICK u \in Threads : thread[u].id = l /\ thread[u].pc = "reap"
      BY <1>1, <1>3, <2>1 DEF NothingLeftBehind, Standing, Spared, WorksOn
    <3>2. u # t
      BY <1>1, <3>1 DEF Builds
    <3> QED
      BY <3>1, <3>2 DEF Course, OthersStay
  <2>2. CASE box[l] \notin Standing
    <3>1. thread[t].id = l
      BY <1>1, <2>2 DEF Builds
    <3>2. thread[t].pc \in {"provision", "reap"}
      BY <1>1, <2>2, <3>1 DEF Builds
    <3>3. thread[t].pc # "reap"
      BY <1>1, <3>1 DEF Builds
    <3> QED
      BY <1>1, <1>3, <3>1, <3>2, <3>3 DEF EarlyInv, Opening
  <2> QED
    BY <2>1, <2>2
<1> QED
  BY <1>2, <1>3

LEMMA StartedLeft ==
  ASSUME AgentInv, NothingLeftBehind, Recorded, NEW t \in Threads, Started(t)
  PROVE  NothingLeftBehind'
<1>1. /\ UNCHANGED <<lease, box>> /\ DOMAIN lease \subseteq Leases
      /\ \A u \in Threads : thread[u].pc = "reap" => thread'[u] = thread[u]
  BY DEF Started, OthersStay, AgentInv, TypeOK
<1>2. \A l \in DOMAIN lease : Spared(l, {"unremoved", "early"})' => Spared(l, {"unremoved", "early"})
  BY <1>1 DEF Recorded, Spared
<1> QED
  BY <1>1, <1>2 DEF NothingLeftBehind, WorksOn

LEMMA ClaimedLeft ==
  ASSUME AgentInv, NothingLeftBehind, Recorded, NEW t \in Threads, NEW l \in Leases, Claimed(t, l)
  PROVE  NothingLeftBehind'
<1>1. /\ DOMAIN lease' = DOMAIN lease \cup {l} /\ ~IsTerminal(lease'[l]) /\ box' = box
      /\ \A k \in DOMAIN lease : lease'[k] = lease[k]
      /\ DOMAIN lease \subseteq Leases
      /\ \A u \in Threads : thread[u].pc = "reap" => thread'[u] = thread[u]
  BY DEF Claimed, OthersStay, AgentInv, TypeOK, IsLive
<1>2. \A k \in DOMAIN lease : Spared(k, {"unremoved", "early"})' => Spared(k, {"unremoved", "early"})
  BY <1>1 DEF Recorded, Spared
<1> QED
  BY <1>1, <1>2 DEF NothingLeftBehind, WorksOn

-----------------------------------------------------------------------------
(* The tunnel.                                                             *)

\* A live lease nobody crowds is meddled with by its own goroutines only.
LEMMA WorksMeddling ==
  ASSUME AgentInv, TunnelInv, NEW t \in Threads, Course(t), Writes(t),
         NEW l \in DOMAIN lease, ~IsTerminal(lease[l]), "crowded" \notin amiss[l],
         NEW u \in Threads, thread'[u].pc \in Meddling
  PROVE  thread'[u].id = l
<1>1. IsLive(l) /\ l \in Leases
  BY DEF IsLive, AgentInv, TypeOK
<1>2. \A v \in Threads : thread[v].pc \in Meddling => thread[v].id = l
  BY <1>1 DEF TunnelInv, Spared
<1>3. CASE u # t
  BY <1>2, <1>3 DEF Course, OthersStay
<1>4. CASE u = t
  <2>1. thread'[t].pc \in Onward(t) /\ thread'[t].id = thread[t].id
    BY <1>4 DEF Course, Meddling
  <2>2. CASE thread[t].pc = "judge"
    <3>1. ~IsTerminal(Of(t)) /\ thread[t].id \in DOMAIN lease
      BY <1>4, <2>1, <2>2 DEF Onward, Meddling, AgentInv
    <3>2. IsLive(thread[t].id) /\ thread[t].id \in Leases
      BY <3>1 DEF IsLive, Of, AgentInv, TypeOK
    <3> QED
      BY <1>1, <1>4, <2>1, <3>2 DEF AgentInv, OneLiveLease
  <2>3. CASE thread[t].pc # "judge"
    <3>1. thread[t].pc \in Meddling
      BY <1>4, <2>1, <2>3 DEF Onward, Meddling
    <3> QED
      BY <1>2, <1>4, <2>1, <3>1
  <2> QED
    BY <2>2, <2>3
<1> QED
  BY <1>3, <1>4

\* While such a lease lives, nobody but its opener takes the tunnel elsewhere.
LEMMA TunnelStays ==
  ASSUME AgentInv, TunnelInv, NEW t \in Threads, Tunnels(t),
         NEW l \in DOMAIN lease, ~IsTerminal(lease[l]), "crowded" \notin amiss[l],
         tunnel' # tunnel
  PROVE  thread[t].pc = "publish" /\ thread[t].id = l
<1>1. IsLive(l)
  BY DEF IsLive
<1>2. thread[t].pc \in {"publish", "clear"}
  BY DEF Tunnels
<1>3. thread[t].id = l
  BY <1>1, <1>2 DEF TunnelInv, Spared, Meddling
<1>4. thread[t].pc # "clear"
  BY <1>1, <1>3 DEF AgentInv, Ending
<1> QED
  BY <1>2, <1>3, <1>4

LEMMA WorksPointing ==
  ASSUME AgentInv, RoleInv, TunnelInv, NEW t \in Threads, Course(t), Tunnels(t),
         NEW l \in DOMAIN lease, ~IsTerminal(lease[l]), "crowded" \notin amiss[l],
         NEW u \in Threads, thread'[u].id = l, thread'[u].pc \in {"reach", "settle", "meter"}
  PROVE  tunnel' = l
<1>1. IsLive(l)
  BY DEF IsLive
<1>2. \A v \in Threads : thread[v].id = l /\ thread[v].pc \in {"reach", "settle", "meter"} => tunnel = l
  BY <1>1 DEF TunnelInv, Spared, WorksOn
<1>3. CASE u # t
  <2>1. thread[u].id = l /\ thread[u].pc \in {"reach", "settle", "meter"}
    BY <1>3 DEF Course, OthersStay
  <2>2. ~(thread[t].pc = "publish" /\ thread[t].id = l)
    BY <1>3, <2>1, OpenersCreate DEF Opening
  <2> QED
    BY <1>2, <2>1, <2>2, TunnelStays
<1>4. CASE u = t
  <2>1. thread'[t].pc \in Onward(t) /\ thread[t].id = l
    BY <1>4 DEF Course
  <2>2. \/ thread[t].pc = "publish" /\ thread'[t].pc = "reach"
        \/ thread[t].pc \in {"reach", "settle"}
    BY <1>4, <2>1 DEF Onward
  <2> QED
    BY <1>2, <2>1, <2>2 DEF Tunnels
<1> QED
  BY <1>3, <1>4

LEMMA WorksAside ==
  ASSUME AgentInv, RoleInv, TunnelInv, NEW t \in Threads, Course(t), Tunnels(t), NEW u \in Threads,
         thread'[u].pc \in {"provision", "await", "publish"} \/ thread'[u].op = "abort"
  PROVE  tunnel' # thread'[u].id
<1>0. \A v \in Threads : RoleOK(thread[v])
  BY DEF RoleInv
<1>1. CASE u # t
  <2>1. thread'[u] = thread[u]
    BY <1>1 DEF Course, OthersStay
  <2>2. tunnel # thread[u].id
    BY <2>1 DEF TunnelInv
  <2>3. thread[u].pc \in {"provision", "await", "publish", "reap"}
    BY <1>0, <2>1 DEF RoleOK
  <2>4. thread[u].id # NoLease
    BY <2>3, AgentAssumption DEF AgentInv, TypeOK
  <2>5. thread[t].pc = "publish" => thread[t].id # thread[u].id
    BY <1>1, <2>1, OpenersCreate DEF Opening
  <2> QED
    BY <2>1, <2>2, <2>4, <2>5 DEF Tunnels
<1>2. CASE u = t
  <2>1. thread'[t].pc # "idle" /\ thread'[t].pc \in Onward(t)
    BY <1>2 DEF Course, Idle
  <2>2. /\ thread'[t].id = thread[t].id
        /\ thread'[t].op = IF Aborts(t) THEN "abort" ELSE thread[t].op
    BY <2>1 DEF Course
  <2>3. thread[t].op # "abort"
    BY <1>0, <2>1 DEF RoleOK, Onward
  <2>4. thread[t].pc \in {"provision", "await"}
    <3>1. CASE thread'[t].op = "abort"
      BY <2>2, <2>3, <3>1 DEF Aborts
    <3>2. CASE thread'[t].pc \in {"provision", "await", "publish"}
      BY <2>1, <3>2 DEF Onward
    <3> QED
      BY <1>2, <3>1, <3>2
  <2> QED
    BY <1>2, <2>2, <2>4 DEF Tunnels, TunnelInv
<1> QED
  BY <1>1, <1>2

LEMMA WorksServes ==
  ASSUME AgentInv, RoleInv, TunnelInv, NEW t \in Threads, Writes(t), Tunnels(t),
         NEW l \in DOMAIN lease, ~IsTerminal(lease[l]), "crowded" \notin amiss[l], lease'[l].metered
  PROVE  tunnel' = l
<1>1. IsLive(l)
  BY DEF IsLive
<1>2. CASE lease[l].metered
  <2>1. tunnel = l
    BY <1>1, <1>2 DEF TunnelInv, TunnelServesTheHolder, Spared
  <2>2. ~(thread[t].pc = "publish" /\ thread[t].id = l)
    BY <1>2 DEF RoleInv, RoleOK, Opening, Creates, Blank
  <2> QED
    BY <2>1, <2>2, TunnelStays
<1>3. CASE ~lease[l].metered
  <2>1. thread[t].id = l
    BY <1>3 DEF Writes
  <2>2. thread[t].pc = "meter"
    <3>1. CASE thread[t].pc \in {"bank", "mark", "burn", "tick"}
      BY <1>3, <2>1, <3>1 DEF Writes
    <3>2. CASE thread[t].pc \notin {"meter", "bank", "mark", "burn", "tick"}
      BY <1>3, <2>1, <3>2 DEF Writes, SameMoney
    <3> QED
      BY <3>1, <3>2
  <2>3. tunnel = l
    BY <1>1, <2>1, <2>2 DEF TunnelInv, Spared, WorksOn
  <2> QED
    BY <2>2, <2>3 DEF Tunnels
<1> QED
  BY <1>2, <1>3

LEMMA WorksWithdraws ==
  ASSUME AgentInv, RoleInv, EarlyInv, TunnelInv, NEW t \in Threads, Course(t), Writes(t), Tunnels(t),
         NEW l \in DOMAIN lease, IsTerminal(lease'[l]), tunnel' = l, "early" \notin amiss[l]
  PROVE  \E u \in Threads : thread'[u].id = l /\ thread'[u].pc \in {"reap", "clear"}
<1>0. l # NoLease
  BY AgentAssumption DEF AgentInv, TypeOK
<1>1. CASE ~IsTerminal(lease[l])
  BY <1>1, WorksEnd
<1>2. CASE IsTerminal(lease[l]) /\ tunnel # l
  <2>1. thread[t].pc = "publish" /\ thread[t].id = l
    BY <1>0, <1>2 DEF Tunnels
  <2> QED
    BY <1>2, <2>1 DEF EarlyInv, Opening
<1>3. CASE IsTerminal(lease[l]) /\ tunnel = l
  <2>1. PICK u \in Threads : thread[u].id = l /\ thread[u].pc \in {"reap", "clear"}
    BY <1>3 DEF TunnelInv, TunnelServesTheHolder, Spared, WorksOn
  <2>2. CASE u # t
    BY <2>1, <2>2 DEF Course, OthersStay
  <2>3. CASE u = t
    <3>1. thread[t].pc = "reap"
      BY <1>0, <2>1, <2>3 DEF Tunnels
    <3>2. thread[t].op # "abort"
      BY <1>3, <2>1, <2>3 DEF TunnelInv
    <3>3. thread'[t].pc = "clear"
      BY <3>1, <3>2 DEF Course, Onward
    <3>4. thread'[t].id = l
      BY <2>1, <2>3, <3>3 DEF Course
    <3> QED
      BY <3>3, <3>4
  <2> QED
    BY <2>2, <2>3
<1> QED
  BY <1>1, <1>2, <1>3

LEMMA WorksTunnelInv ==
  ASSUME AgentInv, RoleInv, EarlyInv, TunnelInv, Recorded, OverStaysOver,
         NEW t \in Threads, Course(t), Writes(t), Tunnels(t)
  PROVE  TunnelInv'
<1>0. DOMAIN lease' = DOMAIN lease /\ DOMAIN lease \subseteq Leases
  BY DEF Writes, AgentInv, TypeOK
<1>1. \A l \in DOMAIN lease : ~IsTerminal(lease'[l]) => ~IsTerminal(lease[l])
  BY DEF OverStaysOver, IsTerminal
<1>2. \A l \in DOMAIN lease : /\ "crowded" \notin amiss'[l] => "crowded" \notin amiss[l]
                              /\ "early" \notin amiss'[l] => "early" \notin amiss[l]
  BY <1>0, NotAmiss
<1>3. ASSUME NEW l \in DOMAIN lease, ~IsTerminal(lease'[l]), "crowded" \notin amiss'[l]
      PROVE  /\ \A u \in Threads : thread'[u].pc \in Meddling => thread'[u].id = l
             /\ \A u \in Threads : thread'[u].id = l /\ thread'[u].pc \in {"reach", "settle", "meter"}
                                     => tunnel' = l
             /\ lease'[l].metered => tunnel' = l
  BY <1>1, <1>2, <1>3, WorksMeddling, WorksPointing, WorksServes
<1>4. \A u \in Threads :
        thread'[u].pc \in {"provision", "await", "publish"} \/ thread'[u].op = "abort"
          => tunnel' # thread'[u].id
  BY WorksAside
<1>5. ASSUME NEW l \in DOMAIN lease, IsTerminal(lease'[l]), tunnel' = l, "early" \notin amiss'[l]
      PROVE  \E u \in Threads : thread'[u].id = l /\ thread'[u].pc \in {"reap", "clear"}
  BY <1>2, <1>5, WorksWithdraws
<1>6. TunnelServesTheHolder'
  BY <1>0, <1>3, <1>5 DEF TunnelServesTheHolder, Spared, WorksOn, IsLive
<1> QED
  BY <1>0, <1>3, <1>4, <1>6 DEF TunnelInv, Spared, WorksOn, IsLive

LEMMA StartedTunnel ==
  ASSUME AgentInv, TunnelInv, Recorded, NEW t \in Threads, Started(t)
  PROVE  TunnelInv'
<1>1. /\ UNCHANGED <<lease, tunnel, slot>> /\ DOMAIN lease \subseteq Leases
      /\ \A u \in Threads \ {t} : thread'[u] = thread[u]
      /\ thread[t].pc = "idle"
  BY DEF Started, OthersStay, AgentInv, TypeOK
<1>2. /\ thread'[t].pc \notin {"provision", "await", "publish", "reach", "settle", "meter"}
      /\ thread'[t].op # "abort"
      /\ thread'[t].pc \in Meddling => /\ thread'[t].id = slot
                                       /\ \A l \in Leases : IsLive(l) => slot = l
  BY DEF Started, Meddling, AgentInv, OneLiveLease
<1>3. \A l \in DOMAIN lease : /\ "crowded" \notin amiss'[l] => "crowded" \notin amiss[l]
                              /\ "early" \notin amiss'[l] => "early" \notin amiss[l]
  BY <1>1, NotAmiss
<1>4. ASSUME NEW l \in DOMAIN lease, ~IsTerminal(lease[l]), "crowded" \notin amiss[l]
      PROVE  /\ \A u \in Threads : thread'[u].pc \in Meddling => thread'[u].id = l
             /\ \A u \in Threads : thread'[u].id = l /\ thread'[u].pc \in {"reach", "settle", "meter"}
                                     => tunnel = l
             /\ lease[l].metered => tunnel = l
  <2>1. IsLive(l) /\ l \in Leases
    BY <1>1, <1>4 DEF IsLive
  <2>2. /\ \A u \in Threads : thread[u].pc \in Meddling => thread[u].id = l
        /\ \A u \in Threads : thread[u].id = l /\ thread[u].pc \in {"reach", "settle", "meter"}
                                => tunnel = l
        /\ lease[l].metered => tunnel = l
    BY <1>4, <2>1 DEF TunnelInv, TunnelServesTheHolder, Spared, WorksOn
  <2> QED
    BY <1>1, <1>2, <2>1, <2>2
<1>5. \A u \in Threads :
        thread'[u].pc \in {"provision", "await", "publish"} \/ thread'[u].op = "abort"
          => tunnel # thread'[u].id
  BY <1>1, <1>2 DEF TunnelInv
<1>6. ASSUME NEW l \in DOMAIN lease, IsTerminal(lease[l]), tunnel = l, "early" \notin amiss[l]
      PROVE  \E u \in Threads : thread'[u].id = l /\ thread'[u].pc \in {"reap", "clear"}
  <2>1. PICK u \in Threads : thread[u].id = l /\ thread[u].pc \in {"reap", "clear"}
    BY <1>6 DEF TunnelInv, TunnelServesTheHolder, Spared, WorksOn
  <2> QED
    BY <1>1, <2>1
<1>7. TunnelServesTheHolder'
  BY <1>1, <1>3, <1>4, <1>6 DEF TunnelServesTheHolder, Spared, WorksOn, IsLive
<1> QED
  BY <1>1, <1>3, <1>4, <1>5, <1>7 DEF TunnelInv, Spared, WorksOn, IsLive

LEMMA ClaimedTunnel ==
  ASSUME AgentInv, TunnelInv, Recorded, NEW t \in Threads, NEW l \in Leases, Claimed(t, l)
  PROVE  TunnelInv'
<1>1. /\ DOMAIN lease' = DOMAIN lease \cup {l} /\ ~IsTerminal(lease'[l]) /\ tunnel' = tunnel
      /\ \A k \in DOMAIN lease : lease'[k] = lease[k] /\ IsTerminal(lease[k])
      /\ DOMAIN lease \subseteq Leases /\ l \notin DOMAIN lease
      /\ \A u \in Threads \ {t} : thread'[u] = thread[u]
      /\ thread[t].pc = "claim"
      /\ thread'[t].id = l /\ thread'[t].pc = "provision" /\ thread'[t].op = thread[t].op
      /\ ~lease'[l].metered
  BY DEF Claimed, OthersStay, AgentInv, TypeOK, IsLive, Blank
<1>2. tunnel # l
  BY <1>1, AgentAssumption DEF AgentInv, TypeOK
<1>3. \A k \in DOMAIN lease : "early" \notin amiss'[k] => "early" \notin amiss[k]
  BY <1>1, NotAmiss
<1>4. ASSUME "crowded" \notin amiss'[l], NEW u \in Threads, thread'[u].pc \in Meddling
      PROVE  thread'[u].id = l
  <2>1. ~Crowded(l)
    BY <1>4, NotAmiss
  <2>2. CASE u # t
    <3>1. thread[u].pc \in Meddling
      BY <1>1, <1>4, <2>2
    <3>2. thread[u].id \in DOMAIN lease
      BY <3>1 DEF AgentInv, Meddling
    <3> QED
      BY <1>1, <2>1, <3>1, <3>2 DEF Crowded
  <2> QED
    BY <1>1, <2>2
<1>5. \A u \in Threads :
        ~(thread'[u].id = l /\ thread'[u].pc \in {"reach", "settle", "meter"})
  BY <1>1 DEF Claimed
<1>6. \A u \in Threads :
        thread'[u].pc \in {"provision", "await", "publish"} \/ thread'[u].op = "abort"
          => tunnel' # thread'[u].id
  BY <1>1, <1>2 DEF TunnelInv
<1>7. ASSUME NEW k \in DOMAIN lease, tunnel = k, "early" \notin amiss'[k]
      PROVE  \E u \in Threads : thread'[u].id = k /\ thread'[u].pc \in {"reap", "clear"}
  <2>1. PICK u \in Threads : thread[u].id = k /\ thread[u].pc \in {"reap", "clear"}
    BY <1>1, <1>3, <1>7 DEF TunnelInv, TunnelServesTheHolder, Spared, WorksOn
  <2> QED
    BY <1>1, <2>1
<1>8. TunnelServesTheHolder'
  BY <1>1, <1>7 DEF TunnelServesTheHolder, Spared, WorksOn, IsLive
<1> QED
  BY <1>1, <1>4, <1>5, <1>6, <1>8 DEF TunnelInv, Spared, WorksOn, IsLive

-----------------------------------------------------------------------------
(* What is still owed for a session that is over.                          *)

\* Where a goroutine is that is going to settle the lease it works on.
Returning == {"reap", "clear", "debt"} \cup Settling

\* The order it goes in.
LEMMA ReturnsInOrder ==
  ASSUME NEW t, thread'[t].pc \in Onward(t)
  PROVE  /\ thread[t].pc = "reap" /\ thread[t].op # "abort" => thread'[t].pc = "clear"
         /\ thread[t].pc = "clear" /\ thread[t].op # "create" => thread'[t].pc = "debt"
         /\ thread[t].pc = "debt" /\ Of(t).metered /\ Of(t).settle = "pending" => thread'[t].pc = "owed"
         /\ thread[t].pc = "owed" => thread'[t].pc \in {"mark", "refund"}
         /\ thread[t].pc = "refund" => thread'[t].pc \in {"mark", "idle"}
BY DEF Onward

\* It does so, unless there is nothing to return or the refund fails.
LEMMA ReturnsOn ==
  ASSUME RoleInv, OwesInv, NEW t \in Threads, Course(t), Writes(t), Pays(t),
         NEW l \in DOMAIN lease, thread[t].id = l, thread[t].pc \in Returning,
         thread[t].op \in {"stop", "sweep"}, lease[l].credit # 0, lease[l].credit > 0,
         lease'[l].credit # 0, lease[l].settle \in SettleState,
         "late" \notin amiss[l], ~Refused(l)
  PROVE  /\ thread'[t].pc \in Returning /\ thread'[t].id = l
         /\ thread'[t].op = thread[t].op
<1>1. lease[l].metered /\ lease[l].settle # "none"
  BY DEF RoleInv, SettleOK, Blank
<1>2. lease[l].settle = "pending"
  BY <1>1 DEF SettleState, OwesInv
<1>3. thread[t].pc # "mark"
  BY <1>1 DEF Writes
<1>4. thread'[t].pc \in Onward(t)
  BY DEF Course
<1>5. Of(t) = lease[l]
  BY DEF Of
<1>6. ~(thread[t].pc = "refund" /\ thread'[t].pc = "idle")
  BY DEF Pays
<1>7. thread[t].op # "abort" /\ thread[t].op # "create"
  OBVIOUS
<1>8. thread[t].pc \in {"reap", "clear", "debt", "owed", "refund"}
  BY <1>3 DEF Returning, Settling
<1>9. thread'[t].pc \in Returning
  BY ONLY <1>1, <1>2, <1>4, <1>5, <1>6, <1>7, <1>8, ReturnsInOrder DEF Returning, Settling
<1>10. thread'[t].pc # "idle" /\ ~Aborts(t)
  BY <1>9 DEF Returning, Settling, Aborts
<1> QED
  BY <1>9, <1>10 DEF Course

LEMMA WorksOwes ==
  ASSUME AgentInv, TypeOK', RoleInv, RoleInv', OwesInv, Recorded,
         NEW t \in Threads, Course(t), Writes(t), Pays(t)
  PROVE  OwesInv'
<1>0. DOMAIN lease' = DOMAIN lease /\ DOMAIN lease \subseteq Leases
  BY DEF Writes, AgentInv, TypeOK
<1>1. \A l \in DOMAIN lease : /\ lease[l].credit \in Nat /\ lease'[l].credit \in Nat
                              /\ lease[l].settle \in SettleState
  BY <1>0 DEF AgentInv, TypeOK, LeaseRecord
<1>2. ASSUME NEW l \in DOMAIN lease, IsTerminal(lease[l]), "late" \notin amiss'[l]
      PROVE  lease'[l].credit <= lease[l].credit
  <2>1. ~Late(l)
    BY <1>0, <1>2, NotAmiss
  <2> QED
    BY <1>1, <1>2, <2>1 DEF Late
<1>3. ASSUME NEW l \in DOMAIN lease, lease'[l].settle = "done", lease'[l].credit > 0
      PROVE  "late" \in amiss'[l]
  <2>1. CASE lease[l].settle = "done"
    <3> SUFFICES ASSUME "late" \notin amiss'[l] PROVE FALSE
      OBVIOUS
    <3>1. IsTerminal(lease[l])
      BY <2>1 DEF RoleInv, SettleOK
    <3>2. lease[l].credit > 0
      BY <1>1, <1>2, <1>3, <3>1
    <3>3. "late" \notin amiss[l]
      BY <1>0, NotAmiss
    <3> QED
      BY <2>1, <3>2, <3>3 DEF OwesInv
  <2>2. CASE lease[l].settle # "done"
    <3>1. thread[t].id = l
      BY <1>3, <2>2 DEF Writes
    <3>2. thread[t].pc \in {"meter", "bank", "burn", "tick"} => lease'[l].settle # "done"
      BY <2>2, <3>1 DEF Writes
    <3>3. thread[t].pc = "mark" => lease'[l].credit = 0 \/ lease'[l] = lease[l]
      BY <3>1 DEF Writes
    <3>4. thread[t].pc \notin {"meter", "bank", "mark", "burn", "tick"} => lease'[l].settle # "done"
      BY <2>2, <3>1 DEF Writes, SameMoney
    <3> QED
      BY <1>3, <2>2, <3>2, <3>3, <3>4
  <2> QED
    BY <2>1, <2>2
<1>4. ASSUME NEW l \in DOMAIN lease, IsTerminal(lease'[l]), lease'[l].credit > 0,
             "refused" \notin amiss'[l], "late" \notin amiss'[l]
      PROVE  \E u \in Threads : /\ thread'[u].id = l /\ thread'[u].pc \in Returning
                                /\ thread'[u].op \in {"stop", "sweep"}
  <2>1. CASE ~IsTerminal(lease[l])
    <3>1. thread'[t].pc = "reap" /\ thread'[t].id = l
      BY <1>4, <2>1, WorksEnd
    <3>2. thread'[t].op \in {"create", "abort", "stop", "sweep"}
      BY <3>1 DEF RoleInv, RoleOK, Closing
    <3>3. thread'[t].op \notin {"create", "abort"}
      BY <1>4, <3>1 DEF RoleInv, Creates, Blank
    <3> QED
      BY <3>1, <3>2, <3>3 DEF Returning
  <2>2. CASE IsTerminal(lease[l])
    <3>1. "refused" \notin amiss[l] /\ "late" \notin amiss[l] /\ ~Refused(l)
      BY <1>0, <1>4, NotAmiss
    <3>2. lease[l].credit > 0 /\ lease[l].credit # 0 /\ lease'[l].credit # 0
      BY <1>1, <1>2, <1>4, <2>2
    <3>3. PICK u \in Threads : /\ thread[u].id = l /\ thread[u].pc \in Returning
                               /\ thread[u].op \in {"stop", "sweep"}
      BY <2>2, <3>1, <3>2 DEF OwesInv, EndedOwesNothing, Spared, WorksOn, Returning
    <3>4. CASE u # t
      BY <3>3, <3>4 DEF Course, OthersStay
    <3>5. CASE u = t
      BY <1>1, <3>1, <3>2, <3>3, <3>5, ReturnsOn
    <3> QED
      BY <3>4, <3>5
  <2> QED
    BY <2>1, <2>2
<1>5. EndedOwesNothing'
  BY <1>0, <1>4 DEF EndedOwesNothing, Spared, WorksOn, Returning
<1> QED
  BY <1>0, <1>3, <1>5 DEF OwesInv

LEMMA StartedOwes ==
  ASSUME AgentInv, OwesInv, Recorded, NEW t \in Threads, Started(t)
  PROVE  OwesInv'
<1>1. /\ lease' = lease /\ DOMAIN lease \subseteq Leases
      /\ \A u \in Threads : thread[u].pc \in Returning => thread'[u] = thread[u]
  BY DEF Started, OthersStay, AgentInv, TypeOK, Returning, Settling
<1>2. \A l \in DOMAIN lease : /\ "late" \in amiss[l] => "late" \in amiss'[l]
                              /\ Spared(l, {"refused", "late"})' => Spared(l, {"refused", "late"})
  BY <1>1 DEF Recorded, Spared
<1>3. EndedOwesNothing'
  BY <1>1, <1>2 DEF OwesInv, EndedOwesNothing, WorksOn, Returning
<1> QED
  BY <1>1, <1>2, <1>3 DEF OwesInv

LEMMA ClaimedOwes ==
  ASSUME AgentInv, OwesInv, Recorded, NEW t \in Threads, NEW l \in Leases, Claimed(t, l)
  PROVE  OwesInv'
<1>1. /\ DOMAIN lease' = DOMAIN lease \cup {l} /\ ~IsTerminal(lease'[l])
      /\ lease'[l].settle # "done"
      /\ \A k \in DOMAIN lease : lease'[k] = lease[k]
      /\ DOMAIN lease \subseteq Leases
      /\ \A u \in Threads : thread[u].pc \in Returning => thread'[u] = thread[u]
  BY DEF Claimed, OthersStay, AgentInv, TypeOK, IsLive, Returning, Settling
<1>2. \A k \in DOMAIN lease : /\ "late" \in amiss[k] => "late" \in amiss'[k]
                              /\ Spared(k, {"refused", "late"})' => Spared(k, {"refused", "late"})
  BY <1>1 DEF Recorded, Spared
<1>3. EndedOwesNothing'
  BY <1>1, <1>2 DEF OwesInv, EndedOwesNothing, WorksOn, Returning
<1> QED
  BY <1>1, <1>2, <1>3 DEF OwesInv

-----------------------------------------------------------------------------
(* The money of a session nobody settles at the same time as another.      *)

LEMMA MovesAlong ==
  ASSUME NEW t \in Threads, Course(t)
  PROVE  thread'[t] # thread[t]
<1>1. thread[t].pc # "idle" /\ thread'[t].pc \in Onward(t)
  BY DEF Course
<1>2. thread'[t].pc # thread[t].pc
  BY <1>1 DEF Onward
<1> QED
  BY <1>2

\* Where a settlement is going on, and what it has read.
LEMMA SettlesFrom ==
  ASSUME NEW t \in Threads, Course(t), Writes(t),
         NEW l \in DOMAIN lease, thread'[t].id = l, thread'[t].pc \in Settling
  PROVE  /\ thread[t].id = l
         /\ \/ /\ thread[t].pc = "debt" /\ thread'[t].pc = "owed"
               /\ lease[l].settle = "pending"
            \/ /\ thread[t].pc = "owed" /\ thread'[t].pc \in Refunding
               /\ thread'[t].amount = lease[l].credit
               /\ thread'[t].pc = "mark" => lease[l].credit = 0
            \/ /\ thread[t].pc = "refund" /\ thread'[t].pc = "mark"
               /\ thread'[t].amount = thread[t].amount
         /\ SameMoney(lease'[l], lease[l])
<1>1. /\ thread'[t].pc \in Onward(t) /\ thread[t].id = l
      /\ thread'[t].amount = IF thread[t].pc = "owed" THEN Of(t).credit ELSE thread[t].amount
  BY DEF Course, Settling
<1>2. /\ \/ /\ thread[t].pc = "debt" /\ thread'[t].pc = "owed"
            /\ Of(t).settle = "pending"
         \/ /\ thread[t].pc = "owed" /\ thread'[t].pc \in Refunding
            /\ thread'[t].pc = "mark" => Of(t).credit = 0
         \/ /\ thread[t].pc = "refund" /\ thread'[t].pc = "mark"
  <2> HIDE DEF Of
  <2> QED
    BY <1>1 DEF Onward, Settling, Refunding
<1>3. Of(t) = lease[l]
  BY <1>1 DEF Of
<1>4. SameMoney(lease'[l], lease[l])
  BY <1>1, <1>2 DEF Writes
<1> QED
  BY <1>1, <1>2, <1>3, <1>4

\* What a step may do to a lease that a goroutine is settling.
LEMMA SettlingUndisturbed ==
  ASSUME RoleInv, NEW t \in Threads, Writes(t),
         NEW l \in DOMAIN lease, lease[l].settle = "pending",
         ~(thread[t].id = l /\ thread[t].pc = "mark")
  PROVE  lease'[l].settle = "pending" /\ lease'[l].refunded = lease[l].refunded
<1>1. CASE thread[t].id # l
  BY <1>1 DEF Writes
<1>2. CASE thread[t].id = l
  <2>1. lease[l].metered
    BY DEF RoleInv, SettleOK
  <2>2. thread[t].pc # "meter"
    BY <1>2, <2>1 DEF RoleInv, RoleOK, Creates, Opening, Blank
  <2>3. CASE thread[t].pc \in {"bank", "burn", "tick"}
    BY <1>2, <2>3 DEF Writes
  <2>4. CASE thread[t].pc \notin {"meter", "bank", "mark", "burn", "tick"}
    BY <1>2, <2>4 DEF Writes, SameMoney
  <2> QED
    BY <1>2, <2>2, <2>3, <2>4
<1> QED
  BY <1>1, <1>2

LEMMA WorksSettles ==
  ASSUME RoleInv, NEW t \in Threads, Course(t), Writes(t),
         NEW l \in DOMAIN lease, SettlesAlone(l), ~Crossed(l)
  PROVE  SettlesAlone(l)'
<1>1. \A u \in Threads \ {t} : thread'[u] = thread[u]
  BY DEF Course, OthersStay
<1>2. /\ \A u, v \in Threads :
           thread[u].id = l /\ thread[u].pc \in Settling /\ thread[v].id = l /\ thread[v].pc \in Settling
             => u = v
      /\ \A u \in Threads : thread[u].id = l /\ thread[u].pc \in Settling => lease[l].settle = "pending"
      /\ \A u \in Threads : thread[u].id = l /\ thread[u].pc \in Refunding
                              => thread[u].amount = lease[l].credit
  <2>1. \A u, v \in Threads : WorksOn(u, l, Settling) /\ WorksOn(v, l, Settling) => u = v
    BY DEF SettlesAlone
  <2>2. \A u \in Threads : WorksOn(u, l, Settling) => lease[l].settle = "pending"
    BY DEF SettlesAlone
  <2>3. \A u \in Threads : WorksOn(u, l, Refunding) => thread[u].amount = lease[l].credit
    BY DEF SettlesAlone
  <2> QED
    BY ONLY <2>1, <2>2, <2>3 DEF WorksOn
<1>3. Refunding \subseteq Settling /\ "debt" \notin Settling /\ "mark" \in Settling
  BY DEF Refunding, Settling
<1>4. ASSUME NEW u \in Threads, u # t, thread[u].id = l, thread[u].pc \in Settling
      PROVE  ~(thread'[t].id = l /\ thread'[t].pc \in Settling)
  <2> SUFFICES ASSUME thread'[t].id = l, thread'[t].pc \in Settling PROVE FALSE
    OBVIOUS
  <2>1. thread[t].id = l /\ thread[t].pc \notin Settling
    BY <1>2, <1>4, SettlesFrom
  <2>2. thread[t].pc = "debt" /\ thread'[t].pc = "owed"
    BY <2>1, SettlesFrom DEF Settling
  <2>3. WorksOn(t, l, {"debt"}) /\ WorksOn(u, l, Settling)
    BY <1>4, <2>1, <2>2 DEF WorksOn
  <2> QED
    BY <1>4, <2>2, <2>3 DEF Crossed
<1>5. \A u, v \in Threads :
        thread'[u].id = l /\ thread'[u].pc \in Settling /\ thread'[v].id = l /\ thread'[v].pc \in Settling
          => u = v
  BY ONLY t \in Threads, <1>1, <1>2, <1>4
<1>6. ASSUME NEW u \in Threads, thread'[u].id = l, thread'[u].pc \in Settling
      PROVE  lease'[l].settle = "pending"
  <2>1. CASE u = t
    BY <1>2, <1>3, <1>6, <2>1, SettlesFrom DEF SameMoney, Settling
  <2>2. CASE u # t
    <3>1. thread[u].id = l /\ thread[u].pc \in Settling
      BY <1>1, <1>6, <2>2
    <3>2. lease[l].settle = "pending" /\ ~(thread[t].id = l /\ thread[t].pc = "mark")
      BY <1>2, <1>3, <2>2, <3>1
    <3> QED
      BY <3>2, SettlingUndisturbed
  <2> QED
    BY <2>1, <2>2
<1>7. ASSUME NEW u \in Threads, thread'[u].id = l, thread'[u].pc \in Refunding
      PROVE  thread'[u].amount = lease'[l].credit
  <2>1. CASE u = t
    <3>1. /\ thread[t].id = l /\ lease'[l].credit = lease[l].credit
          /\ \/ thread'[t].amount = lease[l].credit
             \/ thread[t].pc = "refund" /\ thread'[t].amount = thread[t].amount
      BY <1>3, <1>7, <2>1, SettlesFrom DEF SameMoney, Refunding
    <3> QED
      BY <1>2, <2>1, <3>1 DEF Refunding
  <2>2. CASE u # t
    <3>1. thread[u].id = l /\ thread[u].pc \in Refunding /\ thread'[u] = thread[u]
      BY <1>1, <1>7, <2>2
    <3>2. ~WorksOn(t, l, Settling)
      BY <1>2, <1>3, <2>2, <3>1 DEF WorksOn
    <3>3. lease'[l].credit = lease[l].credit
      BY <2>2, <3>1, <3>2, MovesAlong DEF Crossed, WorksOn
    <3> QED
      BY <1>2, <3>1, <3>3
  <2> QED
    BY <2>1, <2>2
<1> QED
  BY <1>5, <1>6, <1>7 DEF SettlesAlone, WorksOn

\* What a step adds to a session's books and to what is held for it is what was paid.
LEMMA WorksGain ==
  ASSUME AgentInv, TypeOK', BooksInv, RoleInv, NEW t \in Threads, Course(t), Writes(t), Pays(t),
         NEW l \in DOMAIN lease, SettlesAlone(l), ~Lost(l)
  PROVE  Booked(l)' - Booked(l) + (Unbanked(l, t)' - Unbanked(l, t)) = paid'[l] - paid[l]
<1>0. /\ TypeOK /\ DOMAIN lease' = DOMAIN lease /\ l \in Leases /\ l # NoLease
      /\ lease[l] \in LeaseRecord /\ lease'[l] \in LeaseRecord
  BY AgentAssumption DEF AgentInv, TypeOK, Writes
<1>1. /\ lease[l].burned \in Nat /\ lease[l].credit \in Nat /\ lease[l].refunded \in Nat
      /\ lease'[l].burned \in Nat /\ lease'[l].credit \in Nat /\ lease'[l].refunded \in Nat
      /\ paid[l] \in Nat /\ paid'[l] \in Nat
      /\ thread[t].amount \in Nat
  BY <1>0 DEF TypeOK, LeaseRecord, Goroutine
<1> PICK opening : opening = Price * OpeningSeconds
  OBVIOUS
<1>2. opening \in Nat
  BY SecondsType
<1>3. /\ thread'[t].pc \in Onward(t)
      /\ thread'[t].pc # "idle" => thread'[t].id = thread[t].id
      /\ thread'[t].pc \in {"bank"} => thread'[t].amount = thread[t].amount
  <2>1. thread'[t].pc = "bank" => thread[t].pc # "owed"
    BY DEF Course, Onward
  <2> QED
    BY <2>1 DEF Course
<1>4. CASE thread[t].id # l
  <2>1. lease'[l] = lease[l] /\ paid'[l] = paid[l]
    BY <1>0, <1>4 DEF Writes, Pays
  <2>2. Unbanked(l, t) = 0 /\ Unbanked(l, t)' = 0
    BY <1>3, <1>4 DEF Unbanked, At
  <2> QED
    BY <1>1, <2>1, <2>2 DEF Booked
<1>5. CASE thread[t].id = l
  <2>1. /\ Unbanked(l, t) = IF thread[t].pc = "bank" THEN thread[t].amount
                            ELSE IF thread[t].pc = "meter" THEN opening ELSE 0
        /\ Unbanked(l, t)' = IF thread'[t].pc = "bank" THEN thread[t].amount
                             ELSE IF thread'[t].pc = "meter" THEN opening ELSE 0
    BY <1>3, <1>5 DEF Unbanked, At, OpeningSeconds
  <2>2. /\ thread'[t].pc = "bank" => thread[t].pc = "pay"
        /\ thread'[t].pc = "meter" => thread[t].pc = "settle"
    BY <1>3 DEF Onward
  <2>3. CASE thread[t].pc = "settle"
    <3>1. SameMoney(lease'[l], lease[l])
      BY <1>5, <2>3 DEF Writes
    <3>2. CASE thread'[t].pc = "meter"
      <4>1. paid'[l] = paid[l] + opening
        BY <1>5, <2>3, <3>2 DEF Pays
      <4> QED
        BY <1>1, <1>2, <2>1, <2>3, <3>1, <3>2, <4>1 DEF Booked, SameMoney
    <3>3. CASE thread'[t].pc # "meter"
      <4>1. thread'[t].pc # "bank"
        BY <2>2, <2>3
      <4>2. paid' = paid \/ (paid'[l] = paid[l] + opening /\ faults' > faults)
        BY <1>5, <2>3, <3>3, <4>1 DEF Pays
      <4>3. paid'[l] = paid[l]
        BY <1>1, <1>2, <4>2 DEF Lost
      <4> QED
        BY <1>1, <2>1, <2>3, <3>1, <3>3, <4>1, <4>3 DEF Booked, SameMoney
    <3> QED
      BY <3>2, <3>3
  <2>4. CASE thread[t].pc = "pay"
    <3>1. SameMoney(lease'[l], lease[l])
      BY <1>5, <2>4 DEF Writes
    <3>2. CASE thread'[t].pc = "bank"
      <4>1. paid'[l] = paid[l] + thread[t].amount
        BY <1>5, <2>4, <3>2 DEF Pays
      <4> QED
        BY <1>1, <2>1, <2>4, <3>1, <3>2, <4>1 DEF Booked, SameMoney
    <3>3. CASE thread'[t].pc # "bank"
      <4>1. thread'[t].pc # "meter"
        BY <2>2, <2>4
      <4>2. paid' = paid \/ (paid'[l] = paid[l] + thread[t].amount /\ faults' > faults)
        BY <1>5, <2>4, <3>3, <4>1 DEF Pays
      <4>3. paid'[l] = paid[l]
        BY <1>1, <4>2 DEF Lost
      <4> QED
        BY <1>1, <2>1, <2>4, <3>1, <3>3, <4>1, <4>3 DEF Booked, SameMoney
    <3> QED
      BY <3>2, <3>3
  <2>5. CASE thread[t].pc \notin {"settle", "pay"}
    <3>1. /\ paid'[l] = paid[l] /\ Unbanked(l, t)' = 0
          /\ thread'[t].pc \notin {"bank", "meter"}
      BY <2>1, <2>2, <2>5 DEF Pays
    <3>2. CASE thread[t].pc = "meter"
      <4>1. Blank(lease[l]) /\ lease[l].refunded = lease'[l].refunded
        BY <1>5, <3>2 DEF BooksInv, Opening, Writes
      <4>2. lease'[l].burned = 0 /\ lease'[l].credit = opening
        BY <1>5, <3>2 DEF Writes
      <4> QED
        BY <1>1, <1>2, <2>1, <3>1, <3>2, <4>1, <4>2 DEF Booked, Blank
    <3>3. CASE thread[t].pc = "bank"
      <4>1. lease[l].metered
        BY <1>5, <3>3 DEF BooksInv
      <4>2. /\ lease'[l].burned = lease[l].burned /\ lease'[l].refunded = lease[l].refunded
            /\ lease'[l].credit = lease[l].credit + thread[t].amount
        BY <1>5, <3>3, <4>1 DEF Writes
      <4>3. Unbanked(l, t) = thread[t].amount /\ Unbanked(l, t)' = 0
        BY <2>1, <3>1, <3>3
      <4>4. Booked(l)' = Booked(l) + thread[t].amount /\ Booked(l) \in Nat
        BY <1>1, <4>2 DEF Booked
      <4> QED
        BY ONLY <1>1, <3>1, <4>3, <4>4
    <3>4. CASE thread[t].pc = "mark"
      <4>1. lease[l].settle = "pending" /\ thread[t].amount = lease[l].credit
        BY <1>5, <3>4 DEF SettlesAlone, WorksOn, Settling, Refunding
      <4>2. lease[l].refunded = 0
        BY <4>1 DEF RoleInv, SettleOK
      <4>3. /\ lease'[l].burned = lease[l].burned /\ lease'[l].credit = 0
            /\ lease'[l].refunded = thread[t].amount
        BY <1>5, <3>4, <4>1 DEF Writes
      <4> QED
        BY <1>1, <2>1, <3>1, <3>4, <4>1, <4>2, <4>3 DEF Booked
    <3>5. CASE thread[t].pc \in {"burn", "tick"}
      <4>1. /\ lease'[l].refunded = lease[l].refunded
            /\ lease'[l].burned + lease'[l].credit = lease[l].burned + lease[l].credit
        BY <1>5, <3>5 DEF Writes
      <4> QED
        BY <1>1, <2>1, <3>1, <3>5, <4>1 DEF Booked
    <3>6. CASE thread[t].pc \notin {"meter", "bank", "mark", "burn", "tick"}
      <4>1. SameMoney(lease'[l], lease[l])
        BY <1>5, <3>6 DEF Writes
      <4> QED
        BY <1>1, <2>1, <3>1, <3>6, <4>1 DEF Booked, SameMoney
    <3> QED
      BY <3>2, <3>3, <3>4, <3>5, <3>6
  <2> QED
    BY <2>3, <2>4, <2>5
<1> QED
  BY <1>4, <1>5

\* A transfer is written down as it was made.
LEMMA WorksRepaid ==
  ASSUME AgentInv, RoleInv, NEW t \in Threads, Course(t), Writes(t), Pays(t),
         NEW l \in DOMAIN lease, SettlesAlone(l), Repaid(l), ~Lost(l)
  PROVE  Repaid(l)'
<1>0. /\ l \in Leases /\ returned[l] \in Nat /\ thread[t].amount \in Nat
      /\ \A u \in Threads \ {t} : thread'[u] = thread[u]
  BY DEF AgentInv, TypeOK, Goroutine, Course, OthersStay
<1>1. /\ \A u, v \in Threads : WorksOn(u, l, Settling) /\ WorksOn(v, l, Settling) => u = v
      /\ \A u \in Threads : WorksOn(u, l, Settling) => lease[l].settle = "pending"
  BY DEF SettlesAlone
<1>2. /\ \A u \in Threads : thread[u].id = l /\ thread[u].pc = "mark" => returned[l] = thread[u].amount
      /\ ~(\E u \in Threads : thread[u].id = l /\ thread[u].pc = "mark") => returned[l] = lease[l].refunded
  BY DEF Repaid, BeingMarked, WorksOn
<1>3. /\ lease[l].settle = "pending" => lease[l].refunded = 0
      /\ lease[l].settle = "none" => lease[l].refunded = 0
  BY DEF RoleInv, SettleOK
<1>4. returned'[l] # returned[l] => thread[t].pc = "refund" /\ thread[t].id = l
  BY <1>0 DEF Pays
<1>5. lease'[l].refunded # lease[l].refunded => thread[t].pc = "mark" /\ thread[t].id = l
  <2> SUFFICES ASSUME ~(thread[t].pc = "mark" /\ thread[t].id = l)
               PROVE  lease'[l].refunded = lease[l].refunded
    OBVIOUS
  <2>1. CASE thread[t].id # l
    BY <2>1 DEF Writes
  <2>2. CASE thread[t].id = l /\ thread[t].pc \in {"meter", "bank", "burn", "tick"}
    BY <2>2 DEF Writes
  <2>3. CASE thread[t].id = l /\ thread[t].pc \notin {"meter", "bank", "mark", "burn", "tick"}
    BY <2>3 DEF Writes, SameMoney
  <2> QED
    BY <2>1, <2>2, <2>3
<1>6. \A u, v \in Threads :
        /\ thread[u].id = l /\ thread[u].pc \in {"owed", "refund", "mark"}
        /\ thread[v].id = l /\ thread[v].pc \in {"owed", "refund", "mark"}
        => u = v
  BY <1>1 DEF WorksOn, Settling
<1>7. ASSUME NEW u \in Threads, thread'[u].id = l, thread'[u].pc = "mark"
      PROVE  returned'[l] = thread'[u].amount
  <2>1. CASE u # t
    <3>1. thread[u].id = l /\ thread[u].pc = "mark" /\ thread'[u] = thread[u]
      BY <1>0, <1>7, <2>1
    <3>2. returned'[l] = returned[l]
      BY <1>4, <1>6, <2>1, <3>1
    <3> QED
      BY <1>2, <3>1, <3>2
  <2>2. CASE u = t
    <3>1. /\ thread[t].id = l
          /\ \/ /\ thread[t].pc = "owed" /\ thread'[t].amount = lease[l].credit
                /\ lease[l].credit = 0
             \/ thread[t].pc = "refund" /\ thread'[t].amount = thread[t].amount
      BY <1>7, <2>2, SettlesFrom DEF Settling
    <3>2. lease[l].settle = "pending"
      BY <1>1, <3>1 DEF WorksOn, Settling
    <3>3. ~(\E v \in Threads : thread[v].id = l /\ thread[v].pc = "mark")
      BY <1>6, <3>1
    <3>4. returned[l] = 0
      BY <1>2, <1>3, <3>2, <3>3
    <3>5. CASE thread[t].pc = "owed"
      BY <1>4, <2>2, <3>1, <3>4, <3>5
    <3>6. CASE thread[t].pc = "refund"
      <4>1. returned'[l] = returned[l] + thread[t].amount
        BY <1>7, <2>2, <3>1, <3>6 DEF Pays
      <4> QED
        BY <1>0, <2>2, <3>1, <3>4, <3>6, <4>1
    <3> QED
      BY <3>1, <3>5, <3>6
  <2> QED
    BY <2>1, <2>2
<1>8. ASSUME ~\E u \in Threads : thread'[u].id = l /\ thread'[u].pc = "mark"
      PROVE  returned'[l] = lease'[l].refunded
  <2>1. CASE thread[t].pc = "mark" /\ thread[t].id = l
    <3>1. lease[l].settle = "pending"
      BY <1>1, <2>1 DEF WorksOn, Settling
    <3>2. lease'[l].refunded = thread[t].amount
      BY <2>1, <3>1 DEF Writes
    <3> QED
      BY <1>2, <1>4, <2>1, <3>2
  <2>2. CASE ~(thread[t].pc = "mark" /\ thread[t].id = l)
    <3>1. ~\E u \in Threads : thread[u].id = l /\ thread[u].pc = "mark"
      BY <1>0, <1>8, <2>2
    <3>2. returned[l] = lease'[l].refunded
      BY <1>2, <1>5, <2>2, <3>1
    <3>3. returned'[l] = returned[l]
      <4> SUFFICES ASSUME thread[t].pc = "refund", thread[t].id = l PROVE returned'[l] = returned[l]
        BY <1>4
      <4>1. thread'[t].pc # "mark"
        BY <1>8 DEF Course
      <4>2. returned' = returned \/ (returned'[l] = returned[l] + thread[t].amount /\ faults' > faults)
        BY <4>1 DEF Pays
      <4> QED
        BY <1>0, <4>2 DEF Lost
    <3> QED
      BY <3>2, <3>3
  <2> QED
    BY <2>1, <2>2
<1> QED
  BY <1>7, <1>8 DEF Repaid, BeingMarked, WorksOn

LEMMA WorksMoney ==
  ASSUME AgentInv, TypeOK', BooksInv, RoleInv, MoneyInv, Recorded,
         NEW t \in Threads, Course(t), Writes(t), Pays(t)
  PROVE  MoneyInv'
<1>0. /\ TypeOK /\ DOMAIN lease' = DOMAIN lease /\ DOMAIN lease \subseteq Leases /\ OthersStay(t)
  BY DEF Writes, AgentInv, TypeOK, Course
<1> SUFFICES ASSUME NEW l \in DOMAIN lease, "crossed" \notin amiss'[l] PROVE MoneyOK(l)'
  BY <1>0 DEF MoneyInv, Spared
<1>1. /\ "crossed" \notin amiss[l] /\ ~Crossed(l) /\ l \in Leases
      /\ "lost" \notin amiss'[l] => "lost" \notin amiss[l] /\ ~Lost(l)
  BY <1>0, NotAmiss
<1>2. MoneyOK(l)
  BY <1>1 DEF MoneyInv, Spared
<1>3. SettlesAlone(l)'
  BY <1>1, <1>2, WorksSettles DEF MoneyOK
<1>4. ASSUME "lost" \notin amiss'[l] PROVE Balanced(l)'
  <2>1. SettlesAlone(l) /\ Balanced(l) /\ ~Lost(l)
    BY <1>1, <1>2, <1>4 DEF MoneyOK, Spared
  <2>2. Repaid(l)'
    BY <2>1, WorksRepaid DEF Balanced
  <2>3. Booked(l)' - Booked(l) + (Unbanked(l, t)' - Unbanked(l, t)) = paid'[l] - paid[l]
    BY <2>1, WorksGain
  <2>4. /\ HeldFor(l) \in Int
        /\ HeldFor(l)' = HeldFor(l) + (Unbanked(l, t)' - Unbanked(l, t))
    BY <1>0, HeldChange
  <2>5. paid[l] = Booked(l) + HeldFor(l)
    BY <2>1 DEF Balanced
  <2>6. Booked(l) \in Nat /\ Booked(l)' \in Nat /\ paid'[l] \in Nat
    BY <1>0, <1>1 DEF TypeOK, LeaseRecord, Booked
  <2>7. Unbanked(l, t) \in Nat
    BY <1>0, UnbankedType
  <2>8. Unbanked(l, t)' \in Nat
    <3>1. (Price * OpeningSeconds)' \in Nat
      BY SecondsType DEF OpeningSeconds
    <3>2. thread'[t].amount \in Nat
      BY DEF TypeOK, Goroutine
    <3> QED
      BY <3>1, <3>2 DEF Unbanked
  <2>9. paid'[l] = Booked(l)' + HeldFor(l)'
    BY ONLY <2>3, <2>4, <2>5, <2>6, <2>7, <2>8
  <2> QED
    BY <2>2, <2>9 DEF Balanced
<1> QED
  BY <1>3, <1>4 DEF MoneyOK, Spared

\* A step that moves no money and starts no settlement keeps it.
LEMMA MoneyStays ==
  ASSUME MoneyInv, Recorded, TypeOK, TypeOK', NEW t \in Threads, OthersStay(t),
         thread[t].pc \notin {"bank", "meter"} \cup Settling,
         thread'[t].pc \notin {"bank", "meter"} \cup Settling,
         NEW l \in DOMAIN lease, lease'[l] = lease[l], UNCHANGED <<paid, returned>>,
         "crossed" \notin amiss'[l]
  PROVE  MoneyOK(l)'
<1>1. /\ l \in Leases /\ "crossed" \notin amiss[l]
      /\ "lost" \notin amiss'[l] => "lost" \notin amiss[l]
  BY NotAmiss DEF TypeOK
<1>2. MoneyOK(l)
  BY <1>1 DEF MoneyInv, Spared
<1>3. \A u \in Threads : thread[u].pc \in Settling \/ thread'[u].pc \in Settling
                           => thread'[u] = thread[u]
  BY DEF OthersStay
<1>4. SettlesAlone(l)'
  <2>1. /\ \A u, v \in Threads : WorksOn(u, l, Settling) /\ WorksOn(v, l, Settling) => u = v
        /\ \A u \in Threads : WorksOn(u, l, Settling) => lease[l].settle = "pending"
        /\ \A u \in Threads : WorksOn(u, l, Refunding) => thread[u].amount = lease[l].credit
    BY <1>2 DEF MoneyOK, SettlesAlone
  <2> QED
    BY <1>3, <2>1 DEF SettlesAlone, WorksOn, Settling, Refunding
<1>5. Repaid(l) => Repaid(l)'
  BY <1>3 DEF Repaid, BeingMarked, WorksOn, Settling
<1>6. Booked(l)' = Booked(l) /\ HeldFor(l)' = HeldFor(l)
  <2>1. Unbanked(l, t) = 0 /\ Unbanked(l, t)' = 0
    BY DEF Unbanked, At
  <2> QED
    BY <2>1, HeldChange DEF Booked
<1>7. Balanced(l) => Balanced(l)'
  BY <1>5, <1>6 DEF Balanced
<1> QED
  BY <1>1, <1>2, <1>4, <1>7 DEF MoneyOK, Spared

LEMMA StartedMoney ==
  ASSUME MoneyInv, Recorded, TypeOK, TypeOK', NEW t \in Threads, Started(t)
  PROVE  MoneyInv'
<1>1. /\ OthersStay(t) /\ thread[t].pc = "idle" /\ UNCHANGED <<lease, paid, returned>>
      /\ thread'[t].pc \notin {"bank", "meter"} \cup Settling
  BY DEF Started, Settling
<1>2. thread[t].pc \notin {"bank", "meter"} \cup Settling
  BY <1>1 DEF Settling
<1> QED
  BY <1>1, <1>2, MoneyStays DEF MoneyInv, Spared

\* Nobody holds money for a lease nobody works on.
LEMMA NothingHeld ==
  ASSUME TypeOK, NEW l \in Leases,
         \A u \in Threads : thread[u].pc \notin {"idle", "claim"} => thread[u].id # l
  PROVE  HeldFor(l) = 0
<1> PICK f : f = [u \in Threads |-> Unbanked(l, u)]
  OBVIOUS
<1>1. \A u \in Threads : Unbanked(l, u) = 0
  BY DEF Unbanked, At
<1>2. \A u \in Threads : f[u] = 0
  BY <1>1
<1>3. SumFunctionOnSet(f, Threads) = 0
  BY ONLY <1>2, ThreadsFinite, SumZero
<1> QED
  BY <1>3 DEF HeldFor

LEMMA ClaimedMoney ==
  ASSUME MoneyInv, Recorded, TypeOK, TypeOK', NEW t \in Threads, NEW l \in Leases, Claimed(t, l)
  PROVE  MoneyInv'
<1>1. /\ DOMAIN lease' = DOMAIN lease \cup {l} /\ \A k \in DOMAIN lease : lease'[k] = lease[k]
      /\ Blank(lease'[l]) /\ lease'[l].refunded = 0
      /\ OthersStay(t) /\ thread[t].pc = "claim" /\ thread'[t].pc = "provision"
      /\ UNCHANGED <<paid, returned>> /\ paid[l] = 0 /\ returned[l] = 0
      /\ \A u \in Threads : thread[u].pc \notin {"idle", "claim"} => thread[u].id # l
  BY DEF Claimed
<1>2. /\ thread[t].pc \notin {"bank", "meter"} \cup Settling
      /\ thread'[t].pc \notin {"bank", "meter"} \cup Settling
  BY <1>1 DEF Settling
<1>3. ASSUME NEW k \in DOMAIN lease, "crossed" \notin amiss'[k] PROVE MoneyOK(k)'
  BY <1>1, <1>2, <1>3, MoneyStays
<1>4. MoneyOK(l)'
  <2>1. \A u \in Threads : ~(thread'[u].id = l /\ thread'[u].pc \in Settling)
    BY <1>1, <1>2 DEF OthersStay, Settling
  <2>2. SettlesAlone(l)'
    BY <2>1 DEF SettlesAlone, WorksOn, Settling, Refunding
  <2>3. Repaid(l)'
    BY <1>1, <2>1 DEF Repaid, WorksOn, Settling
  <2>4. HeldFor(l)' = 0
    <3>1. HeldFor(l) = 0
      BY <1>1, NothingHeld
    <3>2. Unbanked(l, t) = 0 /\ Unbanked(l, t)' = 0
      BY <1>1 DEF Unbanked, At
    <3> QED
      BY <1>1, <3>1, <3>2, HeldChange
  <2>5. Booked(l)' = 0 /\ paid'[l] = 0
    BY <1>1 DEF Booked, Blank
  <2>6. Balanced(l)'
    BY <2>3, <2>4, <2>5 DEF Balanced
  <2> QED
    BY <2>2, <2>6 DEF MoneyOK
<1> QED
  BY <1>1, <1>3, <1>4 DEF MoneyInv, Spared

-----------------------------------------------------------------------------
(* All of it together.                                                     *)

HistoryInv ==
  /\ AgentInv /\ BooksInv /\ RoleInv
  /\ HistoryOK
  /\ EarlyInv
  /\ NothingLeftBehind
  /\ TunnelInv
  /\ OwesInv
  /\ MoneyInv

\* Time passing changes none of it, nor does writing a mishap down.
LEMMA RestsMoney ==
  ASSUME MoneyInv, TypeOK, TypeOK', Rests, \A l \in Leases : amiss[l] \subseteq amiss'[l]
  PROVE  MoneyInv'
<1>1. /\ lease' = lease /\ thread' = thread /\ paid' = paid /\ returned' = returned
      /\ DOMAIN lease \subseteq Leases /\ Sweep \in Threads
  BY DEF Rests, TypeOK, Threads
<1> SUFFICES ASSUME NEW l \in DOMAIN lease, "crossed" \notin amiss'[l] PROVE MoneyOK(l)'
  BY <1>1 DEF MoneyInv, Spared
<1>2. /\ "crossed" \notin amiss[l] /\ l \in Leases
      /\ "lost" \notin amiss'[l] => "lost" \notin amiss[l]
  BY <1>1
<1>3. MoneyOK(l)
  BY <1>2 DEF MoneyInv, Spared
<1>4. HeldFor(l)' = HeldFor(l)
  <2>1. OthersStay(Sweep) /\ Unbanked(l, Sweep)' = Unbanked(l, Sweep)
    BY <1>1 DEF OthersStay, Unbanked, At, OpeningSeconds
  <2>2. Unbanked(l, Sweep) \in Nat
    BY <1>1, UnbankedType
  <2> QED
    BY <1>1, <2>1, <2>2, HeldChange
<1>5. SettlesAlone(l) => SettlesAlone(l)'
  BY <1>1 DEF SettlesAlone, WorksOn
<1>6. Balanced(l) => Balanced(l)'
  BY <1>1, <1>4 DEF Balanced, Booked, Repaid, BeingMarked, WorksOn
<1> QED
  BY <1>2, <1>3, <1>5, <1>6 DEF MoneyOK, Spared

LEMMA RestsHistory ==
  ASSUME HistoryInv, TypeOK', Rests, \A l \in Leases : amiss[l] \subseteq amiss'[l]
  PROVE  EarlyInv' /\ NothingLeftBehind' /\ TunnelInv' /\ OwesInv' /\ MoneyInv'
<1>1. /\ TypeOK /\ DOMAIN lease \subseteq Leases
      /\ UNCHANGED <<lease, slot, box, tunnel, thread, paid, returned>>
  BY DEF HistoryInv, AgentInv, TypeOK, Rests
<1>2. \A l \in DOMAIN lease : \A m : m \in amiss[l] => m \in amiss'[l]
  BY <1>1
<1>3. \A l \in DOMAIN lease : \A ms : Spared(l, ms)' => Spared(l, ms)
  BY <1>2 DEF Spared
<1>4. EarlyInv'
  <2>1. \A t \in Threads : thread[t].pc \in Opening => thread[t].id \in DOMAIN lease
    BY DEF HistoryInv, AgentInv, Opening
  <2> QED
    BY <1>1, <1>2, <2>1 DEF HistoryInv, EarlyInv
<1>5. NothingLeftBehind'
  BY <1>1, <1>3 DEF HistoryInv, NothingLeftBehind, WorksOn
<1>6. TunnelInv'
  <2>1. TunnelServesTheHolder'
    BY <1>1, <1>3 DEF HistoryInv, TunnelInv, TunnelServesTheHolder, WorksOn, IsLive
  <2>2. TunnelInv
    BY DEF HistoryInv
  <2> QED
    BY <1>1, <1>3, <2>1, <2>2 DEF TunnelInv, WorksOn, IsLive
<1>7. OwesInv'
  <2>1. EndedOwesNothing'
    BY <1>1, <1>3 DEF HistoryInv, OwesInv, EndedOwesNothing, WorksOn
  <2> QED
    BY <1>1, <1>2, <2>1 DEF HistoryInv, OwesInv
<1>8. MoneyInv'
  BY <1>1, RestsMoney DEF HistoryInv
<1> QED
  BY <1>4, <1>5, <1>6, <1>7, <1>8

LEMMA InitHistory == HInit => HistoryInv
<1> SUFFICES ASSUME HInit PROVE HistoryInv
  OBVIOUS
<1>1. AgentInv /\ BooksInv /\ RoleInv
  BY InitAgentInv, InitBooks, InitRoles DEF HInit
<1>2. DOMAIN lease = {} /\ \A t \in Threads : thread[t].pc = "idle" /\ thread[t].op = "none"
  BY DEF HInit, Init, Idle
<1>3. HistoryOK
  BY DEF HInit, HistoryOK
<1>4. EarlyInv /\ NothingLeftBehind /\ MoneyInv
  BY <1>2 DEF EarlyInv, NothingLeftBehind, MoneyInv, Opening
<1>5. TunnelInv /\ OwesInv
  BY <1>2 DEF TunnelInv, TunnelServesTheHolder, OwesInv, EndedOwesNothing, IsLive
<1> QED
  BY <1>1, <1>3, <1>4, <1>5 DEF HistoryInv

LEMMA NextHistory ==
  ASSUME HistoryInv, [HNext]_hvars
  PROVE  HistoryInv'
<1>1. [Next]_vars
  BY DEF HNext, hvars
<1>2. /\ AgentInv /\ BooksInv /\ RoleInv /\ HistoryOK /\ EarlyInv /\ NothingLeftBehind
      /\ TunnelInv /\ OwesInv /\ MoneyInv
  BY DEF HistoryInv
<1>3. AgentInv' /\ BooksInv' /\ RoleInv' /\ OverStaysOver
  BY <1>1, <1>2, NextAgentInv, NextBooks, NextRoles
<1>4. TypeOK /\ TypeOK'
  BY <1>2, <1>3 DEF AgentInv
<1>5. CASE HNext
  <2>1. HistoryOK' /\ Recorded
    BY <1>2, <1>5, HistoryGrows
  <2>2. ASSUME NEW t \in Threads, Course(t), Writes(t), Builds(t), Tunnels(t), Pays(t)
        PROVE  EarlyInv' /\ NothingLeftBehind' /\ TunnelInv' /\ OwesInv' /\ MoneyInv'
    <3>1. EarlyInv' /\ NothingLeftBehind'
      BY <1>2, <2>1, <2>2, WorksEarly, WorksLeft
    <3>2. TunnelInv'
      BY <1>2, <1>3, <2>1, <2>2, WorksTunnelInv
    <3>3. OwesInv'
      BY <1>2, <1>3, <1>4, <2>1, <2>2, WorksOwes
    <3>4. MoneyInv'
      BY <1>2, <1>4, <2>1, <2>2, WorksMoney
    <3> QED
      BY <3>1, <3>2, <3>3, <3>4
  <2>3. ASSUME NEW t \in Threads, Started(t)
        PROVE  EarlyInv' /\ NothingLeftBehind' /\ TunnelInv' /\ OwesInv' /\ MoneyInv'
    <3>1. EarlyInv' /\ NothingLeftBehind' /\ TunnelInv'
      BY <1>2, <2>1, <2>3, StartedEarly, StartedLeft, StartedTunnel
    <3>2. OwesInv' /\ MoneyInv'
      BY <1>2, <1>4, <2>1, <2>3, StartedOwes, StartedMoney
    <3> QED
      BY <3>1, <3>2
  <2>4. ASSUME NEW t \in Threads, NEW l \in Leases, Claimed(t, l)
        PROVE  EarlyInv' /\ NothingLeftBehind' /\ TunnelInv' /\ OwesInv' /\ MoneyInv'
    <3>1. EarlyInv' /\ NothingLeftBehind' /\ TunnelInv'
      BY <1>2, <2>1, <2>4, ClaimedEarly, ClaimedLeft, ClaimedTunnel
    <3>2. OwesInv' /\ MoneyInv'
      BY <1>2, <1>4, <2>1, <2>4, ClaimedOwes, ClaimedMoney
    <3> QED
      BY <3>1, <3>2
  <2>5. ASSUME Rests
        PROVE  EarlyInv' /\ NothingLeftBehind' /\ TunnelInv' /\ OwesInv' /\ MoneyInv'
    <3>1. \A l \in Leases : amiss[l] \subseteq amiss'[l]
      BY <2>1 DEF Recorded
    <3> QED
      BY <1>4, <2>5, <3>1, RestsHistory
  <2>6. EarlyInv' /\ NothingLeftBehind' /\ TunnelInv' /\ OwesInv' /\ MoneyInv'
    <3>1. \/ \E t \in Threads : /\ Course(t) /\ Writes(t) /\ Builds(t) /\ Tunnels(t) /\ Pays(t)
          \/ \E t \in Threads : Started(t)
          \/ \E t \in Threads, l \in Leases : Claimed(t, l)
          \/ Rests
      BY <1>1, <1>2, StepKinds
    <3>2. CASE \E t \in Threads : /\ Course(t) /\ Writes(t) /\ Builds(t) /\ Tunnels(t) /\ Pays(t)
      BY <2>2, <3>2
    <3>3. CASE \E t \in Threads : Started(t)
      BY <2>3, <3>3
    <3>4. CASE \E t \in Threads, l \in Leases : Claimed(t, l)
      BY <2>4, <3>4
    <3> QED
      BY ONLY <2>5, <3>1, <3>2, <3>3, <3>4
  <2> QED
    BY <1>3, <2>1, <2>6 DEF HistoryInv
<1>6. CASE UNCHANGED hvars
  <2>1. amiss' = amiss /\ Rests
    BY <1>6 DEF hvars, vars, Rests
  <2>2. HistoryOK' /\ \A l \in Leases : amiss[l] \subseteq amiss'[l]
    BY <1>2, <2>1 DEF HistoryOK
  <2>3. EarlyInv' /\ NothingLeftBehind' /\ TunnelInv' /\ OwesInv' /\ MoneyInv'
    BY <1>4, <2>1, <2>2, RestsHistory
  <2> QED
    BY <1>3, <2>2, <2>3 DEF HistoryInv
<1> QED
  BY <1>5, <1>6

THEOREM HistoryInvHolds == HSpec => []HistoryInv
<1>1. HInit => HistoryInv
  BY InitHistory
<1>2. HistoryInv /\ [HNext]_hvars => HistoryInv'
  BY NextHistory
<1> QED
  BY <1>1, <1>2, PTL DEF HSpec

\* However many goroutines sell, run, end and settle sessions at once, and whatever
\* calls fail, every tinybar settled for a lease is earned, held, about to be banked
\* or returned, unless a call lied about that lease's money or two goroutines settled
\* it at once (the property of run agent_mishaps, for any number of both).
THEOREM EveryTinybarOnceHolds == HSpec => []EveryTinybarOnce
<1>1. HistoryInv => EveryTinybarOnce
  <2> SUFFICES ASSUME HistoryInv, NEW l \in DOMAIN lease,
                      "lost" \notin amiss[l], "crossed" \notin amiss[l], ~BeingMarked(l)
               PROVE  paid[l] = lease[l].burned + lease[l].credit + HeldFor(l) + returned[l]
    BY DEF EveryTinybarOnce, Spared
  <2>1. Balanced(l)
    BY DEF HistoryInv, MoneyInv, MoneyOK, Spared
  <2>2. lease[l].refunded = returned[l] /\ paid[l] = Booked(l) + HeldFor(l)
    BY <2>1 DEF Balanced, Repaid
  <2>3. TypeOK /\ Sweep \in Threads
    BY DEF HistoryInv, AgentInv, Threads
  <2>4. HeldFor(l) \in Int
    <3> PICK f : f = [u \in Threads |-> Unbanked(l, u)]
      OBVIOUS
    <3>1. \A u \in Threads : f[u] \in Int
      BY <2>3, UnbankedType
    <3>2. SumFunctionOnSet(f, Threads) \in Int
      BY ONLY <3>1, ThreadsFinite, SumInt
    <3> QED
      BY <3>2 DEF HeldFor
  <2>5. /\ lease[l].burned \in Nat /\ lease[l].credit \in Nat /\ lease[l].refunded \in Nat
    BY <2>3 DEF TypeOK, LeaseRecord
  <2> QED
    BY <2>2, <2>4, <2>5 DEF Booked
<1> QED
  BY <1>1, HistoryInvHolds, PTL

\* What a session says was returned is what was transferred, however many goroutines
\* meet on it, unless a call lied or two of them settled it at once.
THEOREM RefundedIsReturnedHolds == HSpec => []RefundedIsReturned
<1>1. HistoryInv => RefundedIsReturned
  BY DEF HistoryInv, RefundedIsReturned, MoneyInv, MoneyOK, Balanced, Repaid, Spared
<1> QED
  BY <1>1, HistoryInvHolds, PTL

\* However they interleave, credit on a session that is over has a goroutine on its
\* way to return it, unless a refund failed or the credit came after the end.
THEOREM EndedOwesNothingHolds == HSpec => []EndedOwesNothing
<1>1. HistoryInv => EndedOwesNothing
  BY DEF HistoryInv, OwesInv
<1> QED
  BY <1>1, HistoryInvHolds, PTL

\* However they interleave, the container of a lease that is over has its reaper on
\* the way, unless docker refused or the lease was ended while being set up.
THEOREM NothingLeftBehindHolds == HSpec => []NothingLeftBehind
<1>1. HistoryInv => NothingLeftBehind
  BY DEF HistoryInv
<1> QED
  BY <1>1, HistoryInvHolds, PTL

\* However they interleave, the tunnel serves the session that has the node, and
\* withdraws from one that is over, unless they got in each other's way on it.
THEOREM TunnelServesTheHolderHolds == HSpec => []TunnelServesTheHolder
<1>1. HistoryInv => TunnelServesTheHolder
  BY DEF HistoryInv, TunnelInv
<1> QED
  BY <1>1, HistoryInvHolds, PTL

=============================================================================
