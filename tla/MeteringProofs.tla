---------------------------- MODULE MeteringProofs ----------------------------
(* Proofs about one metered session, for every price, length, grace and      *)
(* clock resolution the configuration accepts.                               *)
EXTENDS Metering, LedgerProofs, TLAPS

-----------------------------------------------------------------------------
(* Lemmas about the handlers.                                              *)

\* Ending a live lease either leaves its ledger as it was or returns the whole
\* remainder and closes it.
LEMMA EndedByEffect ==
  ASSUME NEW l \in LeaseRecord, NEW status \in Terminal, NEW transferred \in BOOLEAN,
         ~IsTerminal(l)
  PROVE  LET k == EndedBy(l, status, transferred)
         IN  /\ k \in LeaseRecord
             /\ k.status = status /\ k.metered = l.metered /\ k.price = l.price
             /\ k.burned = l.burned /\ k.lastTickAt = l.lastTickAt
             /\ k.sessionSeconds = l.sessionSeconds
             /\ \/ k.credit = l.credit /\ k.refunded = l.refunded /\ k.settle = l.settle
                \/ /\ l.metered /\ l.settle = "pending"
                   /\ k.settle = "done" /\ k.credit = 0 /\ k.refunded = l.credit
<1> DEFINE s == SetStatus(l, status)
           k == EndedBy(l, status, transferred)
<1>1. /\ s \in LeaseRecord
      /\ s.status = status /\ s.metered = l.metered /\ s.price = l.price
      /\ s.burned = l.burned /\ s.lastTickAt = l.lastTickAt
      /\ s.sessionSeconds = l.sessionSeconds
      /\ s.credit = l.credit /\ s.refunded = l.refunded /\ s.settle = l.settle
  BY DEF SetStatus, LeaseRecord, Status
<1>2. k = SettleSession(s, transferred)
  BY DEF EndedBy
<1> HIDE DEF s, k
<1>3. CASE k = s
  BY <1>1, <1>3 DEF k
<1>4. CASE s.metered /\ s.settle = "pending" /\ k = MarkSettled(s, s.credit)
  <2>1. k = [s EXCEPT !.settle = "done", !.refunded = s.credit, !.credit = 0]
    BY <1>4 DEF MarkSettled
  <2>2. /\ k \in LeaseRecord
        /\ k.status = s.status /\ k.metered = s.metered /\ k.price = s.price
        /\ k.burned = s.burned /\ k.lastTickAt = s.lastTickAt
        /\ k.sessionSeconds = s.sessionSeconds
        /\ k.settle = "done" /\ k.credit = 0 /\ k.refunded = s.credit
    BY <1>1, <2>1 DEF LeaseRecord, SettleState
  <2>3. QED
    BY <1>1, <1>4, <2>2 DEF k
<1>5. k = s \/ (s.metered /\ s.settle = "pending" /\ k = MarkSettled(s, s.credit))
  BY <1>2 DEF SettleSession
<1>6. QED
  BY <1>3, <1>4, <1>5

-----------------------------------------------------------------------------
(* The money invariant is inductive.                                       *)

\* The chunk that opens a session is a natural number of seconds.
LEMMA SessionChunkType ==
  ASSUME NEW seconds \in Lengths
  PROVE  seconds \in Nat /\ SessionChunk(seconds) \in Nat
BY ConfigAssumption DEF Lengths, SessionChunk

\* A top-up buys a natural number of seconds.
LEMMA TopUpSecondsType ==
  ASSUME NEW l \in LeaseRecord
  PROVE  TopUpSeconds(l) \in Nat
<1>1. l.sessionSeconds \in Nat /\ l.burned + l.credit \in Nat /\ l.price \in Nat
  BY DEF LeaseRecord
<1>2. PaidSeconds(l) \in Nat
  BY <1>1 DEF PaidSeconds
<1>3. UnpaidSeconds(l) \in Nat
  BY <1>1, <1>2 DEF UnpaidSeconds
<1>4. QED
  BY <1>3, ConfigAssumption DEF TopUpSeconds

\* Charging a session for the time up to now keeps its money and is covered by
\* the time it ran.
LEMMA TickedEffect ==
  ASSUME MoneyInv
  PROVE  /\ Ticked \in LeaseRecord
         /\ Ticked.status = lease.status /\ Ticked.metered = lease.metered
         /\ Ticked.price = lease.price /\ Ticked.settle = lease.settle
         /\ Ticked.refunded = lease.refunded
         /\ Ticked.sessionSeconds = lease.sessionSeconds
         /\ Ticked.lastTickAt <= clock
         /\ (lease.metered /\ lease.status = "active") => Ticked.lastTickAt = clock
         /\ Ticked.credit \in 0..lease.credit
         /\ Ticked.burned = lease.burned + (lease.credit - Ticked.credit)
         /\ Ticked.burned * Second <= lease.price * ran
<1>1. /\ lease \in LeaseRecord /\ clock \in Nat /\ ran \in Nat
      /\ lease.lastTickAt <= clock /\ SinceTick <= ran
      /\ lease.burned * Second <= lease.price * (ran - SinceTick)
  BY ConfigAssumption DEF MoneyInv, TypeOK
<1>2. /\ lease.credit \in Nat /\ lease.burned \in Nat /\ lease.price \in Nat
      /\ lease.lastTickAt \in Nat
  BY <1>1 DEF LeaseRecord
<1>3. CASE lease.metered /\ lease.status = "active"
  <2> DEFINE k == Burn(lease, clock)
             e == clock - lease.lastTickAt
  <2>1. /\ k \in LeaseRecord
        /\ k.status = lease.status /\ k.metered = lease.metered /\ k.price = lease.price
        /\ k.settle = lease.settle /\ k.refunded = lease.refunded
        /\ k.sessionSeconds = lease.sessionSeconds
        /\ k.lastTickAt = clock
        /\ k.credit \in 0..lease.credit
        /\ k.burned = lease.burned + (lease.credit - k.credit)
        /\ (k.burned - lease.burned) * Second <= lease.price * e
    BY <1>1, <1>3, BurnEffect
  <2>2. Ticked = k /\ SinceTick = e
    BY <1>3 DEF Ticked, SinceTick
  <2> HIDE DEF k
  <2>3. e \in Nat /\ k.burned \in Nat
    BY <1>1, <1>2, <2>1
  <2> HIDE DEF e
  <2>4. k.burned * Second = lease.burned * Second + (k.burned - lease.burned) * Second
    BY <1>2, <2>3, SecondAssumption
  <2>5. lease.price * (ran - e) + lease.price * e = lease.price * ran
    BY <1>1, <1>2, <2>3
  <2>6. k.burned * Second <= lease.price * ran
    <3> DEFINE a == lease.burned * Second
               b == (k.burned - lease.burned) * Second
               c == lease.price * (ran - e)
               d == lease.price * e
    <3>1. a \in Int /\ b \in Int /\ c \in Int /\ d \in Int
      BY <1>1, <1>2, <2>3, SecondAssumption
    <3>2. a <= c /\ b <= d
      BY <1>1, <2>1, <2>2
    <3>3. k.burned * Second = a + b /\ c + d = lease.price * ran
      BY <2>4, <2>5
    <3> HIDE DEF a, b, c, d
    <3>4. QED
      BY <3>1, <3>2, <3>3
  <2>7. k.lastTickAt <= clock
    BY <1>1, <2>1
  <2>8. QED
    BY <2>1, <2>2, <2>6, <2>7
<1>4. CASE ~(lease.metered /\ lease.status = "active")
  <2>1. Ticked = lease /\ SinceTick = 0
    BY <1>4 DEF Ticked, SinceTick
  <2>2. lease.burned * Second <= lease.price * ran
    BY <1>1, <2>1
  <2>3. QED
    BY <1>1, <1>2, <1>4, <2>1, <2>2
<1>5. QED
  BY <1>3, <1>4

\* Ending a live session, after the last charge, keeps the invariant.
LEMMA EndKeepsMoneyInv ==
  ASSUME MoneyInv, NEW status \in Terminal, NEW transferred \in BOOLEAN,
         ~IsTerminal(lease),
         lease' = EndedBy(Ticked, status, transferred),
         UNCHANGED <<asked, clock, paidIn, ran>>
  PROVE  MoneyInv'
<1>1. ~IsTerminal(Ticked)
  BY TickedEffect DEF IsTerminal
<1>2. Ticked \in LeaseRecord
  BY TickedEffect
<1>3. /\ lease' \in LeaseRecord
      /\ lease'.status = status /\ lease'.metered = Ticked.metered
      /\ lease'.price = Ticked.price
      /\ lease'.burned = Ticked.burned /\ lease'.lastTickAt = Ticked.lastTickAt
      /\ \/ /\ lease'.credit = Ticked.credit /\ lease'.refunded = Ticked.refunded
            /\ lease'.settle = Ticked.settle
         \/ /\ Ticked.metered /\ Ticked.settle = "pending"
            /\ lease'.settle = "done" /\ lease'.credit = 0
            /\ lease'.refunded = Ticked.credit
  BY <1>1, <1>2, EndedByEffect
<1>4. /\ lease \in LeaseRecord /\ lease.credit \in Nat /\ lease.burned \in Nat
      /\ lease.refunded \in Nat /\ Ticked.credit \in Nat /\ ran \in Nat /\ paidIn \in Nat
  BY <1>2, ConfigAssumption DEF MoneyInv, TypeOK, LeaseRecord
<1>5. IsTerminal(lease') /\ lease'.status # "active"
  BY <1>3 DEF IsTerminal, Terminal
<1>6. SinceTick' = 0
  BY <1>5 DEF SinceTick
<1>7. TypeOK'
  BY <1>3 DEF MoneyInv, TypeOK
<1>8. Conservation'
  BY <1>3, <1>4, TickedEffect DEF MoneyInv, Conservation
<1>9. lease'.burned * Second <= lease'.price * (ran' - SinceTick')
  BY <1>3, <1>4, <1>6, TickedEffect
<1>10. ~lease'.metered =>
         lease'.credit = 0 /\ lease'.burned = 0 /\ lease'.price = 0 /\ lease'.settle = "none"
  <2> SUFFICES ASSUME ~lease'.metered
               PROVE  lease'.credit = 0 /\ lease'.burned = 0 /\ lease'.price = 0
                      /\ lease'.settle = "none"
    OBVIOUS
  <2>1. ~lease.metered /\ ~Ticked.metered
    BY <1>3, TickedEffect
  <2>2. /\ lease.credit = 0 /\ lease.burned = 0 /\ lease.price = 0 /\ lease.settle = "none"
    BY <2>1 DEF MoneyInv
  <2>3. Ticked.credit = 0 /\ Ticked.burned = 0
    BY <2>2, TickedEffect
  <2>4. QED
    BY <1>3, <2>1, <2>2, <2>3, TickedEffect
<1>11. /\ lease'.metered => lease'.settle # "none"
       /\ lease'.settle = "done" => IsTerminal(lease') /\ lease'.credit = 0
       /\ lease'.settle # "done" => lease'.refunded = 0
  BY <1>3, <1>5, TickedEffect DEF MoneyInv
<1>12. lease'.lastTickAt <= clock' /\ SinceTick' <= ran'
  BY <1>3, <1>4, <1>6, TickedEffect
<1>13. QED
  BY <1>7, <1>8, <1>9, <1>10, <1>11, <1>12 DEF MoneyInv, IsTerminal

\* The opening payment fills an empty ledger.
LEMMA OpenKeepsMoneyInv ==
  ASSUME MoneyInv, Open
  PROVE  MoneyInv'
<1> DEFINE amount == Price * SessionChunk(asked)
<1>1. asked \in Lengths /\ asked' = asked /\ asked \in Nat /\ amount \in Nat
  BY SessionChunkType, AmountType, PriceAssumption DEF MoneyInv, TypeOK, Open
<1>2. /\ lease \in LeaseRecord /\ clock \in Nat /\ clock \in 0..MaxClock
      /\ ran \in 0..clock /\ paidIn \in Nat
  BY ConfigAssumption DEF MoneyInv, TypeOK
<1>3. /\ lease' = MarkMetered(lease, asked, amount, clock)
      /\ paidIn' = paidIn + amount /\ clock' = clock /\ ran' = ran /\ ~lease.metered
  BY DEF Open
<1> HIDE DEF amount
<1>4. /\ lease' \in LeaseRecord
      /\ lease'.status = lease.status /\ lease'.metered /\ lease'.price = Price
      /\ lease'.settle = "pending" /\ lease'.refunded = lease.refunded
      /\ lease'.burned = 0 /\ lease'.credit = amount /\ lease'.lastTickAt = clock
  <2> DEFINE k == MarkMetered(lease, asked, amount, clock)
  <2>1. /\ k \in LeaseRecord
        /\ k.status = lease.status /\ k.metered /\ k.price = Price
        /\ k.settle = "pending" /\ k.refunded = lease.refunded
        /\ k.burned = 0 /\ k.credit = amount /\ k.lastTickAt = clock
    BY <1>1, <1>2, MarkMeteredEffect
  <2>2. lease' = k
    BY <1>3
  <2> HIDE DEF k
  <2>3. QED
    BY <2>1, <2>2
<1>5. lease.credit = 0 /\ lease.burned = 0 /\ lease.refunded = 0
  BY <1>3 DEF MoneyInv
<1>6. SinceTick' = 0
  BY <1>2, <1>3, <1>4 DEF SinceTick
<1>7. TypeOK'
  BY <1>1, <1>2, <1>3, <1>4 DEF TypeOK
<1>8. Conservation'
  BY <1>1, <1>2, <1>3, <1>4, <1>5 DEF MoneyInv, Conservation
<1>9. lease'.burned * Second <= lease'.price * (ran' - SinceTick')
  <2>1. ran' - SinceTick' \in Nat
    BY <1>2, <1>3, <1>6
  <2>2. lease'.price * (ran' - SinceTick') \in Nat
    BY <1>4, <2>1, AmountType, PriceAssumption
  <2>3. QED
    BY <1>4, <2>2, SecondAssumption
<1>10. SinceTick' <= ran' /\ lease'.lastTickAt <= clock'
  BY <1>2, <1>3, <1>4, <1>6
<1>11. QED
  BY <1>4, <1>5, <1>7, <1>8, <1>9, <1>10 DEF MoneyInv

\* A top-up, with the thaw it may bring, only adds to the renter's half.
LEMMA TopUpKeepsMoneyInv ==
  ASSUME MoneyInv, TopUp
  PROVE  MoneyInv'
<1> DEFINE amount == lease.price * TopUpSeconds(lease)
           k == AddCredit(lease, amount)
<1>1. /\ lease \in LeaseRecord /\ clock \in Nat /\ ran \in Nat /\ paidIn \in Nat
      /\ lease.credit \in Nat /\ lease.burned \in Nat /\ lease.refunded \in Nat
      /\ lease.price \in Nat /\ lease.lastTickAt \in Nat
  BY ConfigAssumption DEF MoneyInv, TypeOK, LeaseRecord
<1>2. amount \in Nat
  BY <1>1, TopUpSecondsType, AmountType
<1>3. /\ lease.metered /\ ~IsTerminal(lease) /\ lease' = Resume(k, clock)
      /\ asked' = asked /\ paidIn' = paidIn + amount /\ clock' = clock /\ ran' = ran
  BY DEF TopUp, TopUpAllowed
<1> HIDE DEF amount, k
<1>4. /\ k \in LeaseRecord
      /\ k.status = lease.status /\ k.metered = lease.metered /\ k.price = lease.price
      /\ k.settle = lease.settle /\ k.refunded = lease.refunded
      /\ k.lastTickAt = lease.lastTickAt /\ k.burned = lease.burned
      /\ k.credit = lease.credit + amount
  BY <1>1, <1>2, <1>3, AddCreditEffect DEF k
<1>5. /\ lease' \in LeaseRecord
      /\ lease'.metered = k.metered /\ lease'.price = k.price
      /\ lease'.settle = k.settle /\ lease'.refunded = k.refunded
      /\ lease'.burned = k.burned /\ lease'.credit = k.credit
      /\ k.status = "paused" => lease'.status = "active" /\ lease'.lastTickAt = clock
      /\ k.status # "paused" => lease'.status = k.status /\ lease'.lastTickAt = k.lastTickAt
  BY <1>1, <1>3, <1>4, ResumeEffect
<1>6. TypeOK'
  BY <1>1, <1>2, <1>3, <1>5 DEF MoneyInv, TypeOK
<1>7. Conservation'
  BY <1>1, <1>2, <1>3, <1>4, <1>5 DEF MoneyInv, Conservation
<1>8. SinceTick' = SinceTick
  <2>1. CASE lease.status = "paused"
    BY <1>1, <1>3, <1>4, <1>5, <2>1 DEF SinceTick
  <2>2. CASE lease.status # "paused"
    BY <1>3, <1>4, <1>5, <2>2 DEF SinceTick
  <2>3. QED
    BY <2>1, <2>2
<1>9. /\ lease'.lastTickAt <= clock'
      /\ SinceTick' <= ran'
      /\ lease'.burned * Second <= lease'.price * (ran' - SinceTick')
  BY <1>1, <1>3, <1>4, <1>5, <1>8 DEF MoneyInv
<1>10. lease.settle # "done" /\ lease.settle # "none"
  BY <1>3 DEF MoneyInv
<1>11. lease'.metered /\ lease'.settle = lease.settle /\ lease'.refunded = lease.refunded
  BY <1>3, <1>4, <1>5
<1>12. lease.refunded = 0
  BY <1>10 DEF MoneyInv
<1>13. QED
  BY <1>6, <1>7, <1>9, <1>10, <1>11, <1>12 DEF MoneyInv

\* The sweep's tick moves money to the provider and leaves the rest; freezing
\* the session after it moves nothing more.
LEMMA SweepKeepsMoneyInv ==
  ASSUME MoneyInv, lease.status = "active",
         lease' = Ticked \/ lease' = Pause(Ticked, clock),
         UNCHANGED <<asked, clock, paidIn, ran>>
  PROVE  MoneyInv'
<1>1. /\ lease \in LeaseRecord /\ clock \in Nat /\ ran \in Nat /\ paidIn \in Nat
      /\ lease.credit \in Nat /\ lease.burned \in Nat /\ lease.refunded \in Nat
      /\ Ticked \in LeaseRecord /\ Ticked.credit \in Nat
  BY TickedEffect, ConfigAssumption DEF MoneyInv, TypeOK, LeaseRecord
<1>2. Pause(Ticked, clock) = [Ticked EXCEPT !.status = "paused", !.pausedAt = clock]
  BY TickedEffect DEF Pause
<1>3. /\ lease' \in LeaseRecord
      /\ lease'.status \in {"active", "paused"}
      /\ lease'.metered = Ticked.metered /\ lease'.price = Ticked.price
      /\ lease'.settle = Ticked.settle /\ lease'.refunded = Ticked.refunded
      /\ lease'.burned = Ticked.burned /\ lease'.credit = Ticked.credit
      /\ lease'.lastTickAt = Ticked.lastTickAt
  <2>1. CASE lease' = Ticked
    BY <1>1, <2>1, TickedEffect
  <2>2. CASE lease' = Pause(Ticked, clock)
    BY <1>1, <1>2, <2>2 DEF LeaseRecord, Status, Live
  <2>3. QED
    BY <2>1, <2>2
<1>4. TypeOK'
  BY <1>3 DEF MoneyInv, TypeOK
<1>5. Conservation'
  <2>1. Ticked.burned = lease.burned + (lease.credit - Ticked.credit)
        /\ Ticked.refunded = lease.refunded
    BY TickedEffect
  <2>2. lease.burned + lease.credit + lease.refunded = paidIn
    BY DEF MoneyInv, Conservation
  <2>3. QED
    BY <1>1, <1>3, <2>1, <2>2 DEF Conservation
<1>6. SinceTick' = 0
  BY <1>1, <1>3, TickedEffect DEF SinceTick
<1>7. lease'.burned * Second <= lease'.price * (ran' - SinceTick')
  BY <1>1, <1>3, <1>6, TickedEffect
<1>8. lease'.lastTickAt <= clock' /\ SinceTick' <= ran'
  BY <1>1, <1>3, <1>6, TickedEffect
<1>9. ~lease'.metered =>
        lease'.credit = 0 /\ lease'.burned = 0 /\ lease'.price = 0 /\ lease'.settle = "none"
  <2> SUFFICES ASSUME ~lease'.metered
               PROVE  lease'.credit = 0 /\ lease'.burned = 0 /\ lease'.price = 0
                      /\ lease'.settle = "none"
    OBVIOUS
  <2>1. ~lease.metered
    BY <1>3, TickedEffect
  <2>2. /\ lease.credit = 0 /\ lease.burned = 0 /\ lease.price = 0 /\ lease.settle = "none"
    BY <2>1 DEF MoneyInv
  <2>3. Ticked.credit = 0 /\ Ticked.burned = 0
    BY <2>2, TickedEffect
  <2>4. QED
    BY <1>3, <2>2, <2>3, TickedEffect
<1>10. lease.settle # "done"
  BY DEF MoneyInv, IsTerminal, Terminal
<1>11. /\ lease'.settle = lease.settle /\ lease'.refunded = lease.refunded
       /\ lease'.metered = lease.metered
  BY <1>3, TickedEffect
<1>12. lease.refunded = 0 /\ (lease.metered => lease.settle # "none")
  BY <1>10 DEF MoneyInv
<1>13. QED
  BY <1>4, <1>5, <1>7, <1>8, <1>9, <1>10, <1>11, <1>12 DEF MoneyInv

\* Time passing lets a running session owe for one more tick.
LEMMA TickKeepsMoneyInv ==
  ASSUME MoneyInv, Tick
  PROVE  MoneyInv'
<1>1. /\ lease \in LeaseRecord /\ clock \in 0..MaxClock /\ ran \in 0..clock /\ paidIn \in Nat
      /\ MaxClock \in Nat /\ lease.lastTickAt \in Nat
  BY ConfigAssumption DEF MoneyInv, TypeOK, LeaseRecord
<1>2. /\ lease' = lease /\ asked' = asked /\ paidIn' = paidIn /\ clock' = clock + 1 /\ clock < MaxClock
  BY DEF Tick
<1>3. CASE lease.metered /\ lease.status = "active"
  <2>1. ran' = ran + 1 /\ SinceTick' = SinceTick + 1 /\ SinceTick \in Int
    BY <1>1, <1>2, <1>3 DEF Tick, SinceTick
  <2>2. TypeOK'
    BY <1>1, <1>2, <2>1 DEF MoneyInv, TypeOK
  <2>3. ran' - SinceTick' = ran - SinceTick /\ SinceTick' <= ran'
    BY <1>1, <2>1 DEF MoneyInv
  <2>4. QED
    BY <1>1, <1>2, <2>2, <2>3 DEF MoneyInv, Conservation
<1>4. CASE ~(lease.metered /\ lease.status = "active")
  <2>1. ran' = ran /\ SinceTick' = SinceTick
    BY <1>2, <1>4 DEF Tick, SinceTick
  <2>2. TypeOK'
    BY <1>1, <1>2, <2>1 DEF MoneyInv, TypeOK
  <2>3. QED
    BY <1>1, <1>2, <2>1, <2>2 DEF MoneyInv, Conservation
<1>5. QED
  BY <1>3, <1>4

-----------------------------------------------------------------------------
(* The theorems.                                                           *)

\* A lease just provisioned holds no money.
LEMMA InitMoneyInv == Init => MoneyInv
<1> SUFFICES ASSUME Init PROVE MoneyInv
  OBVIOUS
<1>1. asked \in Lengths /\ lease = SetStatus(NewLease(SessionChunk(asked), 0), "active")
  BY DEF Init
<1> DEFINE n == SessionChunk(asked)
<1>2. n \in Nat
  BY <1>1, SessionChunkType
<1> HIDE DEF n
<1> DEFINE new == NewLease(n, 0)
<1>3. /\ new \in LeaseRecord /\ new.status = "provisioning"
      /\ new.metered = FALSE /\ new.credit = 0 /\ new.burned = 0 /\ new.price = 0
      /\ new.settle = "none" /\ new.refunded = 0 /\ new.lastTickAt = 0
  BY <1>2, NewLeaseType
<1>4. lease = [new EXCEPT !.status = "active"]
  BY <1>1, <1>3 DEF SetStatus, IsTerminal, Terminal, n
<1> HIDE DEF new
<1>5. /\ lease \in LeaseRecord
      /\ lease.metered = FALSE /\ lease.credit = 0 /\ lease.burned = 0 /\ lease.price = 0
      /\ lease.settle = "none" /\ lease.refunded = 0 /\ lease.lastTickAt = 0
  BY <1>3, <1>4 DEF LeaseRecord, Status, Live
<1>6. clock = 0 /\ paidIn = 0 /\ ran = 0 /\ MaxClock \in Nat
  BY ConfigAssumption DEF Init
<1>7. SinceTick = 0
  BY <1>5 DEF SinceTick
<1>8. TypeOK /\ Conservation
  BY <1>1, <1>5, <1>6 DEF TypeOK, Conservation
<1>9. lease.burned * Second <= lease.price * (ran - SinceTick)
  BY <1>5, <1>6, <1>7, SecondAssumption
<1>10. QED
  BY <1>5, <1>6, <1>7, <1>8, <1>9 DEF MoneyInv

\* Every step of every handler, of the sweep and of the clock keeps the invariant.
LEMMA NextMoneyInv == MoneyInv /\ [Next]_vars => MoneyInv'
<1> SUFFICES ASSUME MoneyInv, [Next]_vars PROVE MoneyInv'
  OBVIOUS
<1>0. "stopped" \in Terminal /\ "expired" \in Terminal /\ "failed" \in Terminal
      /\ "active" \notin Terminal /\ "paused" \notin Terminal
  BY DEF Terminal
<1>1. CASE Open
  BY <1>1, OpenKeepsMoneyInv
<1>2. CASE OpenFails
  <2>1. /\ lease \in LeaseRecord /\ ~lease.metered /\ lease' = [lease EXCEPT !.status = "failed"]
        /\ asked' = asked /\ clock' = clock /\ paidIn' = paidIn /\ ran' = ran
    BY <1>2 DEF OpenFails, SetStatus, MoneyInv, TypeOK
  <2>2. /\ lease' \in LeaseRecord /\ lease'.status = "failed"
        /\ lease'.metered = lease.metered /\ lease'.price = lease.price
        /\ lease'.settle = lease.settle /\ lease'.refunded = lease.refunded
        /\ lease'.burned = lease.burned /\ lease'.credit = lease.credit
        /\ lease'.lastTickAt = lease.lastTickAt
    BY <1>0, <2>1 DEF LeaseRecord, Status
  <2>3. SinceTick = 0 /\ SinceTick' = 0
    BY <2>1, <2>2 DEF SinceTick
  <2>4. QED
    BY <1>0, <2>1, <2>2, <2>3 DEF MoneyInv, TypeOK, Conservation, IsTerminal
<1>3. CASE TopUp
  BY <1>3, TopUpKeepsMoneyInv
<1>4. CASE \E transferred \in BOOLEAN : Stop(transferred)
  BY <1>0, <1>4, EndKeepsMoneyInv DEF Stop
<1>5. CASE \E transferred \in BOOLEAN : SweepExpire(transferred)
  BY <1>0, <1>5, EndKeepsMoneyInv DEF SweepExpire, IsTerminal
<1>6. CASE SweepFreeze
  BY <1>6, SweepKeepsMoneyInv DEF SweepFreeze
<1>7. CASE SweepTick
  BY <1>7, SweepKeepsMoneyInv DEF SweepTick
<1>8. CASE \E transferred \in BOOLEAN : SweepReap(transferred)
  <2>1. lease.status = "paused" => Ticked = lease
    BY DEF Ticked
  <2>2. QED
    BY <1>0, <1>8, <2>1, EndKeepsMoneyInv DEF SweepReap, IsTerminal
<1>9. CASE Tick
  BY <1>9, TickKeepsMoneyInv
<1>10. CASE UNCHANGED vars
  BY <1>10 DEF vars, MoneyInv, TypeOK, Conservation, SinceTick, IsTerminal
<1>11. QED
  BY <1>1, <1>2, <1>3, <1>4, <1>5, <1>6, <1>7, <1>8, <1>9, <1>10 DEF Next

\* The money invariant holds throughout the life of every session.
THEOREM MoneyInvHolds == Spec => []MoneyInv
<1>1. QED
  BY InitMoneyInv, NextMoneyInv, PTL DEF Spec

\* The lease, the clock and the histories stay well typed.
THEOREM TypeCorrect == Spec => []TypeOK
<1>1. MoneyInv => TypeOK
  BY DEF MoneyInv
<1>2. QED
  BY <1>1, MoneyInvHolds, PTL

\* Every tinybar paid in stays accounted for, exactly once, at every price.
THEOREM ConservationHolds == Spec => []Conservation
<1>1. MoneyInv => Conservation
  BY DEF MoneyInv
<1>2. QED
  BY <1>1, MoneyInvHolds, PTL

\* The provider never earns more than the running time is worth.
THEOREM MeterNeverAheadHolds == Spec => []MeterNeverAhead
<1>1. MoneyInv => MeterNeverAhead
  <2> SUFFICES ASSUME MoneyInv PROVE lease.burned * Second <= lease.price * ran
    BY DEF MeterNeverAhead
  <2>1. /\ lease.price \in Nat /\ lease.burned \in Nat /\ lease.lastTickAt \in Nat
        /\ clock \in Nat /\ ran \in Nat
    BY ConfigAssumption DEF MoneyInv, TypeOK, LeaseRecord
  <2>2. SinceTick \in Nat
    BY <2>1 DEF MoneyInv, SinceTick
  <2>3. lease.price * (ran - SinceTick) <= lease.price * ran
    BY <2>1, <2>2
  <2>4. lease.price * (ran - SinceTick) \in Int /\ lease.price * ran \in Int
        /\ lease.burned * Second \in Int
    BY <2>1, <2>2, SecondAssumption
  <2>5. QED
    BY <2>3, <2>4 DEF MoneyInv
<1>2. QED
  BY <1>1, MoneyInvHolds, PTL

-----------------------------------------------------------------------------
(* A session is never sold past its length.  NeverOversold is kept by every   *)
(* step that does not sell: only Open and TopUp do.                           *)

\* A whole number of seconds at price p is worth that many seconds more.
LEMMA SecondsSold ==
  ASSUME NEW p \in Nat, NEW n \in Nat, NEW t \in Nat, p > 0
  PROVE  (n + p * t) \div p = (n \div p) + t
<1> DEFINE q == n \div p
           r == n % p
<1>1. q \in Int /\ r \in Int /\ 0 <= r /\ r < p /\ n = p * q + r
  OBVIOUS
<1> HIDE DEF q, r
<1>2. n + p * t = p * (q + t) + r
  BY <1>1
<1>3. (p * (q + t) + r) \div p = q + t
  BY <1>1
<1>4. QED
  BY <1>2, <1>3 DEF q

\* Less money never buys more seconds.
LEMMA LessBuysNoMore ==
  ASSUME NEW p \in Nat, NEW m \in Nat, NEW n \in Nat, p > 0, m <= n
  PROVE  m \div p <= n \div p
<1> DEFINE a == m \div p
           b == n \div p
<1>1. a \in Int /\ b \in Int /\ p * a <= m /\ n < p * b + p
  OBVIOUS
<1> HIDE DEF a, b
<1>2. p * a < p * (b + 1)
  BY <1>1
<1>3. a < b + 1
  BY <1>1, <1>2
<1>4. QED
  BY <1>1, <1>3 DEF a, b

\* A step that keeps the length and the price and adds no money sells nothing.
LEMMA NothingSold ==
  ASSUME NeverOversold,
         lease \in LeaseRecord, lease' \in LeaseRecord,
         lease'.metered = lease.metered, lease'.price = lease.price,
         lease'.sessionSeconds = lease.sessionSeconds,
         lease'.burned + lease'.credit <= lease.burned + lease.credit
  PROVE  NeverOversold'
<1>1. /\ lease.price \in Nat /\ lease.sessionSeconds \in Nat
      /\ lease.burned + lease.credit \in Nat /\ lease'.burned + lease'.credit \in Nat
  BY DEF LeaseRecord
<1>2. PaidSeconds(lease)' <= PaidSeconds(lease)
  <2>1. CASE lease.price > 0
    <3>1. (lease'.burned + lease'.credit) \div lease.price
            <= (lease.burned + lease.credit) \div lease.price
      BY <1>1, <2>1, LessBuysNoMore
    <3>2. QED
      BY <2>1, <3>1 DEF PaidSeconds
  <2>2. CASE ~(lease.price > 0)
    BY <2>2 DEF PaidSeconds
  <2>3. QED
    BY <2>1, <2>2
<1>3. PaidSeconds(lease) \in Int /\ PaidSeconds(lease)' \in Int
  BY <1>1 DEF PaidSeconds
<1>4. QED
  BY <1>1, <1>2, <1>3 DEF NeverOversold

\* The opening payment sells at most the length that was asked for.
LEMMA OpenNeverOversells ==
  ASSUME MoneyInv, Open
  PROVE  NeverOversold'
<1> DEFINE chunk == SessionChunk(asked)
           amount == Price * chunk
           k == MarkMetered(lease, asked, amount, clock)
<1>1. asked \in Nat /\ chunk \in Nat /\ chunk <= asked
  BY SessionChunkType DEF MoneyInv, TypeOK, SessionChunk
<1>2. lease \in LeaseRecord /\ clock \in Nat
  BY ConfigAssumption DEF MoneyInv, TypeOK
<1>3. lease' = k
  BY DEF Open
<1> HIDE DEF chunk
<1>4. amount \in Nat
  BY <1>1, PriceAssumption, AmountType
<1> HIDE DEF amount
<1>5. k.price = Price /\ k.burned = 0 /\ k.credit = amount /\ k.sessionSeconds = asked
  BY <1>1, <1>2, <1>4, MarkMeteredEffect
<1> HIDE DEF k
<1>6. PaidSeconds(k) <= asked
  <2>1. CASE Price > 0
    <3>1. (0 + Price * chunk) \div Price = (0 \div Price) + chunk
      BY <1>1, <2>1, PriceAssumption, SecondsSold
    <3>2. 0 \div Price = 0
      BY <2>1, PriceAssumption
    <3>3. QED
      BY <1>1, <1>5, <2>1, <3>1, <3>2 DEF PaidSeconds, amount
  <2>2. CASE ~(Price > 0)
    BY <1>1, <1>5, <2>2 DEF PaidSeconds
  <2>3. QED
    BY <2>1, <2>2
<1>7. QED
  BY <1>3, <1>5, <1>6 DEF NeverOversold

\* A top-up sells at most what the session has left.
LEMMA TopUpNeverOversells ==
  ASSUME MoneyInv, TopUp
  PROVE  NeverOversold'
<1> DEFINE t == TopUpSeconds(lease)
           amount == lease.price * t
           k == AddCredit(lease, amount)
           n == lease.burned + lease.credit
<1>1. /\ lease \in LeaseRecord /\ clock \in Nat /\ lease.price \in Nat
      /\ lease.credit \in Nat /\ lease.burned \in Nat /\ n \in Nat
      /\ lease.sessionSeconds \in Nat
  BY ConfigAssumption DEF MoneyInv, TypeOK, LeaseRecord
<1>2. /\ lease.metered /\ lease.price > 0 /\ UnpaidSeconds(lease) > 0
      /\ lease' = Resume(k, clock)
  BY DEF TopUp, TopUpAllowed
<1>3. PaidSeconds(lease) = n \div lease.price /\ n \div lease.price \in Int
  BY <1>1, <1>2 DEF PaidSeconds
<1>4. t \in Nat /\ n \div lease.price + t <= lease.sessionSeconds
  <2>1. t \in Nat
    BY <1>1, TopUpSecondsType
  <2>2. UnpaidSeconds(lease) = lease.sessionSeconds - n \div lease.price
    BY <1>1, <1>2, <1>3 DEF UnpaidSeconds
  <2>3. t <= UnpaidSeconds(lease)
    BY <1>1, <1>3, <2>2, ConfigAssumption DEF TopUpSeconds
  <2>4. QED
    BY <1>1, <1>3, <2>1, <2>2, <2>3
<1> HIDE DEF t
<1>5. amount \in Nat
  BY <1>1, <1>4, AmountType
<1> HIDE DEF amount
<1>6. /\ k \in LeaseRecord
      /\ k.metered = lease.metered /\ k.price = lease.price
      /\ k.sessionSeconds = lease.sessionSeconds
      /\ k.burned = lease.burned /\ k.credit = lease.credit + amount
  BY <1>1, <1>2, <1>5, AddCreditEffect
<1> HIDE DEF k
<1>7. /\ lease'.metered = k.metered /\ lease'.price = k.price
      /\ lease'.sessionSeconds = k.sessionSeconds
      /\ lease'.burned = k.burned /\ lease'.credit = k.credit
  BY <1>1, <1>2, <1>6, ResumeEffect
<1>8. lease'.burned + lease'.credit = n + lease.price * t
  BY <1>1, <1>5, <1>6, <1>7 DEF amount
<1>9. (n + lease.price * t) \div lease.price = (n \div lease.price) + t
  BY <1>1, <1>2, <1>4, SecondsSold
<1> HIDE DEF n
<1>10. PaidSeconds(lease)' <= lease'.sessionSeconds
  BY <1>1, <1>2, <1>4, <1>6, <1>7, <1>8, <1>9 DEF PaidSeconds
<1>11. QED
  BY <1>10 DEF NeverOversold

\* Ending a live session, after the last charge, sells nothing.
LEMMA EndNeverOversells ==
  ASSUME MoneyInv, NeverOversold, NEW status \in Terminal, NEW transferred \in BOOLEAN,
         ~IsTerminal(lease),
         lease' = EndedBy(Ticked, status, transferred)
  PROVE  NeverOversold'
<1>1. ~IsTerminal(Ticked) /\ Ticked \in LeaseRecord /\ lease \in LeaseRecord
  BY TickedEffect DEF IsTerminal, MoneyInv, TypeOK
<1>2. /\ lease' \in LeaseRecord
      /\ lease'.metered = Ticked.metered /\ lease'.price = Ticked.price
      /\ lease'.sessionSeconds = Ticked.sessionSeconds /\ lease'.burned = Ticked.burned
      /\ lease'.credit = Ticked.credit \/ lease'.credit = 0
  BY <1>1, EndedByEffect
<1>3. lease.credit \in Nat /\ lease.burned \in Nat /\ Ticked.credit \in Nat
  BY <1>1 DEF LeaseRecord
<1>4. lease'.burned + lease'.credit <= lease.burned + lease.credit
  BY <1>2, <1>3, TickedEffect
<1>5. QED
  BY <1>1, <1>2, <1>4, NothingSold, TickedEffect

\* A tick of the sweep, with the freeze it may bring, sells nothing.
LEMMA SweepNeverOversells ==
  ASSUME MoneyInv, NeverOversold, lease' = Ticked \/ lease' = Pause(Ticked, clock)
  PROVE  NeverOversold'
<1>1. Ticked \in LeaseRecord /\ lease \in LeaseRecord /\ clock \in Nat
  BY TickedEffect, ConfigAssumption DEF MoneyInv, TypeOK
<1>2. /\ lease' \in LeaseRecord
      /\ lease'.metered = Ticked.metered /\ lease'.price = Ticked.price
      /\ lease'.sessionSeconds = Ticked.sessionSeconds
      /\ lease'.burned = Ticked.burned /\ lease'.credit = Ticked.credit
  <2> DEFINE k == Ticked
  <2>1. k \in LeaseRecord /\ (lease' = k \/ lease' = Pause(k, clock))
    BY <1>1
  <2> HIDE DEF k
  <2>2. /\ lease' \in LeaseRecord
        /\ lease'.metered = k.metered /\ lease'.price = k.price
        /\ lease'.sessionSeconds = k.sessionSeconds
        /\ lease'.burned = k.burned /\ lease'.credit = k.credit
    BY <1>1, <2>1 DEF Pause, LeaseRecord, Status, Live
  <2>3. QED
    BY <2>2 DEF k
<1>3. lease.credit \in Nat /\ lease.burned \in Nat /\ Ticked.credit \in Nat
  BY <1>1 DEF LeaseRecord
<1>4. lease'.burned + lease'.credit <= lease.burned + lease.credit
  BY <1>2, <1>3, TickedEffect
<1>5. QED
  BY <1>1, <1>2, <1>4, NothingSold, TickedEffect

\* No step of any handler sells a session past its length.
LEMMA NextNeverOversells == MoneyInv /\ NeverOversold /\ [Next]_vars => NeverOversold'
<1> SUFFICES ASSUME MoneyInv, NeverOversold, [Next]_vars PROVE NeverOversold'
  OBVIOUS
<1>0. "stopped" \in Terminal /\ "expired" \in Terminal
      /\ "active" \notin Terminal /\ "paused" \notin Terminal
  BY DEF Terminal
<1>1. CASE Open
  BY <1>1, OpenNeverOversells
<1>2. CASE OpenFails
  <2>1. ~lease.metered /\ lease \in LeaseRecord /\ lease' = [lease EXCEPT !.status = "failed"]
    BY <1>2 DEF OpenFails, SetStatus, MoneyInv, TypeOK
  <2>2. lease'.metered = lease.metered
    BY <2>1 DEF LeaseRecord
  <2>3. QED
    BY <2>1, <2>2 DEF NeverOversold
<1>3. CASE TopUp
  BY <1>3, TopUpNeverOversells
<1>4. CASE \E transferred \in BOOLEAN : Stop(transferred)
  BY <1>0, <1>4, EndNeverOversells DEF Stop
<1>5. CASE \E transferred \in BOOLEAN : SweepExpire(transferred)
  BY <1>0, <1>5, EndNeverOversells DEF SweepExpire, IsTerminal
<1>6. CASE SweepFreeze
  BY <1>6, SweepNeverOversells DEF SweepFreeze
<1>7. CASE SweepTick
  BY <1>7, SweepNeverOversells DEF SweepTick
<1>8. CASE \E transferred \in BOOLEAN : SweepReap(transferred)
  <2>1. lease.status = "paused" => Ticked = lease
    BY DEF Ticked
  <2>2. QED
    BY <1>0, <1>8, <2>1, EndNeverOversells DEF SweepReap, IsTerminal
<1>9. CASE Tick
  BY <1>9 DEF Tick, NeverOversold
<1>10. CASE UNCHANGED vars
  BY <1>10 DEF vars, NeverOversold
<1>11. QED
  BY <1>1, <1>2, <1>3, <1>4, <1>5, <1>6, <1>7, <1>8, <1>9, <1>10 DEF Next

\* No handler ever sells a session past the length its renter chose.
THEOREM NeverOversoldHolds == Spec => []NeverOversold
<1>1. Init => NeverOversold
  <2> SUFFICES ASSUME Init PROVE ~lease.metered
    BY DEF NeverOversold
  <2>1. lease = [NewLease(SessionChunk(asked), 0) EXCEPT !.status = "active"]
    BY DEF Init, SetStatus, IsTerminal, Terminal, NewLease
  <2>2. QED
    BY <2>1 DEF NewLease
<1>2. QED
  BY <1>1, NextNeverOversells, MoneyInvHolds, PTL DEF Spec

-----------------------------------------------------------------------------
(* The session implements the account.                                     *)

\* Ending a live session closes the account, or is at most a last charge.
LEMMA EndImplementsAccount ==
  ASSUME MoneyInv, NEW status \in Terminal, NEW transferred \in BOOLEAN,
         ~IsTerminal(lease),
         lease' = EndedBy(Ticked, status, transferred)
  PROVE  [Account!Next]_(Account!accountVars)
<1>1. ~IsTerminal(Ticked) /\ Ticked \in LeaseRecord
  BY TickedEffect DEF IsTerminal
<1>2. /\ lease'.burned = Ticked.burned
      /\ \/ /\ lease'.credit = Ticked.credit /\ lease'.refunded = Ticked.refunded
            /\ lease'.settle = Ticked.settle
         \/ /\ lease'.settle = "done" /\ lease'.credit = 0
            /\ lease'.refunded = Ticked.credit
  BY <1>1, EndedByEffect
<1>3. lease.settle # "done"
  BY DEF MoneyInv
<1>4. /\ Ticked.credit \in 0..lease.credit
      /\ Ticked.burned = lease.burned + (lease.credit - Ticked.credit)
      /\ Ticked.settle = lease.settle /\ Ticked.refunded = lease.refunded
  BY TickedEffect
<1>5. CASE /\ lease'.credit = Ticked.credit /\ lease'.refunded = Ticked.refunded
           /\ lease'.settle = Ticked.settle
  BY <1>2, <1>3, <1>4, <1>5 DEF Account!Next, Account!Earn
<1>6. CASE /\ lease'.settle = "done" /\ lease'.credit = 0 /\ lease'.refunded = Ticked.credit
  BY <1>2, <1>3, <1>4, <1>6 DEF Account!Next, Account!Close
<1>7. QED
  BY <1>2, <1>5, <1>6

\* Every step of the session is a step of the account or leaves it alone.
LEMMA StepImplementsAccount == MoneyInv /\ [Next]_vars => [Account!Next]_(Account!accountVars)
<1> SUFFICES ASSUME MoneyInv, [Next]_vars PROVE [Account!Next]_(Account!accountVars)
  OBVIOUS
<1>0. "stopped" \in Terminal /\ "expired" \in Terminal
      /\ "active" \notin Terminal /\ "paused" \notin Terminal
  BY DEF Terminal
<1>1. CASE Open
  <2>1. Open /\ asked \in Lengths
    BY <1>1 DEF MoneyInv, TypeOK
  <2> DEFINE amount == Price * SessionChunk(asked)
             k == MarkMetered(lease, asked, amount, clock)
  <2>2. /\ lease \in LeaseRecord /\ clock \in Nat /\ ~lease.metered /\ lease' = k
    BY <2>1, ConfigAssumption DEF Open, MoneyInv, TypeOK
  <2>3. asked \in Nat /\ amount \in Nat
    BY <2>1, SessionChunkType, AmountType, PriceAssumption
  <2> HIDE DEF amount
  <2>4. /\ k \in LeaseRecord
        /\ k.status = lease.status /\ k.metered /\ k.price = Price
        /\ k.settle = "pending" /\ k.refunded = lease.refunded
        /\ k.burned = 0 /\ k.credit = amount /\ k.lastTickAt = clock
    <3>1. lease \in LeaseRecord /\ clock \in Nat
      BY <2>2
    <3>2. QED
      BY <3>1, <2>3, MarkMeteredEffect
  <2> HIDE DEF k
  <2>5. lease.credit = 0 /\ lease.burned = 0 /\ lease.settle = "none"
    BY <2>2 DEF MoneyInv
  <2>6. QED
    BY <2>2, <2>3, <2>4, <2>5 DEF Account!Next, Account!PayIn
<1>2. CASE OpenFails
  <2>1. lease \in LeaseRecord /\ lease' = [lease EXCEPT !.status = "failed"]
    BY <1>2 DEF OpenFails, SetStatus, MoneyInv, TypeOK
  <2>2. QED
    BY <2>1 DEF LeaseRecord, Account!accountVars
<1>3. CASE TopUp
  <2> DEFINE amount == lease.price * TopUpSeconds(lease)
             k == AddCredit(lease, amount)
  <2>1. /\ lease \in LeaseRecord /\ clock \in Nat /\ lease.metered /\ ~IsTerminal(lease)
        /\ lease.price \in Nat /\ lease.credit \in Nat /\ lease' = Resume(k, clock)
    BY <1>3, ConfigAssumption DEF TopUp, TopUpAllowed, MoneyInv, TypeOK, LeaseRecord
  <2>2. amount \in Nat
    BY <2>1, TopUpSecondsType, AmountType
  <2> HIDE DEF amount
  <2>3. /\ k \in LeaseRecord /\ k.settle = lease.settle /\ k.refunded = lease.refunded
        /\ k.burned = lease.burned /\ k.credit = lease.credit + amount
    BY <2>1, <2>2, AddCreditEffect
  <2> HIDE DEF k
  <2>4. /\ lease'.settle = k.settle /\ lease'.refunded = k.refunded
        /\ lease'.burned = k.burned /\ lease'.credit = k.credit
    BY <2>1, <2>3, ResumeEffect
  <2>5. lease.settle # "done"
    BY <2>1 DEF MoneyInv
  <2>6. QED
    BY <2>1, <2>2, <2>3, <2>4, <2>5 DEF Account!Next, Account!PayIn
<1>4. CASE \E transferred \in BOOLEAN : Stop(transferred)
  BY <1>0, <1>4, EndImplementsAccount DEF Stop
<1>5. CASE \E transferred \in BOOLEAN : SweepExpire(transferred)
  BY <1>0, <1>5, EndImplementsAccount DEF SweepExpire, IsTerminal
<1>6. CASE SweepFreeze \/ SweepTick
  <2>1. Ticked \in LeaseRecord /\ lease.status = "active"
        /\ (lease' = Ticked \/ lease' = [Ticked EXCEPT !.status = "paused", !.pausedAt = clock])
    BY <1>6, TickedEffect DEF SweepFreeze, SweepTick, Pause
  <2>2. /\ lease'.burned = Ticked.burned /\ lease'.credit = Ticked.credit
        /\ lease'.settle = Ticked.settle /\ lease'.refunded = Ticked.refunded
    BY <2>1 DEF LeaseRecord
  <2>3. lease.settle # "done"
    BY <1>0, <2>1 DEF MoneyInv, IsTerminal
  <2>4. /\ Ticked.credit \in 0..lease.credit
        /\ Ticked.burned = lease.burned + (lease.credit - Ticked.credit)
        /\ Ticked.settle = lease.settle /\ Ticked.refunded = lease.refunded
    BY TickedEffect
  <2>5. QED
    BY <2>2, <2>3, <2>4 DEF Account!Next, Account!Earn
<1>7. CASE \E transferred \in BOOLEAN : SweepReap(transferred)
  <2>1. lease.status = "paused" => Ticked = lease
    BY DEF Ticked
  <2>2. QED
    BY <1>0, <1>7, <2>1, EndImplementsAccount DEF SweepReap, IsTerminal
<1>8. CASE Tick \/ UNCHANGED vars
  BY <1>8 DEF Tick, vars, Account!accountVars
<1>9. QED
  BY <1>1, <1>2, <1>3, <1>4, <1>5, <1>6, <1>7, <1>8 DEF Next

\* Whatever the price, the lengths and the clock, a session keeps the account's
\* promise: what is paid in is earned or returned, and the return happens once.
THEOREM SessionImplementsAccount == Spec => ImplementsAccount
<1>1. Init => Account!Init
  <2> SUFFICES ASSUME Init PROVE Account!Init
    OBVIOUS
  <2>1. lease.credit = 0 /\ lease.burned = 0 /\ lease.refunded = 0 /\ lease.settle = "none"
    <3>1. lease \in LeaseRecord
      BY InitMoneyInv DEF MoneyInv, TypeOK
    <3>2. lease = SetStatus(NewLease(SessionChunk(asked), 0), "active")
      BY DEF Init
    <3>3. ~lease.metered
      BY <3>2 DEF SetStatus, NewLease, IsTerminal, Terminal
    <3>4. QED
      BY <3>3, InitMoneyInv DEF MoneyInv
  <2>2. QED
    BY <2>1 DEF Account!Init
<1>2. QED
  BY <1>1, StepImplementsAccount, MoneyInvHolds, PTL DEF Spec, Account!Spec, ImplementsAccount

-----------------------------------------------------------------------------
(* A freeze never comes early.                                             *)

\* What the ledger says about time depends on its money only.
LEMMA SameMoneySameTime ==
  ASSUME NEW k, NEW l,
         k.price = l.price, k.credit = l.credit, k.burned = l.burned
  PROVE  /\ SecondsRemaining(k) = SecondsRemaining(l) /\ PaidSeconds(k) = PaidSeconds(l)
         /\ WholeSeconds(k) <=> WholeSeconds(l)
BY DEF SecondsRemaining, PaidSeconds, WholeSeconds

\* Both counts of seconds are natural numbers.
LEMMA PaidSecondsType ==
  ASSUME NEW l \in LeaseRecord
  PROVE  PaidSeconds(l) \in Nat
<1>1. l.burned + l.credit \in Nat /\ l.price \in Nat
  BY DEF LeaseRecord
<1> QED
  BY <1>1 DEF PaidSeconds

\* So many seconds' worth of money buys so many seconds.
LEMMA WorthOf ==
  ASSUME NEW p \in Nat, NEW n \in Nat, p > 0
  PROVE  (p * n) \div p = n
<1>1. (0 + p * n) \div p = (0 \div p) + n
  BY SecondsSold
<1>2. 0 \div p = 0 /\ p * n \in Nat
  OBVIOUS
<1> QED
  BY <1>1, <1>2

\* Money that is whole seconds on both sides is counted exactly.
LEMMA WholeMoney ==
  ASSUME NEW l \in LeaseRecord, NEW a \in Nat, NEW b \in Nat,
         l.credit = l.price * a, l.burned = l.price * b
  PROVE  /\ WholeSeconds(l)
         /\ l.price > 0 => SecondsRemaining(l) = a /\ PaidSeconds(l) = a + b
<1> PICK p : p = l.price
  OBVIOUS
<1>0. p \in Nat
  BY DEF LeaseRecord
<1>1. l.burned + l.credit = p * (a + b)
  BY <1>0
<1>2. CASE p > 0
  <2>1. SecondsRemaining(l) = a
    BY <1>0, <1>2, WorthOf DEF SecondsRemaining
  <2>2. PaidSeconds(l) = a + b
    BY <1>0, <1>1, <1>2, WorthOf DEF PaidSeconds
  <2> QED
    BY <1>1, <2>1, <2>2 DEF WholeSeconds
<1>3. CASE ~(p > 0)
  <2>1. SecondsRemaining(l) = 0 /\ PaidSeconds(l) = 0
    BY <1>3 DEF SecondsRemaining, PaidSeconds
  <2>2. p = 0 /\ l.credit = 0 /\ l.burned = 0
    BY <1>0, <1>3
  <2> QED
    BY <1>3, <2>1, <2>2 DEF WholeSeconds
<1> QED
  BY <1>2, <1>3

\* And such money is whole seconds on both sides.
LEMMA WholeParts ==
  ASSUME NEW l \in LeaseRecord, WholeSeconds(l)
  PROVE  \E a, b \in Nat : l.credit = l.price * a /\ l.burned = l.price * b
<1> PICK p : p = l.price
  OBVIOUS
<1> PICK a : a = SecondsRemaining(l)
  OBVIOUS
<1> PICK q : q = PaidSeconds(l)
  OBVIOUS
<1>1. p \in Nat /\ a \in Nat /\ q \in Nat /\ l.burned \in Nat /\ l.credit \in Nat
  BY SecondsRemainingType, PaidSecondsType DEF LeaseRecord
<1>2. l.credit = p * a /\ l.burned + l.credit = p * q
  BY DEF WholeSeconds
<1>3. l.burned = p * (q - a)
  <2>1. p * (q - a) = p * q - p * a /\ p * q \in Nat /\ p * a \in Nat
    BY <1>1
  <2> QED
    BY <1>1, <1>2, <2>1
<1>4. CASE p > 0
  <2>1. q - a \in Nat
    <3> SUFFICES ASSUME q < a PROVE FALSE
      BY <1>1
    <3>1. p * (q - a) < 0
      BY <1>1, <1>4
    <3> QED
      BY <1>1, <1>3, <3>1
  <2> QED
    BY <1>1, <1>2, <1>3, <2>1
<1>5. CASE p = 0
  <2>1. p * a = 0 /\ p * (q - a) = 0 /\ p * 0 = 0
    BY <1>1, <1>5
  <2> QED
    BY <1>1, <1>2, <1>3, <2>1
<1> QED
  BY <1>1, <1>4, <1>5

\* Synchronising the expiry leaves what it says about time alone, and pins an
\* empty ledger's expiry to the tick that found it empty.
LEMMA SyncExpirySyncs ==
  ASSUME NEW l \in LeaseRecord, l.metered
  PROVE  LET k == SyncExpiry(l)
         IN  /\ k \in LeaseRecord /\ SameButExpiry(k, l)
             /\ ExpirySynced(k)
             /\ SecondsRemaining(k) = SecondsRemaining(l) /\ PaidSeconds(k) = PaidSeconds(l)
             /\ WholeSeconds(k) <=> WholeSeconds(l)
             /\ k.exhausted => \/ k.expiresAt = l.lastTickAt
                               \/ l.exhausted /\ k.expiresAt = l.expiresAt
<1> PICK s : s = SecondsRemaining(l)
  OBVIOUS
<1> PICK k : k = SyncExpiry(l)
  OBVIOUS
<1>1. s \in Nat
  BY SecondsRemainingType
<1>2. k \in LeaseRecord /\ SameButExpiry(k, l)
  BY SyncExpiryEffect
<1>3. k.price = l.price /\ k.credit = l.credit /\ k.burned = l.burned /\ k.lastTickAt = l.lastTickAt
  BY <1>2 DEF SameButExpiry
<1>4. /\ SecondsRemaining(k) = s /\ PaidSeconds(k) = PaidSeconds(l)
      /\ WholeSeconds(k) <=> WholeSeconds(l)
  BY <1>3, SameMoneySameTime
<1>5. CASE s > 0
  <2>1. k = [l EXCEPT !.exhausted = FALSE, !.expiresAt = l.lastTickAt + s * Second]
    BY <1>5 DEF SyncExpiry
  <2>2. k.exhausted = FALSE /\ k.expiresAt = k.lastTickAt + s * Second
    BY <1>3, <2>1 DEF LeaseRecord
  <2> QED
    BY <1>1, <1>2, <1>4, <1>5, <2>2 DEF ExpirySynced
<1>6. CASE s = 0 /\ l.exhausted
  <2>1. k = l
    BY <1>6 DEF SyncExpiry
  <2> QED
    BY <1>2, <1>4, <1>6, <2>1 DEF ExpirySynced
<1>7. CASE s = 0 /\ ~l.exhausted
  <2>1. k = [l EXCEPT !.exhausted = TRUE, !.expiresAt = l.lastTickAt]
    BY <1>7 DEF SyncExpiry
  <2>2. k.exhausted = TRUE /\ k.expiresAt = l.lastTickAt
    BY <2>1 DEF LeaseRecord
  <2> QED
    BY <1>2, <1>4, <1>7, <2>2 DEF ExpirySynced
<1> QED
  BY <1>1, <1>5, <1>6, <1>7

\* A charge takes whole seconds or the whole credit, so what is left is whole.
LEMMA ChargeWhole ==
  ASSUME NEW l \in LeaseRecord, NEW now \in Nat, l.lastTickAt <= now, WholeSeconds(l)
  PROVE  \E a, b \in Nat : /\ l.credit - Charge(l, now) = l.price * a
                           /\ l.burned + Charge(l, now) = l.price * b
<1> PICK a \in Nat, b \in Nat : l.credit = l.price * a /\ l.burned = l.price * b
  BY WholeParts
<1> PICK p : p = l.price
  OBVIOUS
<1> PICK d : d = (now - l.lastTickAt) \div Second
  OBVIOUS
<1>1. p \in Nat /\ d \in Nat
  BY SecondAssumption DEF LeaseRecord
<1>2. Charge(l, now) = IF p * d > p * a THEN p * a ELSE p * d
  BY DEF Charge
<1>3. CASE p * d > p * a
  <2>1. Charge(l, now) = p * a
    BY <1>2, <1>3
  <2>2. l.credit - Charge(l, now) = p * 0 /\ l.burned + Charge(l, now) = p * (a + b)
    BY <1>1, <2>1
  <2> QED
    BY <2>2
<1>4. CASE ~(p * d > p * a) /\ p > 0
  <2>1. Charge(l, now) = p * d
    BY <1>2, <1>4
  <2>2. a - d \in Nat
    <3> SUFFICES ASSUME a < d PROVE FALSE
      BY <1>1
    <3> QED
      BY <1>1, <1>4
  <2>3. l.credit - Charge(l, now) = p * (a - d) /\ l.burned + Charge(l, now) = p * (b + d)
    BY <1>1, <2>1, <2>2
  <2>4. b + d \in Nat
    BY <1>1
  <2> QED
    BY <2>2, <2>3, <2>4
<1>5. CASE p = 0
  <2>1. p * d = 0 /\ p * a = 0 /\ p * b = 0
    BY <1>1, <1>5
  <2>2. Charge(l, now) = 0
    BY <1>2, <2>1
  <2>3. l.credit - Charge(l, now) = p * a /\ l.burned + Charge(l, now) = p * b
    BY <2>1, <2>2
  <2> QED
    BY <2>3
<1> QED
  BY <1>1, <1>3, <1>4, <1>5

\* Seconds whose worth the running time covers have been run.
LEMMA WorthRun ==
  ASSUME NEW p \in Nat, NEW q \in Nat, NEW r \in Nat, p > 0, (p * q) * Second <= p * r
  PROVE  q * Second <= r
<1>1. q * Second \in Nat /\ p * (q * Second) <= p * r
  BY SecondAssumption
<1> PICK u : u = q * Second
  OBVIOUS
<1> SUFFICES ASSUME r < u PROVE FALSE
  BY <1>1
<1>2. p * r < p * u
  BY <1>1
<1> QED
  BY <1>1, <1>2

\* The charge for the time up to now keeps what a running session's payments
\* bought, and a session it empties has run for all of it.
LEMMA TickedPaid ==
  ASSUME MoneyInv, PaidTimeInv, lease.metered, lease.status = "active"
  PROVE  /\ WholeSeconds(Ticked) /\ ExpirySynced(Ticked) /\ RanFor(Ticked, clock, ran)
         /\ PaidSeconds(Ticked) = PaidSeconds(lease)
<1> PICK l : l = lease
  OBVIOUS
<1> PICK k : k = Burn(l, clock)
  OBVIOUS
<1>1. k = Ticked
  BY DEF Ticked
<1>2. /\ l \in LeaseRecord /\ clock \in Nat /\ ran \in Nat /\ l.lastTickAt <= clock
      /\ l.lastTickAt \in Nat /\ l.price \in Nat /\ l.credit \in Nat /\ l.burned \in Nat
  BY ConfigAssumption DEF MoneyInv, TypeOK, LeaseRecord
<1>3. WholeSeconds(l) /\ ExpirySynced(l) /\ RanFor(l, clock, ran) /\ l.metered
  BY DEF PaidTimeInv
<1>4. CASE l.lastTickAt = clock
  <2>1. k = [l EXCEPT !.lastTickAt = clock]
    BY <1>2, <1>3, <1>4 DEF Burn
  <2>2. k = l
    BY <1>2, <1>4, <2>1 DEF LeaseRecord
  <2> QED
    BY <1>1, <1>3, <2>2
<1>5. CASE l.lastTickAt # clock
  <2> PICK c : c = Charge(l, clock)
    OBVIOUS
  <2> PICK m : m = [l EXCEPT !.credit = @ - c, !.burned = @ + c, !.lastTickAt = clock]
    OBVIOUS
  <2>1. c \in 0..l.credit
    BY <1>2, ChargeBounds
  <2>2. l.credit - c \in Nat /\ l.burned + c \in Nat
    BY <1>2, <2>1
  <2>3. /\ m \in LeaseRecord /\ m.metered /\ m.price = l.price
        /\ m.credit = l.credit - c /\ m.burned = l.burned + c /\ m.lastTickAt = clock
        /\ m.exhausted = l.exhausted /\ m.expiresAt = l.expiresAt
    BY <1>2, <1>3, <2>2 DEF LeaseRecord
  <2>4. k = SyncExpiry(m)
    BY <1>2, <1>3, <1>5 DEF Burn
  <2>5. PICK a \in Nat, b \in Nat : m.credit = m.price * a /\ m.burned = m.price * b
    BY <1>2, <1>3, <2>3, ChargeWhole
  <2>6. WholeSeconds(m)
    BY ONLY <2>3, <2>5, a \in Nat, b \in Nat, WholeMoney
  <2>7. /\ ExpirySynced(k) /\ WholeSeconds(k)
        /\ SecondsRemaining(k) = SecondsRemaining(m) /\ PaidSeconds(k) = PaidSeconds(m)
        /\ k.exhausted => \/ k.expiresAt = clock
                          \/ l.exhausted /\ k.expiresAt = l.expiresAt
    BY ONLY <2>3, <2>4, <2>6, SyncExpirySyncs
  <2>8. PaidSeconds(m) = PaidSeconds(l)
    <3>1. m.burned + m.credit = l.burned + l.credit
      BY <1>2, <2>1, <2>3
    <3> QED
      BY <2>3, <3>1 DEF PaidSeconds
  <2>9. RanFor(k, clock, ran)
    <3> SUFFICES ASSUME k.exhausted
                 PROVE  PaidSeconds(k) * Second + (clock - k.expiresAt) <= ran
      BY DEF RanFor
    <3>1. CASE l.exhausted /\ k.expiresAt = l.expiresAt
      BY <1>3, <2>7, <2>8, <3>1 DEF RanFor
    <3>2. CASE k.expiresAt = clock
      <4> PICK q : q = PaidSeconds(m)
        OBVIOUS
      <4>1. q \in Nat
        BY <2>3, PaidSecondsType
      <4>2. q * Second <= ran
        <5>1. CASE l.price > 0
          <6>1. SecondsRemaining(m) = 0
            BY <2>7 DEF ExpirySynced
          <6>2. m.credit = 0
            BY <1>2, <2>3, <2>6, <6>1 DEF WholeSeconds
          <6>3. m.burned = l.price * q
            BY <1>2, <2>2, <2>3, <2>6, <6>2 DEF WholeSeconds
          <6>4. m.burned * Second <= l.price * ran
            <7>1. Ticked.burned * Second <= lease.price * ran
              BY TickedEffect
            <7>2. k.burned = m.burned
              BY ONLY <2>3, <2>4, SyncExpiryEffect DEF SameButExpiry
            <7> QED
              BY <1>1, <7>1, <7>2
          <6> QED
            BY <1>2, <4>1, <5>1, <6>3, <6>4, WorthRun
        <5>2. CASE ~(l.price > 0)
          <6>1. q = 0
            BY <2>3, <5>2 DEF PaidSeconds
          <6> QED
            BY <1>2, <6>1, SecondAssumption
        <5> QED
          BY <5>1, <5>2
      <4>3. clock - k.expiresAt = 0 /\ q * Second \in Nat
        BY <1>2, <3>2, <4>1, SecondAssumption
      <4> QED
        BY <2>7, <4>2, <4>3
    <3> QED
      BY <2>7, <3>1, <3>2
  <2> QED
    BY <1>1, <2>7, <2>8, <2>9
<1> QED
  BY <1>4, <1>5

\* The opening payment starts a session that has everything still to run.
LEMMA OpenKeepsPaidTime ==
  ASSUME MoneyInv, PaidTimeInv, Open
  PROVE  PaidTimeInv'
<1> PICK n : n = SessionChunk(asked)
  OBVIOUS
<1> PICK m : m = [lease EXCEPT !.metered = TRUE, !.sessionSeconds = asked, !.price = Price,
                               !.credit = Price * n, !.burned = 0, !.lastTickAt = clock,
                               !.settle = "pending"]
  OBVIOUS
<1>1. /\ lease \in LeaseRecord /\ clock \in Nat /\ ran \in Nat /\ n \in Nat /\ asked \in Nat
      /\ Price * n \in Nat /\ Price \in Nat
  BY SessionChunkType, AmountType, PriceAssumption, ConfigAssumption DEF MoneyInv, TypeOK
<1>2. /\ lease' = SyncExpiry(m) /\ clock' = clock /\ ran' = ran /\ ~lease.metered
  BY DEF Open, MarkMetered
<1>3. /\ m \in LeaseRecord /\ m.metered /\ m.price = Price /\ m.credit = Price * n
      /\ m.burned = 0 /\ m.lastTickAt = clock /\ m.exhausted = lease.exhausted
  BY <1>1 DEF LeaseRecord, SettleState
<1>4. ~m.exhausted
  BY <1>2, <1>3 DEF PaidTimeInv
<1>5. WholeSeconds(m) /\ (Price > 0 => SecondsRemaining(m) = n /\ PaidSeconds(m) = n)
  <2>1. m.credit = m.price * n /\ m.burned = m.price * 0 /\ n + 0 = n
    BY <1>1, <1>3
  <2> QED
    BY ONLY <1>1, <1>3, <2>1, WholeMoney
<1> PICK k : k = SyncExpiry(m)
  OBVIOUS
<1>6. /\ k \in LeaseRecord /\ k.metered /\ ExpirySynced(k) /\ WholeSeconds(k)
      /\ SecondsRemaining(k) = SecondsRemaining(m) /\ PaidSeconds(k) = PaidSeconds(m)
      /\ k.exhausted => k.expiresAt = clock
  BY <1>3, <1>4, <1>5, SyncExpirySyncs DEF SameButExpiry
<1>7. RanFor(k, clock, ran)
  <2> SUFFICES ASSUME k.exhausted
               PROVE  PaidSeconds(k) * Second + (clock - k.expiresAt) <= ran
    BY DEF RanFor
  <2>1. SecondsRemaining(m) = 0
    BY <1>6 DEF ExpirySynced
  <2>2. PaidSeconds(m) = 0
    <3>1. CASE Price > 0
      BY <1>5, <2>1, <3>1
    <3>2. CASE ~(Price > 0)
      BY <1>3, <3>2 DEF PaidSeconds
    <3> QED
      BY <3>1, <3>2
  <2> QED
    BY <1>1, <1>6, <2>2, SecondAssumption
<1>8. lease' = k
  BY <1>2
<1> QED
  BY <1>2, <1>6, <1>7, <1>8 DEF PaidTimeInv

\* A top-up buys at least a second, so the session it leaves is not used up.
LEMMA TopUpKeepsPaidTime ==
  ASSUME MoneyInv, PaidTimeInv, TopUp
  PROVE  PaidTimeInv'
<1> PICK l : l = lease
  OBVIOUS
<1> PICK t : t = TopUpSeconds(l)
  OBVIOUS
<1> PICK m : m = [l EXCEPT !.credit = @ + l.price * t]
  OBVIOUS
<1> PICK k : k = SyncExpiry(m)
  OBVIOUS
<1>1. /\ l \in LeaseRecord /\ clock \in Nat /\ l.price \in Nat /\ l.credit \in Nat
      /\ l.burned \in Nat /\ t \in Nat /\ l.price * t \in Nat
  BY TopUpSecondsType, AmountType, ConfigAssumption DEF MoneyInv, TypeOK, LeaseRecord
<1>2. l.metered /\ l.price > 0 /\ lease' = Resume(k, clock) /\ clock' = clock /\ ran' = ran
  BY DEF TopUp, TopUpAllowed, AddCredit
<1>3. t > 0
  <2>1. UnpaidSeconds(l) > 0
    BY DEF TopUp, TopUpAllowed
  <2> QED
    BY <2>1, ConfigAssumption DEF TopUpSeconds
<1>4. /\ m \in LeaseRecord /\ m.metered /\ m.price = l.price /\ m.status = l.status
      /\ m.credit = l.credit + l.price * t /\ m.burned = l.burned
  BY <1>1, <1>2 DEF LeaseRecord
<1>5. k \in LeaseRecord /\ k.status = l.status /\ k.metered
  BY <1>4, SyncExpiryEffect DEF SameButExpiry
<1>6. CASE l.status \notin {"active", "paused"}
  <2>1. lease' = k
    BY <1>2, <1>5, <1>6 DEF Resume
  <2> QED
    BY <1>5, <1>6, <2>1 DEF PaidTimeInv
<1>7. CASE l.status \in {"active", "paused"}
  <2>1. PICK a \in Nat, b \in Nat : l.credit = l.price * a /\ l.burned = l.price * b
    BY <1>1, <1>2, <1>7, WholeParts DEF PaidTimeInv
  <2>2. l.credit + l.price * t = l.price * (a + t) /\ a + t \in Nat /\ a + t > 0
    BY <1>1, <1>3, <2>1
  <2>3. WholeSeconds(m) /\ SecondsRemaining(m) = a + t
    <3>1. m.credit = m.price * (a + t) /\ m.burned = m.price * b /\ m.price > 0
      BY ONLY <1>2, <1>4, <2>1, <2>2
    <3>2. b \in Nat
      OBVIOUS
    <3> QED
      BY ONLY <1>4, <2>2, <3>1, <3>2, WholeMoney
  <2>4. /\ ExpirySynced(k) /\ WholeSeconds(k) /\ SecondsRemaining(k) = a + t
    BY <1>4, <2>3, SyncExpirySyncs
  <2>5. ~k.exhausted
    BY <2>2, <2>4 DEF ExpirySynced
  <2>6. CASE k.status # "paused"
    <3>1. lease' = k
      BY <1>2, <2>6 DEF Resume
    <3> QED
      BY <1>5, <2>4, <2>5, <3>1 DEF PaidTimeInv, RanFor
  <2>7. CASE k.status = "paused"
    <3>0. PICK r : r = [k EXCEPT !.status = "active", !.pausedAt = NotPaused, !.lastTickAt = clock]
      OBVIOUS
    <3>1. lease' = SyncExpiry(r)
      BY <1>2, <2>7, <3>0 DEF Resume
    <3>2. /\ r \in LeaseRecord /\ r.metered /\ r.price = k.price /\ r.credit = k.credit
          /\ r.burned = k.burned
      BY ONLY <1>1, <1>5, <3>0 DEF LeaseRecord, Status, Live
    <3>3. WholeSeconds(r) /\ SecondsRemaining(r) = a + t
      BY ONLY <2>4, <3>2, SameMoneySameTime
    <3> PICK f : f = SyncExpiry(r)
      OBVIOUS
    <3>4. /\ f.metered /\ ExpirySynced(f) /\ WholeSeconds(f) /\ SecondsRemaining(f) = a + t
      BY <3>2, <3>3, SyncExpirySyncs DEF SameButExpiry
    <3>5. ~f.exhausted
      BY <2>2, <3>4 DEF ExpirySynced
    <3>6. lease' = f
      BY <3>1
    <3> QED
      BY <3>4, <3>5, <3>6 DEF PaidTimeInv, RanFor
  <2> QED
    BY <2>6, <2>7
<1> QED
  BY <1>6, <1>7

\* A session that has ended owes no running time.
LEMMA EndKeepsPaidTime ==
  ASSUME MoneyInv, PaidTimeInv, NEW status \in Terminal, NEW transferred \in BOOLEAN,
         ~IsTerminal(lease),
         lease' = EndedBy(Ticked, status, transferred)
  PROVE  PaidTimeInv'
<1>1. Ticked \in LeaseRecord /\ Ticked.metered = lease.metered /\ ~IsTerminal(Ticked)
  BY TickedEffect DEF IsTerminal
<1>2. lease'.status = status /\ lease'.metered = lease.metered
  BY <1>1, EndedByEffect
<1>3. lease'.status \notin {"active", "paused"}
  BY <1>2 DEF Terminal
<1>4. ~lease'.metered => ~lease'.exhausted
  <2> SUFFICES ASSUME ~lease.metered PROVE ~lease'.exhausted
    BY <1>2
  <2>1. Ticked = lease /\ ~lease.exhausted
    BY DEF Ticked, PaidTimeInv
  <2> PICK s : s = SetStatus(lease, status)
    OBVIOUS
  <2>2. s.exhausted = lease.exhausted /\ s.metered = lease.metered
    BY <1>1, <2>1 DEF SetStatus, LeaseRecord
  <2>3. lease' = s
    BY <2>1, <2>2 DEF EndedBy, SettleSession
  <2> QED
    BY <2>1, <2>2, <2>3
<1> QED
  BY <1>3, <1>4 DEF PaidTimeInv

\* The sweep's tick keeps it, and so does the freeze after it.
LEMMA SweepKeepsPaidTime ==
  ASSUME MoneyInv, PaidTimeInv, lease.status = "active",
         lease' = Ticked \/ lease' = Pause(Ticked, clock),
         clock' = clock, ran' = ran
  PROVE  PaidTimeInv'
<1> PICK k : k = Ticked
  OBVIOUS
<1>1. k \in LeaseRecord /\ k.metered = lease.metered /\ k.status = "active" /\ clock \in Nat
  BY TickedEffect, ConfigAssumption DEF MoneyInv, TypeOK
<1>2. ~k.metered => ~k.exhausted
  BY <1>1 DEF PaidTimeInv, Ticked
<1>3. k.metered => WholeSeconds(k) /\ ExpirySynced(k) /\ RanFor(k, clock, ran)
  BY <1>1, TickedPaid
<1>4. CASE lease' = k
  BY <1>2, <1>3, <1>4 DEF PaidTimeInv
<1>5. CASE lease' = Pause(k, clock)
  <2> PICK f : f = Pause(k, clock)
    OBVIOUS
  <2>1. /\ f.status = "paused" /\ f.metered = k.metered /\ f.price = k.price
        /\ f.credit = k.credit /\ f.burned = k.burned /\ f.exhausted = k.exhausted
        /\ f.expiresAt = k.expiresAt /\ f.lastTickAt = k.lastTickAt
    BY <1>1 DEF Pause, LeaseRecord
  <2>2. k.metered => WholeSeconds(f) /\ ExpirySynced(f)
    BY <1>3, <2>1, SameMoneySameTime DEF ExpirySynced
  <2>3. lease' = f
    BY <1>5
  <2> QED
    BY <1>2, <2>1, <2>2, <2>3 DEF PaidTimeInv
<1> QED
  BY <1>4, <1>5

\* Time passing is time run.
LEMMA TickKeepsPaidTime ==
  ASSUME MoneyInv, PaidTimeInv, Tick
  PROVE  PaidTimeInv'
<1>1. lease' = lease /\ clock' = clock + 1
  BY DEF Tick
<1>2. CASE lease.metered /\ lease.status = "active"
  <2>1. ran' = ran + 1 /\ RanFor(lease, clock, ran)
    BY <1>2 DEF Tick, PaidTimeInv
  <2>2. /\ lease \in LeaseRecord /\ clock \in Nat /\ ran \in Nat /\ lease.expiresAt \in Nat
    BY ConfigAssumption DEF MoneyInv, TypeOK, LeaseRecord
  <2>3. PaidSeconds(lease) * Second \in Nat
    BY <2>2, PaidSecondsType, SecondAssumption
  <2>4. RanFor(lease, clock + 1, ran + 1)
    <3> PICK w : w = PaidSeconds(lease) * Second
      OBVIOUS
    <3> SUFFICES ASSUME lease.exhausted
                 PROVE  w + ((clock + 1) - lease.expiresAt) <= ran + 1
      BY DEF RanFor
    <3>1. w + (clock - lease.expiresAt) <= ran
      BY <2>1 DEF RanFor
    <3> QED
      BY <2>2, <2>3, <3>1
  <2> QED
    BY <1>1, <2>1, <2>4 DEF PaidTimeInv
<1>3. CASE ~(lease.metered /\ lease.status = "active")
  BY <1>1, <1>3 DEF PaidTimeInv
<1> QED
  BY <1>2, <1>3

\* A lease just provisioned has been sold nothing.
LEMMA InitPaidTime == Init => PaidTimeInv
<1> SUFFICES ASSUME Init PROVE PaidTimeInv
  OBVIOUS
<1> PICK n : n = SessionChunk(asked)
  OBVIOUS
<1>1. n \in Nat
  BY SessionChunkType DEF Init
<1>2. lease = SetStatus(NewLease(n, 0), "active")
  BY DEF Init
<1>3. NewLease(n, 0).metered = FALSE /\ NewLease(n, 0).exhausted = FALSE
  BY DEF NewLease
<1>4. lease.metered = FALSE /\ lease.exhausted = FALSE
  <2> PICK new : new = NewLease(n, 0)
    OBVIOUS
  <2>1. new \in LeaseRecord
    BY <1>1, NewLeaseType
  <2> QED
    BY <1>2, <1>3, <2>1 DEF SetStatus, LeaseRecord
<1> QED
  BY <1>4 DEF PaidTimeInv

\* Every step keeps what the payments bought.
LEMMA NextPaidTime == MoneyInv /\ PaidTimeInv /\ [Next]_vars => PaidTimeInv'
<1> SUFFICES ASSUME MoneyInv, PaidTimeInv, [Next]_vars PROVE PaidTimeInv'
  OBVIOUS
<1>0. "stopped" \in Terminal /\ "expired" \in Terminal /\ "failed" \in Terminal
      /\ "active" \notin Terminal /\ "paused" \notin Terminal
  BY DEF Terminal
<1>1. CASE Open
  BY <1>1, OpenKeepsPaidTime
<1>2. CASE OpenFails
  <2>1. lease \in LeaseRecord /\ ~lease.metered /\ lease' = [lease EXCEPT !.status = "failed"]
    BY <1>2 DEF OpenFails, SetStatus, MoneyInv, TypeOK
  <2>2. lease'.status = "failed" /\ lease'.metered = lease.metered
        /\ lease'.exhausted = lease.exhausted
    BY <2>1 DEF LeaseRecord
  <2> QED
    BY <2>1, <2>2 DEF PaidTimeInv
<1>3. CASE TopUp
  BY <1>3, TopUpKeepsPaidTime
<1>4. CASE \E transferred \in BOOLEAN : Stop(transferred)
  BY <1>0, <1>4, EndKeepsPaidTime DEF Stop
<1>5. CASE \E transferred \in BOOLEAN : SweepExpire(transferred)
  BY <1>0, <1>5, EndKeepsPaidTime DEF SweepExpire, IsTerminal
<1>6. CASE SweepFreeze
  BY <1>6, SweepKeepsPaidTime DEF SweepFreeze
<1>7. CASE SweepTick
  BY <1>7, SweepKeepsPaidTime DEF SweepTick
<1>8. CASE \E transferred \in BOOLEAN : SweepReap(transferred)
  <2>1. lease.status = "paused" => Ticked = lease
    BY DEF Ticked
  <2> QED
    BY <1>0, <1>8, <2>1, EndKeepsPaidTime DEF SweepReap, IsTerminal
<1>9. CASE Tick
  BY <1>9, TickKeepsPaidTime
<1>10. CASE UNCHANGED vars
  BY <1>10 DEF vars, PaidTimeInv, WholeSeconds, ExpirySynced, RanFor, SecondsRemaining, PaidSeconds
<1> QED
  BY <1>1, <1>2, <1>3, <1>4, <1>5, <1>6, <1>7, <1>8, <1>9, <1>10 DEF Next

\* The step that freezes a metered session: no other handler does, and the sweep
\* does only when the session has run for all that was paid and for the grace.
FreezesPaidFor ==
  (lease.metered /\ lease.status = "active" /\ lease'.status = "paused")
    => ran >= PaidSeconds(lease) * Second + FreezeGrace

\* Every step that freezes a metered session is such a step.
LEMMA FreezeStep == MoneyInv /\ PaidTimeInv /\ [Next]_vars => FreezesPaidFor
<1> SUFFICES ASSUME MoneyInv, PaidTimeInv, [Next]_vars,
                    lease.metered, lease.status = "active", lease'.status = "paused"
             PROVE  ran >= PaidSeconds(lease) * Second + FreezeGrace
  BY DEF FreezesPaidFor
<1>0. "stopped" \in Terminal /\ "expired" \in Terminal /\ "paused" \notin Terminal
  BY DEF Terminal
<1>1. Ticked \in LeaseRecord /\ Ticked.status = "active" /\ ~IsTerminal(Ticked)
  BY TickedEffect DEF IsTerminal, Terminal
<1>2. SweepFreeze
  <2>1. ~Open /\ ~OpenFails /\ ~Tick /\ lease' # lease
    BY DEF Open, OpenFails, Tick
  <2>2. ~TopUp
    <3> SUFFICES ASSUME TopUp PROVE FALSE
      OBVIOUS
    <3> PICK k : k = AddCredit(lease, lease.price * TopUpSeconds(lease))
      OBVIOUS
    <3>1. lease \in LeaseRecord /\ lease.price * TopUpSeconds(lease) \in Nat /\ clock \in Nat
      <4>1. lease \in LeaseRecord /\ lease.price \in Nat /\ clock \in Nat
        BY ConfigAssumption DEF MoneyInv, TypeOK, LeaseRecord
      <4> QED
        BY <4>1, TopUpSecondsType, AmountType
    <3>2. k \in LeaseRecord /\ k.status = "active"
      BY <3>1, AddCreditEffect
    <3>3. lease' = Resume(k, clock)
      BY DEF TopUp
    <3> QED
      BY <3>1, <3>2, <3>3, ResumeEffect
  <2>3. \A transferred \in BOOLEAN, status \in Terminal :
          lease' # EndedBy(Ticked, status, transferred)
    BY <1>0, <1>1, EndedByEffect
  <2>4. \A transferred \in BOOLEAN : ~Stop(transferred) /\ ~SweepExpire(transferred)
    BY <1>0, <2>3 DEF Stop, SweepExpire
  <2>5. \A transferred \in BOOLEAN : ~SweepReap(transferred)
    BY DEF SweepReap
  <2>6. ~SweepTick
    BY <1>1 DEF SweepTick
  <2> QED
    BY <2>1, <2>2, <2>4, <2>5, <2>6 DEF Next, vars
<1> PICK k : k = Ticked
  OBVIOUS
<1>3. /\ WholeSeconds(k) /\ ExpirySynced(k) /\ RanFor(k, clock, ran)
      /\ PaidSeconds(k) = PaidSeconds(lease)
  BY TickedPaid
<1>4. clock - k.expiresAt >= FreezeGrace
  BY <1>2 DEF SweepFreeze, OverdueBy
<1>5. /\ FreezeGrace \in Nat /\ clock \in Nat /\ ran \in Nat /\ k.expiresAt \in Nat
      /\ lease \in LeaseRecord /\ k.lastTickAt = clock
  <2>1. FreezeGrace \in Nat /\ MaxClock \in Nat /\ TypeOK
    BY ConfigAssumption DEF MoneyInv
  <2>2. k.expiresAt \in Nat
    BY <1>1 DEF LeaseRecord
  <2>3. k.lastTickAt = clock
    BY TickedEffect
  <2> QED
    BY <2>1, <2>2, <2>3 DEF TypeOK
<1>6. k.exhausted
  <2> SUFFICES ASSUME ~k.exhausted PROVE FALSE
    OBVIOUS
  <2> PICK s : s = SecondsRemaining(k)
    OBVIOUS
  <2>1. s \in Nat /\ s # 0 /\ k.expiresAt = clock + s * Second
    BY <1>1, <1>3, <1>5, SecondsRemainingType DEF ExpirySynced
  <2>2. s * Second > 0 /\ s * Second \in Nat
    BY <2>1, SecondAssumption
  <2> QED
    BY <1>4, <1>5, <2>1, <2>2
<1>7. PaidSeconds(lease) * Second + (clock - k.expiresAt) <= ran
  BY <1>3, <1>6 DEF RanFor
<1>8. PaidSeconds(lease) * Second \in Nat
  BY <1>5, PaidSecondsType, SecondAssumption
<1> QED
  BY <1>4, <1>5, <1>7, <1>8

\* Whatever the price, the grace and the clock: a metered session is frozen only
\* after it has run for everything paid in so far, and for the grace after that.
THEOREM NoFreezeBeforePaidTimeUsedHolds == Spec => NoFreezeBeforePaidTimeUsed
<1>1. MoneyInv /\ PaidTimeInv /\ [Next]_vars => [FreezesPaidFor]_vars
  BY FreezeStep
<1>2. Spec => [](MoneyInv /\ PaidTimeInv)
  BY InitMoneyInv, NextMoneyInv, InitPaidTime, NextPaidTime, PTL DEF Spec
<1>3. Spec => [][FreezesPaidFor]_vars
  BY <1>1, <1>2, PTL DEF Spec
<1> QED
  BY <1>3 DEF NoFreezeBeforePaidTimeUsed, FreezesPaidFor
=============================================================================
