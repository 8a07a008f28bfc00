----------------------------- MODULE EscrowProofs -----------------------------
(***************************************************************************)
(* Proofs about SessionEscrow, for any number of sessions and accounts,    *)
(* any prices, and callbacks nested to any depth.                          *)
(***************************************************************************)
EXTENDS SessionEscrow, SumTheorems, SequenceTheorems, TLAPS

\* A session's deposit buys its time, is not nothing, and its time has begun.
SoundSession(s, now) ==
  /\ BuysItsTime(s)
  /\ s # NoSession => s.deposited # 0
  /\ s.startTime <= now

\* A state a revert may restore.
Sound(w, now) == \A i \in Ids : SoundSession(w.session[i], now)

\* A frame owes something, and what it would restore is sound.
SoundFrame(frame, now) ==
  frame.todo # << >> /\ Sound(frame.before, now) /\ Sound(frame.undo, now)

\* The contract is sound now, and in every state that a revert may bring back.
EscrowInv ==
  /\ TypeOK
  /\ Sound(Now, clock)
  /\ \A k \in 1..Len(stack) : SoundFrame(stack[k], clock)

-----------------------------------------------------------------------------
(* The split.                                                              *)

\* A split never exceeds the deposit: both shares are amounts (lines 192-198).
LEMMA SplitWithinDeposit ==
  ASSUME NEW s \in Session \cup {NoSession}, NEW now \in Nat,
         BuysItsTime(s), s.startTime <= now
  PROVE  ProviderAmount(s, now) \in Nat /\ RefundAmount(s, now) \in Nat
<1> DEFINE e == Elapsed(s, now)
<1>1. s.startTime \in Nat /\ s.duration \in Nat /\ s.pricePerSecond \in Nat /\ s.deposited \in Nat
  BY DEF Session, NoSession
<1>2. e \in Nat /\ e <= s.duration
  BY <1>1 DEF Elapsed
<1>3. ASSUME NEW p \in Nat, NEW d \in Nat, NEW m \in Nat, m <= d
      PROVE  p * m \in Nat /\ p * d \in Nat /\ p * m <= p * d
  BY <1>3
<1>4. s.pricePerSecond * e \in Nat /\ s.pricePerSecond * e <= s.pricePerSecond * s.duration
  BY <1>1, <1>2, <1>3
<1> QED
  BY <1>1, <1>4 DEF ProviderAmount, RefundAmount, BuysItsTime

\* What settle is going to pay are payouts, one at least.
LEMMA PayoutsType ==
  ASSUME NEW s \in Session, NEW now \in Nat,
         BuysItsTime(s), s.startTime <= now, s.deposited # 0
  PROVE  Payouts(s, now) \in Seq(Payout) /\ Payouts(s, now) # << >>
<1>1. ProviderAmount(s, now) \in Nat /\ RefundAmount(s, now) \in Nat
  BY SplitWithinDeposit
<1>2. ProviderAmount(s, now) + RefundAmount(s, now) = s.deposited
  BY <1>1 DEF RefundAmount, Session
<1>3. s.provider \in Accounts /\ s.renter \in Accounts
  BY DEF Session
<1>4. ASSUME NEW a \in Accounts, NEW n \in Nat
      PROVE  Due(a, n) \in Seq(Payout) /\ (n > 0 => Len(Due(a, n)) = 1)
  <2>1. CASE n > 0
    <3>1. [to |-> a, amount |-> n] \in Payout
      BY <1>4, <2>1 DEF Payout
    <3>2. Due(a, n) = << [to |-> a, amount |-> n] >>
      BY <2>1 DEF Due
    <3> QED
      BY <3>1, <3>2
  <2>2. CASE ~(n > 0)
    BY <2>2 DEF Due
  <2> QED
    BY <2>1, <2>2
<1>5. ProviderAmount(s, now) > 0 \/ RefundAmount(s, now) > 0
  BY <1>1, <1>2 DEF Session
<1> DEFINE first == Due(s.provider, ProviderAmount(s, now))
           second == Due(s.renter, RefundAmount(s, now))
<1>6. first \in Seq(Payout) /\ second \in Seq(Payout) /\ (Len(first) = 1 \/ Len(second) = 1)
  BY <1>1, <1>3, <1>4, <1>5
<1> HIDE DEF first, second
<1>7. first \o second \in Seq(Payout) /\ Len(first \o second) = Len(first) + Len(second)
  BY <1>6
<1>8. Len(first \o second) > 0
  <2>1. Len(first) \in Nat /\ Len(second) \in Nat
    BY <1>6
  <2> QED
    BY <1>6, <1>7, <2>1
<1>9. first \o second # << >>
  BY <1>7, <1>8
<1> QED
  BY <1>7, <1>9 DEF Payouts, first, second

-----------------------------------------------------------------------------
(* The stack.                                                              *)

\* The innermost frame, and what is left without it.
LEMMA TopAndRest ==
  ASSUME stack \in Seq(Frame), stack # << >>
  PROVE  /\ Len(stack) \in Nat \ {0}
         /\ Top \in Frame
         /\ Rest \in Seq(Frame) /\ Len(Rest) = Len(stack) - 1
         /\ \A k \in 1..Len(Rest) : Rest[k] = stack[k]
<1>1. Len(stack) \in Nat /\ Len(stack) # 0
  OBVIOUS
<1>2. Top \in Frame
  BY <1>1 DEF Top
<1>3. Rest = [k \in 1..(Len(stack) - 1) |-> stack[k]]
  BY <1>1 DEF Rest
<1> QED
  BY <1>1, <1>2, <1>3

\* A new frame on a sound stack.
LEMMA PushSound ==
  ASSUME EscrowInv, NEW f \in Frame, SoundFrame(f, clock), stack' = Append(stack, f)
  PROVE  stack' \in Seq(Frame) /\ \A k \in 1..Len(stack') : SoundFrame(stack'[k], clock)
<1>1. stack \in Seq(Frame) /\ stack' \in Seq(Frame) /\ Len(stack') = Len(stack) + 1
  BY DEF EscrowInv, TypeOK
<1>2. ASSUME NEW k \in 1..Len(stack') PROVE SoundFrame(stack'[k], clock)
  <2>1. (stack'[k] = stack[k] /\ k \in 1..Len(stack)) \/ stack'[k] = f
    BY <1>1
  <2> QED
    BY <2>1 DEF EscrowInv
<1> QED
  BY <1>1, <1>2

\* A sound stack without its innermost frame.
LEMMA PopSound ==
  ASSUME EscrowInv, stack # << >>, stack' = Rest
  PROVE  stack' \in Seq(Frame) /\ \A k \in 1..Len(stack') : SoundFrame(stack'[k], clock)
<1>1. stack \in Seq(Frame)
  BY DEF EscrowInv, TypeOK
<1>2. /\ Len(stack) \in Nat \ {0} /\ Rest \in Seq(Frame) /\ Len(Rest) = Len(stack) - 1
      /\ \A k \in 1..Len(Rest) : Rest[k] = stack[k]
  BY <1>1, TopAndRest
<1>3. ASSUME NEW k \in 1..Len(Rest) PROVE SoundFrame(Rest[k], clock)
  BY <1>2 DEF EscrowInv
<1> QED
  BY <1>2, <1>3

\* A sound stack whose innermost frame is replaced by a sound one.
LEMMA ReplaceTopSound ==
  ASSUME EscrowInv, stack # << >>, NEW f \in Frame, SoundFrame(f, clock),
         \/ stack' = Append(Rest, f)
         \/ stack' = [stack EXCEPT ![Len(stack)] = f]
  PROVE  stack' \in Seq(Frame) /\ \A k \in 1..Len(stack') : SoundFrame(stack'[k], clock)
<1>1. stack \in Seq(Frame)
  BY DEF EscrowInv, TypeOK
<1>2. /\ Len(stack) \in Nat \ {0} /\ Rest \in Seq(Frame) /\ Len(Rest) = Len(stack) - 1
      /\ \A k \in 1..Len(Rest) : Rest[k] = stack[k]
  BY <1>1, TopAndRest
<1>3. /\ stack' \in Seq(Frame) /\ Len(stack') = Len(stack)
      /\ \A k \in 1..Len(stack') : stack'[k] = stack[k] \/ stack'[k] = f
  <2>1. CASE stack' = Append(Rest, f)
    BY <1>2, <2>1
  <2>2. CASE stack' = [stack EXCEPT ![Len(stack)] = f]
    BY <1>1, <1>2, <2>2
  <2> QED
    BY <2>1, <2>2
<1>4. ASSUME NEW k \in 1..Len(stack') PROVE SoundFrame(stack'[k], clock)
  <2>1. stack'[k] = stack[k] \/ stack'[k] = f
    BY <1>3
  <2>2. k \in 1..Len(stack)
    BY <1>3
  <2> QED
    BY <2>1, <2>2 DEF EscrowInv
<1> QED
  BY <1>3, <1>4

\* What is left to pay is a shorter run of payouts.
LEMMA TailOfPayouts ==
  ASSUME NEW todo \in Seq(Payout), todo # << >>
  PROVE  /\ Head(todo) \in Payout
         /\ Len(todo) > 1 => Tail(todo) \in Seq(Payout) /\ Tail(todo) # << >>
<1> DEFINE left == Tail(todo)
<1>1. Head(todo) \in Payout /\ left \in Seq(Payout) /\ Len(left) = Len(todo) - 1
  BY HeadTailProperties
<1> HIDE DEF left
<1>2. Len(todo) > 1 => left # << >>
  BY <1>1
<1> QED
  BY <1>1, <1>2 DEF left

\* Turning to the next payout, or returning, keeps the stack sound.
LEMMA GoOnSound ==
  ASSUME EscrowInv, stack # << >>, GoOn
  PROVE  stack' \in Seq(Frame) /\ \A k \in 1..Len(stack') : SoundFrame(stack'[k], clock)
<1> DEFINE next == [Top EXCEPT !.todo = Tail(@), !.stage = "send"]
<1>1. Len(stack) \in Nat \ {0} /\ Top \in Frame
  BY TopAndRest DEF EscrowInv, TypeOK
<1>2. SoundFrame(Top, clock)
  BY <1>1 DEF EscrowInv, Top
<1>3. CASE Len(Top.todo) > 1
  <2>1. Top.todo \in Seq(Payout) /\ Top.todo # << >>
    BY <1>1, <1>2 DEF Frame, SoundFrame
  <2>2. Tail(Top.todo) \in Seq(Payout) /\ Tail(Top.todo) # << >>
    BY <2>1, <1>3, TailOfPayouts
  <2>3. next \in Frame /\ next.todo # << >> /\ next.before = Top.before /\ next.undo = Top.undo
    BY <1>1, <2>2 DEF Frame
  <2>4. SoundFrame(next, clock)
    BY <1>2, <2>3 DEF SoundFrame
  <2>5. stack' = Append(Rest, next)
    BY <1>3 DEF GoOn
  <2> HIDE DEF next
  <2> QED
    BY <2>3, <2>4, <2>5, ReplaceTopSound
<1>4. CASE ~(Len(Top.todo) > 1)
  BY <1>4, PopSound DEF GoOn
<1> QED
  BY <1>3, <1>4

-----------------------------------------------------------------------------
(* Each step keeps the invariant.                                          *)

\* A session that exists has its parties; one that does not is the zeroed struct.
LEMMA ExistingSession ==
  ASSUME EscrowInv, NEW i \in Ids
  PROVE  /\ Exists(i) => session[i] \in Session /\ session[i].deposited # 0
         /\ ~Exists(i) => session[i] = NoSession
         /\ SoundSession(session[i], clock)
<1>1. session[i] \in Session \cup {NoSession} /\ SoundSession(session[i], clock)
  BY DEF EscrowInv, TypeOK, World, Now, Sound
<1>2. NoSession.renter = ZeroAddress
  BY DEF NoSession
<1>3. \A s \in Session : s.renter # ZeroAddress
  BY AddressAssumption DEF Session
<1> QED
  BY <1>1, <1>2, <1>3 DEF Exists, SoundSession

\* Writing one sound session keeps the state sound.
LEMMA WriteSession ==
  ASSUME EscrowInv, NEW i \in Ids, NEW s \in Session, SoundSession(s, clock),
         session' = [session EXCEPT ![i] = s],
         pending' \in [Accounts -> Nat], balance' \in Nat, received' \in [Accounts -> Nat],
         clock' = clock
  PROVE  Now' \in World /\ Sound(Now', clock')
<1>1. session \in [Ids -> Session \cup {NoSession}] /\ \A j \in Ids : SoundSession(session[j], clock)
  BY DEF EscrowInv, TypeOK, World, Now, Sound
<1>2. session' \in [Ids -> Session \cup {NoSession}] /\ \A j \in Ids : SoundSession(session'[j], clock)
  BY <1>1
<1>3. Now' \in World
  BY <1>2 DEF Now, World
<1>4. Now'.session = session'
  BY DEF Now
<1> QED
  BY <1>2, <1>3, <1>4 DEF Sound

\* A state put back is as good as it was.
LEMMA RestoreSound ==
  ASSUME NEW w \in World, Sound(w, clock), Restore(w), clock' = clock
  PROVE  Now' \in World /\ Sound(Now', clock')
<1>1. Now' = w
  BY DEF Now, Restore, World
<1> QED
  BY <1>1

\* Each call and each turn of a payout keeps the invariant, one lemma for each.
LEMMA OpenSessionInv ==
  ASSUME EscrowInv, NEW caller \in Accounts, NEW i \in Ids,
         NEW provider \in Accounts \cup {ZeroAddress}, NEW price \in Prices,
         NEW duration \in Durations, NEW paid \in Payable,
         OpenSession(caller, i, provider, price, duration, paid)
  PROVE  EscrowInv'
<1> DEFINE s == [renter |-> caller, provider |-> provider, pricePerSecond |-> price,
                 startTime |-> clock, duration |-> duration, deposited |-> paid,
                 settled |-> FALSE]
<1>1. clock \in Nat /\ balance \in Nat /\ pending \in [Accounts -> Nat]
      /\ received \in [Accounts -> Nat]
  BY DEF EscrowInv, TypeOK, World, Now
<1>2. price \in Nat \ {0} /\ duration \in Nat \ {0} /\ provider \in Accounts
  BY AmountAssumption DEF OpenSession
<1>3. paid = price * duration /\ paid \in Nat
  BY <1>1, AmountAssumption DEF OpenSession, Payable
<1>4. \A m, n \in Nat \ {0} : m * n # 0
  OBVIOUS
<1>5. s \in Session
  BY <1>1, <1>2, <1>3 DEF Session
<1>6. SoundSession(s, clock)
  BY <1>1, <1>2, <1>3, <1>4 DEF SoundSession, BuysItsTime
<1>7. /\ session' = [session EXCEPT ![i] = s]
      /\ balance' = balance + paid
      /\ UNCHANGED <<pending, received, stack, clock>>
  BY DEF OpenSession
<1> HIDE DEF s
<1>8. Now' \in World /\ Sound(Now', clock')
  <2>1. balance' \in Nat /\ pending' \in [Accounts -> Nat] /\ received' \in [Accounts -> Nat]
    BY <1>1, <1>3, <1>7
  <2>2. session' = [session EXCEPT ![i] = s] /\ clock' = clock
    BY <1>7
  <2> QED
    BY <1>5, <1>6, <2>1, <2>2, WriteSession
<1> QED
  BY <1>7, <1>8 DEF EscrowInv, TypeOK

LEMMA TopUpInv ==
  ASSUME EscrowInv, NEW i \in Ids, NEW added \in Durations, NEW paid \in Payable,
         TopUp(i, added, paid)
  PROVE  EscrowInv'
<1> DEFINE old == session[i]
           s == [old EXCEPT !.duration = @ + added, !.deposited = @ + paid]
<1>1. clock \in Nat /\ balance \in Nat /\ pending \in [Accounts -> Nat]
      /\ received \in [Accounts -> Nat] /\ session \in [Ids -> Session \cup {NoSession}]
  BY DEF EscrowInv, TypeOK, World, Now
<1>2. old \in Session /\ old.deposited # 0 /\ SoundSession(old, clock)
  BY ExistingSession DEF TopUp
<1>3. paid = old.pricePerSecond * added /\ paid \in Nat /\ added \in Nat
  BY <1>1, AmountAssumption DEF TopUp, Payable
<1>4. s \in Session
  <2>1. old.duration + added \in Nat /\ old.deposited + paid \in Nat
    BY <1>2, <1>3 DEF Session
  <2>2. ASSUME NEW m \in Nat, NEW n \in Nat
        PROVE  [old EXCEPT !.duration = m, !.deposited = n] \in Session
    BY <1>2, <2>2 DEF Session
  <2> HIDE DEF old
  <2> QED
    BY <2>1, <2>2
<1>5. \A p, m, n \in Nat : p * (m + n) = p * m + p * n
  OBVIOUS
<1>6. s.deposited = old.deposited + paid /\ s.duration = old.duration + added
      /\ s.pricePerSecond = old.pricePerSecond /\ s.startTime = old.startTime
  BY <1>2 DEF Session
<1>7. /\ old.deposited \in Nat /\ old.duration \in Nat /\ old.pricePerSecond \in Nat
      /\ old.deposited = old.pricePerSecond * old.duration
  BY <1>2 DEF Session, SoundSession, BuysItsTime
<1>8. s.deposited = s.pricePerSecond * s.duration /\ s.deposited # 0
  BY <1>2, <1>3, <1>5, <1>6, <1>7
<1>9. SoundSession(s, clock)
  BY <1>2, <1>6, <1>8 DEF SoundSession, BuysItsTime
<1>10. /\ session' = [session EXCEPT ![i] = s]
       /\ balance' = balance + paid
       /\ UNCHANGED <<pending, received, stack, clock>>
  BY <1>1 DEF TopUp
<1> HIDE DEF s
<1>11. Now' \in World /\ Sound(Now', clock')
  <2>1. balance' \in Nat /\ pending' \in [Accounts -> Nat] /\ received' \in [Accounts -> Nat]
    BY <1>1, <1>3, <1>10
  <2>2. session' = [session EXCEPT ![i] = s] /\ clock' = clock
    BY <1>10
  <2> QED
    BY <1>4, <1>9, <2>1, <2>2, WriteSession
<1> QED
  BY <1>10, <1>11 DEF EscrowInv, TypeOK

\* A call that begins with payouts to make puts a sound frame on the stack.
LEMMA BeginSound ==
  ASSUME EscrowInv, NEW op \in {"settle", "withdraw"}, NEW todo \in Seq(Payout),
         todo # << >>, Begin(op, todo)
  PROVE  stack' \in Seq(Frame) /\ \A k \in 1..Len(stack') : SoundFrame(stack'[k], clock)
<1> DEFINE f == [op |-> op, todo |-> todo, stage |-> "send", before |-> Now, undo |-> Now]
<1>1. f \in Frame
  BY DEF EscrowInv, TypeOK, Frame
<1>2. SoundFrame(f, clock)
  BY DEF EscrowInv, SoundFrame
<1>3. stack' = Append(stack, f)
  BY DEF Begin
<1> HIDE DEF f
<1> QED
  BY <1>1, <1>2, <1>3, PushSound

LEMMA SettleInv ==
  ASSUME EscrowInv, NEW i \in Ids, Settle(i)
  PROVE  EscrowInv'
<1> DEFINE old == session[i]
           s == [old EXCEPT !.settled = TRUE]
<1>1. clock \in Nat /\ balance \in Nat /\ pending \in [Accounts -> Nat]
      /\ received \in [Accounts -> Nat] /\ session \in [Ids -> Session \cup {NoSession}]
  BY DEF EscrowInv, TypeOK, World, Now
<1>2. old \in Session /\ old.deposited # 0 /\ SoundSession(old, clock)
  BY ExistingSession DEF Settle
<1>3. Payouts(old, clock) \in Seq(Payout) /\ Payouts(old, clock) # << >>
  BY <1>1, <1>2, PayoutsType DEF SoundSession
<1>4. /\ session' = [session EXCEPT ![i] = s]
      /\ Begin("settle", Payouts(old, clock))
      /\ UNCHANGED <<pending, balance, received, clock>>
  BY <1>1 DEF Settle
<1>5. s \in Session /\ SoundSession(s, clock)
  BY <1>2 DEF Session, SoundSession, BuysItsTime
<1> HIDE DEF s, old
<1>6. stack' \in Seq(Frame) /\ \A k \in 1..Len(stack') : SoundFrame(stack'[k], clock)
  BY <1>3, <1>4, BeginSound
<1>7. Now' \in World /\ Sound(Now', clock')
  BY <1>1, <1>4, <1>5, WriteSession
<1> QED
  BY <1>1, <1>4, <1>6, <1>7 DEF EscrowInv, TypeOK

LEMMA WithdrawInv ==
  ASSUME EscrowInv, NEW a \in Accounts, Withdraw(a)
  PROVE  EscrowInv'
<1>1. clock \in Nat /\ pending \in [Accounts -> Nat] /\ Now \in World /\ Sound(Now, clock)
  BY DEF EscrowInv, TypeOK, World, Now
<1>2. pending[a] \in Nat \ {0}
  BY <1>1 DEF Withdraw
<1>3. [to |-> a, amount |-> pending[a]] \in Payout
  BY <1>2 DEF Payout
<1>4. Due(a, pending[a]) = << [to |-> a, amount |-> pending[a]] >>
  BY <1>2 DEF Due
<1>5. Due(a, pending[a]) \in Seq(Payout) /\ Due(a, pending[a]) # << >>
  BY <1>3, <1>4
<1>6. stack' \in Seq(Frame) /\ \A k \in 1..Len(stack') : SoundFrame(stack'[k], clock)
  BY <1>5, BeginSound DEF Withdraw
<1>7. pending' \in [Accounts -> Nat] /\ UNCHANGED <<session, balance, received, clock>>
  BY <1>1 DEF Withdraw
<1>8. Now' \in World /\ Sound(Now', clock')
  BY <1>1, <1>7 DEF Now, World, Sound
<1> QED
  BY <1>1, <1>6, <1>7, <1>8 DEF EscrowInv, TypeOK

LEMMA SendInv ==
  ASSUME EscrowInv, Send
  PROVE  EscrowInv'
<1> DEFINE head == Head(Top.todo)
           f == [Top EXCEPT !.stage = "called", !.undo = Now]
<1>1. /\ clock \in Nat /\ balance \in Nat /\ received \in [Accounts -> Nat]
      /\ Now \in World /\ Sound(Now, clock) /\ stack \in Seq(Frame)
  BY DEF EscrowInv, TypeOK, World, Now
<1>2. stack # << >> /\ Len(stack) \in Nat \ {0} /\ Top \in Frame
  BY <1>1, TopAndRest DEF Send
<1>3. SoundFrame(Top, clock)
  BY <1>2 DEF EscrowInv, Top
<1>4. Top.todo \in Seq(Payout) /\ Top.todo # << >>
  BY <1>2, <1>3 DEF Frame, SoundFrame
<1>5. head \in Payout
  BY <1>4, TailOfPayouts
<1>6. head.to \in Accounts /\ head.amount \in Nat
  BY <1>5 DEF Payout
<1>7. f \in Frame /\ f.todo = Top.todo /\ f.before = Top.before /\ f.undo = Now
  BY <1>1, <1>2 DEF Frame
<1>8. SoundFrame(f, clock)
  BY <1>1, <1>3, <1>7 DEF SoundFrame
<1>9. stack' = [stack EXCEPT ![Len(stack)] = f]
  BY DEF Send, Top
<1>10. /\ head.amount <= balance
       /\ balance' = balance - head.amount
       /\ received' = [received EXCEPT ![head.to] = @ + head.amount]
       /\ UNCHANGED <<session, pending, clock>>
  BY DEF Send
<1> HIDE DEF head, f
<1>11. stack' \in Seq(Frame) /\ \A k \in 1..Len(stack') : SoundFrame(stack'[k], clock)
  BY <1>2, <1>7, <1>8, <1>9, ReplaceTopSound
<1>12. balance' \in Nat /\ received' \in [Accounts -> Nat]
  BY <1>1, <1>6, <1>10
<1>13. Now' \in World /\ Sound(Now', clock')
  BY <1>1, <1>10, <1>12 DEF Now, World, Sound
<1> QED
  BY <1>1, <1>10, <1>11, <1>13 DEF EscrowInv, TypeOK

LEMMA AcceptInv ==
  ASSUME EscrowInv, Accept
  PROVE  EscrowInv'
<1>1. stack' \in Seq(Frame) /\ \A k \in 1..Len(stack') : SoundFrame(stack'[k], clock)
  BY GoOnSound DEF Accept
<1>2. Now' = Now /\ clock' = clock
  BY DEF Accept, ledger, Now
<1> QED
  BY <1>1, <1>2 DEF EscrowInv, TypeOK

LEMMA RefusePayoutInv ==
  ASSUME EscrowInv, RefusePayout
  PROVE  EscrowInv'
<1> DEFINE head == Head(Top.todo)
           w == [AsBeforeCall EXCEPT !.pending[head.to] = @ + head.amount]
<1>1. clock \in Nat /\ Now \in World /\ Sound(Now, clock) /\ stack \in Seq(Frame)
  BY DEF EscrowInv, TypeOK
<1>2. stack # << >> /\ Len(stack) \in Nat \ {0} /\ Top \in Frame
  BY <1>1, TopAndRest DEF RefusePayout
<1>3. SoundFrame(Top, clock)
  BY <1>2 DEF EscrowInv, Top
<1>4. Top.todo \in Seq(Payout) /\ Top.todo # << >>
  BY <1>2, <1>3 DEF Frame, SoundFrame
<1>5. head \in Payout
  BY <1>4, TailOfPayouts
<1>6. AsBeforeCall \in World /\ Sound(AsBeforeCall, clock)
  BY <1>1, <1>2, <1>3 DEF AsBeforeCall, Frame, SoundFrame
<1>7. w \in World /\ w.session = AsBeforeCall.session
  BY <1>5, <1>6 DEF World, Payout
<1>8. Sound(w, clock)
  BY <1>6, <1>7 DEF Sound
<1>9. Restore(w) /\ GoOn /\ clock' = clock
  BY DEF RefusePayout
<1> HIDE DEF head, w
<1>10. stack' \in Seq(Frame) /\ \A k \in 1..Len(stack') : SoundFrame(stack'[k], clock)
  BY <1>2, <1>9, GoOnSound
<1>11. Now' \in World /\ Sound(Now', clock')
  BY <1>7, <1>8, <1>9, RestoreSound
<1> QED
  BY <1>1, <1>9, <1>10, <1>11 DEF EscrowInv, TypeOK

LEMMA RefuseWithdrawalInv ==
  ASSUME EscrowInv, RefuseWithdrawal
  PROVE  EscrowInv'
<1>1. clock \in Nat /\ stack \in Seq(Frame)
  BY DEF EscrowInv, TypeOK
<1>2. stack # << >> /\ Len(stack) \in Nat \ {0} /\ Top \in Frame
  BY <1>1, TopAndRest DEF RefuseWithdrawal
<1>3. SoundFrame(Top, clock)
  BY <1>2 DEF EscrowInv, Top
<1>4. Top.before \in World /\ Sound(Top.before, clock)
  BY <1>2, <1>3 DEF Frame, SoundFrame
<1>5. Restore(Top.before) /\ stack' = Rest /\ clock' = clock
  BY DEF RefuseWithdrawal
<1>6. stack' \in Seq(Frame) /\ \A k \in 1..Len(stack') : SoundFrame(stack'[k], clock)
  BY <1>2, <1>5, PopSound
<1>7. Now' \in World /\ Sound(Now', clock')
  BY <1>4, <1>5, RestoreSound
<1> QED
  BY <1>1, <1>5, <1>6, <1>7 DEF EscrowInv, TypeOK

LEMMA TickInv ==
  ASSUME EscrowInv, Tick
  PROVE  EscrowInv'
<1>1. /\ Now \in World /\ Sound(Now, clock) /\ clock \in Nat
      /\ clock' = clock + 1 /\ stack = << >> /\ stack' = stack /\ Now' = Now
  BY DEF EscrowInv, TypeOK, Tick, ledger, Now
<1>2. \A i \in Ids : session[i].startTime \in Nat
  BY <1>1 DEF World, Now, Session, NoSession
<1>3. Sound(Now, clock')
  BY <1>1, <1>2 DEF Sound, SoundSession, Now
<1> QED
  BY <1>1, <1>3 DEF EscrowInv, TypeOK

\* The escrow's types, the worth of every deposit, and that both hold of every
\* state a revert may restore.
THEOREM EscrowInvHolds == Spec => []EscrowInv
<1>1. Init => EscrowInv
  <2> SUFFICES ASSUME Init PROVE EscrowInv
    OBVIOUS
  <2>1. Now \in World /\ stack \in Seq(Frame) /\ clock \in Nat /\ Len(stack) = 0
    BY DEF Init, Now, World
  <2>2. \A i \in Ids : Now.session[i] = NoSession
    BY DEF Init, Now
  <2>3. SoundSession(NoSession, clock)
    BY DEF Init, SoundSession, BuysItsTime, NoSession
  <2> QED
    BY <2>1, <2>2, <2>3 DEF EscrowInv, TypeOK, Sound
<1>2. EscrowInv /\ [Next]_vars => EscrowInv'
  <2> SUFFICES ASSUME EscrowInv, [Next]_vars PROVE EscrowInv'
    OBVIOUS
  <2>1. CASE UNCHANGED vars
    <3>1. Now' = Now /\ stack' = stack /\ clock' = clock
      BY <2>1 DEF vars, Now
    <3> QED
      BY <3>1 DEF EscrowInv, TypeOK
  <2>2. CASE Next
    BY <2>2, OpenSessionInv, TopUpInv, SettleInv, WithdrawInv, SendInv, AcceptInv,
       RefusePayoutInv, RefuseWithdrawalInv, TickInv DEF Next
  <2> QED
    BY <2>1, <2>2
<1> QED
  BY <1>1, <1>2, PTL DEF Spec

\* A call hands over only what is owed, and never what the contract does not
\* have (types, lines 183-249).
THEOREM EscrowTypeCorrect == Spec => []TypeOK
<1>1. EscrowInv => TypeOK
  BY DEF EscrowInv
<1> QED
  BY <1>1, EscrowInvHolds, PTL

\* Every tinybar deposited buys its time, whatever the callbacks, so a split
\* never exceeds the deposit (lines 192-198).
THEOREM DepositBuysTimeHolds == Spec => []DepositBuysTime
<1>1. EscrowInv => DepositBuysTime
  BY DEF EscrowInv, Sound, SoundSession, Now, DepositBuysTime
<1> QED
  BY <1>1, EscrowInvHolds, PTL

-----------------------------------------------------------------------------
(* A settlement stands.                                                    *)

\* What frame would restore has session i settled already; the outermost frame,
\* which settled it, restores nothing older than its own settlement.
FrameKeeps(frame, i, inner) ==
  /\ frame.stage = "called" \/ inner => frame.undo.session[i].settled
  /\ inner => frame.before.session[i].settled

\* Whatever is refused from here on, session i stays settled.
KeepsSettled(i) ==
  /\ session[i].settled
  /\ \A k \in 1..Len(stack) : FrameKeeps(stack[k], i, k > 1)

\* A transaction that a settlement began has settled something for good.
CommitInv ==
  (stack # << >> /\ stack[1].op = "settle") =>
    \E i \in Ids : ~stack[1].before.session[i].settled /\ KeepsSettled(i)

\* What a step of a settling transaction leaves: the session settled, and, if it
\* is not over, the same transaction that settled it.
Stands(i) ==
  /\ session'[i].settled
  /\ stack' # << >> => /\ KeepsSettled(i)'
                       /\ stack'[1].op = "settle"
                       /\ stack'[1].before = stack[1].before

\* The outermost frame of a settling transaction, and the innermost.
LEMMA SettlingStack ==
  ASSUME EscrowInv, stack # << >>, stack[1].op = "settle", NEW i \in Ids, KeepsSettled(i)
  PROVE  /\ stack \in Seq(Frame) /\ Len(stack) \in Nat \ {0} /\ 1 \in 1..Len(stack)
         /\ Len(stack) \in 1..Len(stack)
         /\ Top \in Frame /\ Rest \in Seq(Frame) /\ Len(Rest) = Len(stack) - 1
         /\ \A k \in 1..Len(Rest) : Rest[k] = stack[k]
         /\ FrameKeeps(Top, i, Len(stack) > 1)
<1>1. stack \in Seq(Frame)
  BY DEF EscrowInv, TypeOK
<1>2. /\ Len(stack) \in Nat \ {0} /\ Top \in Frame /\ Rest \in Seq(Frame)
      /\ Len(Rest) = Len(stack) - 1 /\ \A k \in 1..Len(Rest) : Rest[k] = stack[k]
  BY <1>1, TopAndRest
<1>3. 1 \in 1..Len(stack) /\ Len(stack) \in 1..Len(stack)
  BY <1>2
<1>4. FrameKeeps(Top, i, Len(stack) > 1)
  BY <1>3 DEF KeepsSettled, Top
<1> QED
  BY <1>1, <1>2, <1>3, <1>4

\* The stack as it was, under a session still settled.
LEMMA SameStackStands ==
  ASSUME EscrowInv, stack # << >>, stack[1].op = "settle", NEW i \in Ids, KeepsSettled(i),
         session'[i].settled, stack' = stack
  PROVE  Stands(i)
BY DEF Stands, KeepsSettled

\* A frame on top that was put there after the session was settled.
LEMMA PushStands ==
  ASSUME EscrowInv, stack # << >>, stack[1].op = "settle", NEW i \in Ids, KeepsSettled(i),
         session'[i].settled, NEW f \in Frame, stack' = Append(stack, f),
         f.before = Now, f.undo = Now
  PROVE  Stands(i)
<1>1. stack \in Seq(Frame) /\ Len(stack) \in Nat \ {0}
  BY SettlingStack
<1>2. stack' \in Seq(Frame) /\ Len(stack') = Len(stack) + 1 /\ stack'[1] = stack[1]
  BY <1>1
<1>3. FrameKeeps(f, i, TRUE)
  BY DEF FrameKeeps, KeepsSettled, Now
<1>4. ASSUME NEW k \in 1..Len(stack') PROVE FrameKeeps(stack'[k], i, k > 1)
  <2>1. CASE k \in 1..Len(stack)
    <3>1. stack'[k] = stack[k]
      BY <1>1, <2>1
    <3> QED
      BY <2>1, <3>1 DEF KeepsSettled
  <2>2. CASE ~(k \in 1..Len(stack))
    <3>1. stack'[k] = f
      BY <1>1, <1>2, <2>2
    <3> QED
      BY <1>3, <3>1 DEF FrameKeeps
  <2> QED
    BY <2>1, <2>2
<1> QED
  BY <1>2, <1>4 DEF Stands, KeepsSettled

\* The innermost frame replaced by one that restores nothing older.
LEMMA ReplaceTopStands ==
  ASSUME EscrowInv, stack # << >>, stack[1].op = "settle", NEW i \in Ids, KeepsSettled(i),
         session'[i].settled, NEW f \in Frame,
         f.op = Top.op, f.before = Top.before, FrameKeeps(f, i, Len(stack) > 1),
         \/ stack' = Append(Rest, f)
         \/ stack' = [stack EXCEPT ![Len(stack)] = f]
  PROVE  Stands(i)
<1>1. /\ stack \in Seq(Frame) /\ Len(stack) \in Nat \ {0} /\ Rest \in Seq(Frame)
      /\ Len(Rest) = Len(stack) - 1 /\ \A k \in 1..Len(Rest) : Rest[k] = stack[k]
  BY SettlingStack
<1>2. /\ Len(stack') = Len(stack)
      /\ \A k \in 1..Len(stack') :
           (k = Len(stack) /\ stack'[k] = f) \/ (k # Len(stack) /\ stack'[k] = stack[k])
  <2>1. CASE stack' = Append(Rest, f)
    BY <1>1, <2>1
  <2>2. CASE stack' = [stack EXCEPT ![Len(stack)] = f]
    BY <1>1, <2>2
  <2> QED
    BY <2>1, <2>2
<1>3. ASSUME NEW k \in 1..Len(stack')
      PROVE  (k = Len(stack) /\ stack'[k] = f) \/ (k # Len(stack) /\ stack'[k] = stack[k])
  BY <1>2
<1>4. ASSUME NEW k \in 1..Len(stack') PROVE FrameKeeps(stack'[k], i, k > 1)
  BY <1>2, <1>3 DEF KeepsSettled
<1>5. stack'[1].op = stack[1].op /\ stack'[1].before = stack[1].before
  BY <1>1, <1>2, <1>3 DEF Top
<1> QED
  BY <1>4, <1>5 DEF Stands, KeepsSettled

\* The innermost frame gone.
LEMMA PopStands ==
  ASSUME EscrowInv, stack # << >>, stack[1].op = "settle", NEW i \in Ids, KeepsSettled(i),
         session'[i].settled, stack' = Rest
  PROVE  Stands(i)
<1>1. /\ stack \in Seq(Frame) /\ Len(stack) \in Nat \ {0} /\ Rest \in Seq(Frame)
      /\ Len(Rest) = Len(stack) - 1 /\ \A k \in 1..Len(Rest) : Rest[k] = stack[k]
  BY SettlingStack
<1>2. ASSUME NEW k \in 1..Len(Rest) PROVE FrameKeeps(Rest[k], i, k > 1)
  BY <1>1 DEF KeepsSettled
<1>3. ASSUME Rest # << >> PROVE Rest[1] = stack[1]
  <2>1. Len(Rest) # 0
    BY <1>1, <1>3
  <2> QED
    BY <1>1, <2>1
<1> QED
  BY <1>2, <1>3 DEF Stands, KeepsSettled

\* Turning to the next payout, or returning.
LEMMA GoOnStands ==
  ASSUME EscrowInv, stack # << >>, stack[1].op = "settle", NEW i \in Ids, KeepsSettled(i),
         session'[i].settled, GoOn
  PROVE  Stands(i)
<1> DEFINE next == [Top EXCEPT !.todo = Tail(@), !.stage = "send"]
<1>1. Top \in Frame /\ FrameKeeps(Top, i, Len(stack) > 1) /\ Len(stack) \in Nat \ {0}
  BY SettlingStack
<1>2. CASE Len(Top.todo) > 1
  <2>1. Top.todo \in Seq(Payout) /\ Top.todo # << >>
    BY <1>1 DEF EscrowInv, SoundFrame, Top, Frame
  <2>2. Tail(Top.todo) \in Seq(Payout)
    BY <2>1, <1>2, TailOfPayouts
  <2>3. /\ next \in Frame /\ next.op = Top.op /\ next.before = Top.before
        /\ next.undo = Top.undo /\ next.stage = "send"
    BY <1>1, <2>2 DEF Frame
  <2>4. FrameKeeps(next, i, Len(stack) > 1)
    BY <1>1, <2>3 DEF FrameKeeps
  <2>5. stack' = Append(Rest, next)
    BY <1>2 DEF GoOn
  <2> HIDE DEF next
  <2> QED
    BY <2>3, <2>4, <2>5, ReplaceTopStands
<1>3. CASE ~(Len(Top.todo) > 1)
  BY <1>3, PopStands DEF GoOn
<1> QED
  BY <1>2, <1>3

\* No step undoes a settlement that began its transaction.
LEMMA SettlementStands ==
  ASSUME EscrowInv, stack # << >>, stack[1].op = "settle", NEW i \in Ids, KeepsSettled(i),
         [Next]_vars
  PROVE  Stands(i)
<1>1. /\ session \in [Ids -> Session \cup {NoSession}] /\ session[i].settled /\ Exists(i)
      /\ Now \in World
  <2>1. session \in [Ids -> Session \cup {NoSession}] /\ Now \in World /\ session[i].settled
    BY DEF EscrowInv, TypeOK, World, Now, KeepsSettled
  <2>2. ~NoSession.settled
    BY DEF NoSession
  <2> QED
    BY <2>1, <2>2, ExistingSession
<1>2. CASE UNCHANGED vars
  BY <1>1, <1>2, SameStackStands DEF vars
<1>3. CASE \E caller \in Accounts, j \in Ids, provider \in Accounts \cup {ZeroAddress},
              price \in Prices, duration \in Durations, paid \in Payable :
             OpenSession(caller, j, provider, price, duration, paid)
  <2>1. session'[i].settled /\ stack' = stack
    BY <1>1, <1>3 DEF OpenSession
  <2> QED
    BY <2>1, SameStackStands
<1>4. CASE \E j \in Ids, added \in Durations, paid \in Payable : TopUp(j, added, paid)
  <2>1. PICK j \in Ids, added \in Durations, paid \in Payable : TopUp(j, added, paid)
    BY <1>4
  <2>2. j # i /\ stack' = stack
    BY <1>1, <2>1 DEF TopUp
  <2>3. session'[i] = session[i]
    BY <1>1, <2>1, <2>2 DEF TopUp
  <2> QED
    BY <1>1, <2>2, <2>3, SameStackStands
<1>5. CASE \E j \in Ids : Settle(j)
  <2>1. PICK j \in Ids : Settle(j)
    BY <1>5
  <2>2. session'[i].settled
    BY <1>1, <2>1 DEF Settle
  <2>3. Payouts(session[j], clock) \in Seq(Payout)
    <3>1. session[j] \in Session /\ session[j].deposited # 0 /\ SoundSession(session[j], clock)
      BY <2>1, ExistingSession DEF Settle
    <3>2. clock \in Nat
      BY DEF EscrowInv, TypeOK
    <3> QED
      BY <3>1, <3>2, PayoutsType DEF SoundSession
  <2> DEFINE f == [op |-> "settle", todo |-> Payouts(session[j], clock), stage |-> "send",
                   before |-> Now, undo |-> Now]
  <2>4. f \in Frame /\ f.before = Now /\ f.undo = Now
    BY <1>1, <2>3 DEF Frame
  <2>5. stack' = Append(stack, f)
    BY <2>1 DEF Settle, Begin
  <2> HIDE DEF f
  <2> QED
    BY <2>2, <2>4, <2>5, PushStands
<1>6. CASE \E a \in Accounts : Withdraw(a)
  <2>1. PICK a \in Accounts : Withdraw(a)
    BY <1>6
  <2>2. session'[i].settled
    BY <1>1, <2>1 DEF Withdraw
  <2>3. Due(a, pending[a]) \in Seq(Payout)
    <3>1. pending[a] \in Nat \ {0}
      BY <1>1, <2>1 DEF World, Now, Withdraw
    <3>2. [to |-> a, amount |-> pending[a]] \in Payout
      BY <3>1 DEF Payout
    <3> QED
      BY <3>1, <3>2 DEF Due
  <2> DEFINE f == [op |-> "withdraw", todo |-> Due(a, pending[a]), stage |-> "send",
                   before |-> Now, undo |-> Now]
  <2>4. f \in Frame /\ f.before = Now /\ f.undo = Now
    BY <1>1, <2>3 DEF Frame
  <2>5. stack' = Append(stack, f)
    BY <2>1 DEF Withdraw, Begin
  <2> HIDE DEF f
  <2> QED
    BY <2>2, <2>4, <2>5, PushStands
<1>7. CASE Send
  <2> DEFINE f == [Top EXCEPT !.stage = "called", !.undo = Now]
  <2>1. Top \in Frame /\ FrameKeeps(Top, i, Len(stack) > 1)
    BY SettlingStack
  <2>2. f \in Frame /\ f.op = Top.op /\ f.before = Top.before /\ f.undo = Now
    BY <1>1, <2>1 DEF Frame
  <2>3. FrameKeeps(f, i, Len(stack) > 1)
    BY <1>1, <2>1, <2>2 DEF FrameKeeps, Now
  <2>4. stack' = [stack EXCEPT ![Len(stack)] = f] /\ session'[i].settled
    BY <1>1, <1>7 DEF Send, Top
  <2> HIDE DEF f
  <2> QED
    BY <2>2, <2>3, <2>4, ReplaceTopStands
<1>8. CASE Accept
  BY <1>1, <1>8, GoOnStands DEF Accept, ledger
<1>9. CASE RefusePayout
  <2>1. Top \in Frame /\ FrameKeeps(Top, i, Len(stack) > 1)
    BY SettlingStack
  <2>2. AsBeforeCall.session[i].settled /\ AsBeforeCall \in World
    BY <1>1, <2>1 DEF AsBeforeCall, FrameKeeps, Now, Frame
  <2>3. session' = AsBeforeCall.session
    BY <1>9, <2>2 DEF RefusePayout, Restore, World
  <2> QED
    BY <1>9, <2>2, <2>3, GoOnStands DEF RefusePayout
<1>10. CASE RefuseWithdrawal
  <2>1. /\ Top \in Frame /\ FrameKeeps(Top, i, Len(stack) > 1)
        /\ Len(stack) \in Nat \ {0}
    BY SettlingStack
  <2>2. Len(stack) > 1
    BY <1>10, <2>1 DEF RefuseWithdrawal, Top
  <2>3. session'[i].settled
    BY <1>10, <2>1, <2>2 DEF RefuseWithdrawal, Restore, FrameKeeps
  <2> QED
    BY <1>10, <2>3, PopStands DEF RefuseWithdrawal
<1>11. CASE Tick
  BY <1>11 DEF Tick
<1> QED
  BY <1>2, <1>3, <1>4, <1>5, <1>6, <1>7, <1>8, <1>9, <1>10, <1>11 DEF Next

\* A transaction stays what it began as.
LEMMA OutermostStays ==
  ASSUME EscrowInv, [Next]_vars, stack # << >>, stack' # << >>
  PROVE  stack'[1].op = stack[1].op
<1>1. stack \in Seq(Frame)
  BY DEF EscrowInv, TypeOK
<1>2. /\ Len(stack) \in Nat \ {0} /\ Top \in Frame /\ Rest \in Seq(Frame)
      /\ Len(Rest) = Len(stack) - 1 /\ \A k \in 1..Len(Rest) : Rest[k] = stack[k]
  BY <1>1, TopAndRest
<1>3. CASE stack' = stack
  BY <1>3
<1>4. ASSUME NEW f, stack' = Append(stack, f) PROVE stack'[1] = stack[1]
  BY <1>1, <1>2, <1>4
<1>5. CASE \E j \in Ids : Settle(j)
  BY <1>4, <1>5 DEF Settle, Begin
<1>6. CASE \E a \in Accounts : Withdraw(a)
  BY <1>4, <1>6 DEF Withdraw, Begin
<1>7. CASE Send
  <2> DEFINE f == [Top EXCEPT !.stage = "called", !.undo = Now]
  <2>1. stack' = [stack EXCEPT ![Len(stack)] = f] /\ f.op = Top.op
    BY <1>2, <1>7 DEF Send, Top, Frame
  <2> HIDE DEF f
  <2>2. stack'[1] = IF Len(stack) = 1 THEN f ELSE stack[1]
    BY <1>1, <1>2, <2>1
  <2> QED
    BY <2>1, <2>2 DEF Top
<1>8. CASE stack' = Rest
  <2>1. Len(Rest) # 0
    BY <1>2, <1>8
  <2> QED
    BY <1>2, <1>8, <2>1
<1>9. CASE GoOn
  <2> DEFINE next == [Top EXCEPT !.todo = Tail(@), !.stage = "send"]
  <2>1. stack' = Rest \/ stack' = Append(Rest, next)
    BY <1>9 DEF GoOn
  <2>2. next.op = Top.op
    BY <1>2 DEF Frame
  <2> HIDE DEF next
  <2>3. CASE stack' = Append(Rest, next)
    <3>1. stack'[1] = IF Len(stack) = 1 THEN next ELSE stack[1]
      BY <1>2, <2>3
    <3> QED
      BY <2>2, <3>1 DEF Top
  <2> QED
    BY <1>8, <2>1, <2>3
<1> QED
  BY <1>3, <1>5, <1>6, <1>7, <1>8, <1>9
  DEF Next, vars, OpenSession, TopUp, Accept, RefusePayout, RefuseWithdrawal, Tick

\* No step takes a begun settlement out of a state that may come back.
LEMMA CommitStep ==
  ASSUME EscrowInv, CommitInv, [Next]_vars
  PROVE  CommitInv'
<1> SUFFICES ASSUME stack' # << >>, stack'[1].op = "settle"
             PROVE  \E i \in Ids : ~stack'[1].before.session[i].settled /\ KeepsSettled(i)'
  BY DEF CommitInv
<1>1. CASE stack # << >>
  <2>1. stack[1].op = "settle"
    BY <1>1, OutermostStays
  <2>2. PICK i \in Ids : ~stack[1].before.session[i].settled /\ KeepsSettled(i)
    BY <1>1, <2>1 DEF CommitInv
  <2>3. Stands(i)
    BY <1>1, <2>1, <2>2, SettlementStands
  <2> QED
    BY <2>2, <2>3 DEF Stands
<1>2. CASE stack = << >>
  <2>1. CASE \E j \in Ids : Settle(j)
    <3>1. PICK j \in Ids : Settle(j)
      BY <2>1
    <3>2. session \in [Ids -> Session \cup {NoSession}]
      BY DEF EscrowInv, TypeOK, World, Now
    <3>3. session'[j].settled /\ ~session[j].settled
      <4>1. session[j] \in Session
        BY <3>1, ExistingSession DEF Settle
      <4> QED
        BY <3>1, <3>2, <4>1 DEF Settle, Session
    <3> DEFINE f == [op |-> "settle", todo |-> Payouts(session[j], clock),
                     stage |-> "send", before |-> Now, undo |-> Now]
    <3>4. stack' = << f >>
      BY <1>2, <3>1 DEF Settle, Begin
    <3>5. f.before.session = session /\ f.stage = "send"
      BY DEF Now
    <3> HIDE DEF f
    <3>6. Len(stack') = 1 /\ stack'[1] = f
      BY <3>4
    <3>7. KeepsSettled(j)'
      BY <3>3, <3>5, <3>6 DEF KeepsSettled, FrameKeeps
    <3> QED
      BY <3>3, <3>5, <3>6, <3>7
  <2>2. CASE \E a \in Accounts : Withdraw(a)
    <3>1. PICK a \in Accounts : Withdraw(a)
      BY <2>2
    <3> DEFINE f == [op |-> "withdraw", todo |-> Due(a, pending[a]),
                     stage |-> "send", before |-> Now, undo |-> Now]
    <3>2. stack' = << f >> /\ f.op = "withdraw"
      BY <1>2, <3>1 DEF Withdraw, Begin
    <3> HIDE DEF f
    <3> QED
      BY <3>2
  <2>3. CASE stack' = stack
    BY <1>2, <2>3
  <2> QED
    BY <1>2, <2>1, <2>2, <2>3
    DEF Next, vars, OpenSession, TopUp, Send, Accept, RefusePayout, RefuseWithdrawal, Tick
<1> QED
  BY <1>1, <1>2

\* A transaction that begins by settling ends with a session settled that was open
\* before, whoever refuses and whatever is called back, to any depth (lines
\* 183-204 and 267-273).
THEOREM SettleAlwaysCommitsHolds == Spec => SettleAlwaysCommits
<1>1. Init => CommitInv
  BY DEF Init, CommitInv
<1>2. EscrowInv /\ CommitInv /\ [Next]_vars => CommitInv'
  BY CommitStep
<1>3. EscrowInv /\ CommitInv /\ [Next]_vars =>
        [(stack # << >> /\ stack' = << >> /\ stack[1].op = "settle")
           => \E i \in Ids : session'[i].settled /\ ~stack[1].before.session[i].settled]_vars
  <2> SUFFICES ASSUME EscrowInv, CommitInv, [Next]_vars,
                      stack # << >>, stack' = << >>, stack[1].op = "settle"
               PROVE  \E i \in Ids : session'[i].settled /\ ~stack[1].before.session[i].settled
    OBVIOUS
  <2>1. PICK i \in Ids : ~stack[1].before.session[i].settled /\ KeepsSettled(i)
    BY DEF CommitInv
  <2>2. Stands(i)
    BY <2>1, SettlementStands
  <2> QED
    BY <2>1, <2>2 DEF Stands
<1> QED
  BY <1>1, <1>2, <1>3, EscrowInvHolds, PTL DEF Spec, SettleAlwaysCommits

-----------------------------------------------------------------------------
(* A quote never turns against either party.                               *)

\* What calls made at the instant now may make of a session.  One that was not
\* there begins now; one that was open keeps its terms and has lost neither time
\* nor money; one that was settled does not move.
Grew(old, new, now) ==
  \/ new = old
  \/ /\ old = NoSession
     /\ new \in Session
     /\ new.pricePerSecond > 0 /\ new.deposited > 0 /\ new.startTime = now
  \/ /\ old \in Session /\ ~old.settled
     /\ new \in Session
     /\ new.renter = old.renter /\ new.provider = old.provider
     /\ new.pricePerSecond = old.pricePerSecond /\ new.startTime = old.startTime
     /\ old.duration <= new.duration /\ old.deposited <= new.deposited

\* Every session of v has grown out of what it was in w.
GrewSince(w, v, now) == \A i \in Ids : Grew(w.session[i], v.session[i], now)

\* Every state that is, or that a revert may bring back.
Past == {Now} \cup {stack[k].before : k \in 1..Len(stack)}
              \cup {stack[k].undo : k \in 1..Len(stack)}

\* Whatever is refused in a transaction, no session falls behind the state the
\* transaction began in.
GrowInv == \A w \in Past : GrewSince(Committed, w, clock)

\* Every state in reach is typed, and so is the last finished transaction's.
LEMMA PastType ==
  ASSUME EscrowInv
  PROVE  /\ \A w \in Past : w \in World /\ Sound(w, clock)
         /\ Committed \in Past
<1>1. Now \in World /\ Sound(Now, clock) /\ stack \in Seq(Frame)
  BY DEF EscrowInv, TypeOK
<1>2. ASSUME NEW k \in 1..Len(stack)
      PROVE  /\ stack[k].before \in World /\ Sound(stack[k].before, clock)
             /\ stack[k].undo \in World /\ Sound(stack[k].undo, clock)
  <2>1. stack[k] \in Frame /\ SoundFrame(stack[k], clock)
    BY <1>1, <1>2 DEF EscrowInv
  <2> QED
    BY <2>1 DEF Frame, SoundFrame
<1>3. Committed \in Past
  <2>1. CASE stack = << >>
    BY <2>1 DEF Committed, Past
  <2>2. CASE stack # << >>
    <3>1. 1 \in 1..Len(stack)
      BY <1>1, <2>2
    <3> QED
      BY <2>2, <3>1 DEF Committed, Past
  <2> QED
    BY <2>1, <2>2
<1> QED
  BY <1>1, <1>2, <1>3 DEF Past

\* Growth adds up.
LEMMA GrewTransitive ==
  ASSUME NEW u \in World, NEW v \in World, NEW w \in World, NEW now,
         GrewSince(u, v, now), GrewSince(v, w, now)
  PROVE  GrewSince(u, w, now)
<1>1. ASSUME NEW a, NEW b, NEW c, Grew(a, b, now), Grew(b, c, now)
      PROVE  Grew(a, c, now)
  <2>1. NoSession \notin Session
    BY AddressAssumption DEF Session, NoSession
  <2>2. \A x \in Session : x.duration \in Nat /\ x.deposited \in Nat
    BY DEF Session
  <2>3. CASE c = b \/ b = a
    BY <1>1, <2>3
  <2>4. CASE a = NoSession /\ b \in Session /\ c # b
    BY <1>1, <2>1, <2>2, <2>4 DEF Grew
  <2>5. CASE a \in Session /\ b \in Session /\ c # b /\ b # a
    <3>1. b # NoSession /\ a # NoSession
      BY <2>1, <2>5
    <3>2. /\ ~a.settled /\ c \in Session
          /\ c.renter = a.renter /\ c.provider = a.provider
          /\ c.pricePerSecond = a.pricePerSecond /\ c.startTime = a.startTime
      BY <1>1, <2>5, <3>1 DEF Grew
    <3>3. a.duration <= c.duration /\ a.deposited <= c.deposited
      BY <1>1, <2>2, <2>5, <3>1 DEF Grew
    <3> QED
      BY <2>5, <3>2, <3>3 DEF Grew
  <2> QED
    BY <1>1, <2>3, <2>4, <2>5 DEF Grew
<1> QED
  BY <1>1 DEF GrewSince

\* A state has grown since itself, and since any with the same sessions.
LEMMA GrewSame ==
  ASSUME NEW u, NEW v, v.session = u.session, NEW now
  PROVE  GrewSince(u, v, now)
BY DEF GrewSince, Grew

\* One session written anew, grown from what it was.
LEMMA GrewWritten ==
  ASSUME EscrowInv, NEW i \in Ids, NEW s, Grew(session[i], s, clock),
         session' = [session EXCEPT ![i] = s]
  PROVE  GrewSince(Now, Now', clock)
<1>1. session \in [Ids -> Session \cup {NoSession}]
  BY DEF EscrowInv, TypeOK, World, Now
<1>2. ASSUME NEW j \in Ids PROVE Grew(session[j], session'[j], clock)
  <2>1. session'[j] = IF j = i THEN s ELSE session[j]
    BY <1>1
  <2> QED
    BY <2>1 DEF Grew
<1> QED
  BY <1>2 DEF GrewSince, Now

\* The ways a step leaves the stack, and what its frames then recall.
LEMMA StackRecalls ==
  ASSUME EscrowInv,
         \/ stack' = stack
         \/ \E f \in Frame : stack' = Append(stack, f) /\ f.before = Now /\ f.undo = Now
         \/ stack # << >> /\ stack' = Rest
         \/ /\ stack # << >>
            /\ \E f \in Frame :
                 /\ stack' = Append(Rest, f) \/ stack' = [stack EXCEPT ![Len(stack)] = f]
                 /\ f.before = Top.before /\ f.undo \in {Top.undo, Now}
  PROVE  /\ \A k \in 1..Len(stack') : stack'[k].before \in Past /\ stack'[k].undo \in Past
         /\ stack' # << >> /\ stack # << >> => stack'[1].before = Committed
         /\ stack' # << >> /\ stack = << >> => stack'[1].before = Now
<1>1. stack \in Seq(Frame) /\ Len(stack) \in Nat
  BY DEF EscrowInv, TypeOK
<1>2. \A k \in 1..Len(stack) : stack[k].before \in Past /\ stack[k].undo \in Past
  BY DEF Past
<1>3. Now \in Past
  BY DEF Past
<1> HIDE DEF Past
<1>4. stack # << >> =>
        /\ Len(stack) \in Nat \ {0} /\ Rest \in Seq(Frame) /\ Len(Rest) = Len(stack) - 1
        /\ \A k \in 1..Len(Rest) : Rest[k] = stack[k]
        /\ Committed = stack[1].before
        /\ Top = stack[Len(stack)]
  BY <1>1, TopAndRest DEF Committed, Top
<1>5. CASE stack' = stack
  BY <1>1, <1>2, <1>4, <1>5
<1>6. ASSUME NEW f \in Frame, stack' = Append(stack, f), f.before = Now, f.undo = Now
      PROVE  /\ \A k \in 1..Len(stack') : stack'[k].before \in Past /\ stack'[k].undo \in Past
             /\ stack # << >> => stack'[1].before = Committed
             /\ stack = << >> => stack'[1].before = Now
  <2>1. /\ Len(stack') = Len(stack) + 1
        /\ \A k \in 1..Len(stack') : stack'[k] = IF k = Len(stack) + 1 THEN f ELSE stack[k]
    BY <1>1, <1>6
  <2>2. \A k \in 1..Len(stack') : stack'[k].before \in Past /\ stack'[k].undo \in Past
    BY <1>1, <1>2, <1>3, <1>6, <2>1
  <2>3. CASE stack # << >>
    BY <1>4, <2>1, <2>2, <2>3
  <2>4. CASE stack = << >>
    <3>1. Len(stack) = 0
      BY <2>4
    <3> QED
      BY <1>6, <2>1, <2>2, <2>4, <3>1
  <2> QED
    BY <2>3, <2>4
<1>7. CASE stack # << >> /\ stack' = Rest
  <2>1. ASSUME Rest # << >> PROVE Rest[1] = stack[1]
    <3>1. Len(Rest) # 0
      BY <1>4, <1>7, <2>1
    <3> QED
      BY <1>4, <1>7, <3>1
  <2> QED
    BY <1>2, <1>4, <1>7, <2>1
<1>8. ASSUME stack # << >>, NEW f \in Frame,
             stack' = Append(Rest, f) \/ stack' = [stack EXCEPT ![Len(stack)] = f],
             f.before = Top.before, f.undo \in {Top.undo, Now}
      PROVE  /\ \A k \in 1..Len(stack') : stack'[k].before \in Past /\ stack'[k].undo \in Past
             /\ stack'[1].before = Committed
  <2>1. /\ Len(stack') = Len(stack)
        /\ \A k \in 1..Len(stack') : stack'[k] = IF k = Len(stack) THEN f ELSE stack[k]
    <3>1. CASE stack' = Append(Rest, f)
      BY <1>1, <1>4, <1>8, <3>1
    <3>2. CASE stack' = [stack EXCEPT ![Len(stack)] = f]
      BY <1>1, <1>4, <1>8, <3>2
    <3> QED
      BY <1>8, <3>1, <3>2
  <2>2. f.before \in Past /\ f.undo \in Past
    BY <1>2, <1>3, <1>4, <1>8
  <2>3. \A k \in 1..Len(stack') : stack'[k].before \in Past /\ stack'[k].undo \in Past
    BY <1>2, <2>1, <2>2
  <2>4. stack'[1].before = Committed
    BY <1>4, <1>8, <2>1
  <2> QED
    BY <2>3, <2>4
<1> QED
  BY <1>5, <1>6, <1>7, <1>8

\* Turning to the next payout, or returning, is one of those ways.
LEMMA GoOnRecalls ==
  ASSUME EscrowInv, stack # << >>, GoOn
  PROVE  \/ stack' = Rest
         \/ \E f \in Frame : stack' = Append(Rest, f) /\ f.before = Top.before /\ f.undo = Top.undo
<1> DEFINE next == [Top EXCEPT !.todo = Tail(@), !.stage = "send"]
<1>1. Len(stack) \in Nat \ {0} /\ Top \in Frame
  BY TopAndRest DEF EscrowInv, TypeOK
<1>2. SoundFrame(Top, clock)
  BY <1>1 DEF EscrowInv, Top
<1>3. CASE Len(Top.todo) > 1
  <2>1. Top.todo \in Seq(Payout) /\ Top.todo # << >>
    BY <1>1, <1>2 DEF Frame, SoundFrame
  <2>2. Tail(Top.todo) \in Seq(Payout)
    BY <2>1, <1>3, TailOfPayouts
  <2>3. next \in Frame /\ next.before = Top.before /\ next.undo = Top.undo
    BY <1>1, <2>2 DEF Frame
  <2>4. stack' = Append(Rest, next)
    BY <1>3 DEF GoOn
  <2> HIDE DEF next
  <2> QED
    BY <2>3, <2>4
<1>4. CASE ~(Len(Top.todo) > 1)
  BY <1>4 DEF GoOn
<1> QED
  BY <1>3, <1>4

\* What a step does to the sessions, and to what may yet be brought back: they
\* grow out of a state in reach, and a transaction under way goes on from where
\* it began.
Grows ==
  /\ \E w \in Past : GrewSince(w, Now', clock)
  /\ \A k \in 1..Len(stack') : stack'[k].before \in Past /\ stack'[k].undo \in Past
  /\ stack' # << >> /\ stack # << >> => stack'[1].before = Committed
  /\ stack' # << >> /\ stack = << >> => stack'[1].before = Now

\* Each call, each turn of a payout and the clock let sessions grow only.
LEMMA CallGrows ==
  ASSUME EscrowInv,
         \/ \E caller \in Accounts, i \in Ids, provider \in Accounts \cup {ZeroAddress},
               price \in Prices, duration \in Durations, paid \in Payable :
              OpenSession(caller, i, provider, price, duration, paid)
         \/ \E i \in Ids, added \in Durations, paid \in Payable : TopUp(i, added, paid)
         \/ \E i \in Ids : Settle(i)
         \/ \E a \in Accounts : Withdraw(a)
  PROVE  Grows
<1>1. Now \in World /\ Now \in Past /\ clock \in Nat
  BY DEF EscrowInv, TypeOK, Past
<1>2. CASE \E caller \in Accounts, i \in Ids, provider \in Accounts \cup {ZeroAddress},
              price \in Prices, duration \in Durations, paid \in Payable :
             OpenSession(caller, i, provider, price, duration, paid)
  <2>1. PICK caller \in Accounts, i \in Ids, provider \in Accounts \cup {ZeroAddress},
             price \in Prices, duration \in Durations, paid \in Payable :
          OpenSession(caller, i, provider, price, duration, paid)
    BY <1>2
  <2> DEFINE s == [renter |-> caller, provider |-> provider, pricePerSecond |-> price,
                   startTime |-> clock, duration |-> duration, deposited |-> paid,
                   settled |-> FALSE]
  <2>2. ~Exists(i) /\ session' = [session EXCEPT ![i] = s] /\ stack' = stack
    BY <2>1 DEF OpenSession
  <2>3. session[i] = NoSession
    BY <2>2, ExistingSession
  <2>4. Grew(NoSession, s, clock)
    <3>1. price \in Nat /\ price # 0 /\ provider \in Accounts /\ duration \in Nat /\ duration # 0
      BY <2>1, AmountAssumption DEF OpenSession
    <3>2. paid \in Nat /\ paid > 0
      <4>1. paid = price * duration
        BY <2>1 DEF OpenSession
      <4>2. \A m, n \in Nat \ {0} : m * n \in Nat /\ m * n > 0
        OBVIOUS
      <4> QED
        BY <3>1, <4>1, <4>2
    <3>3. s \in Session
      BY <1>1, <3>1, <3>2 DEF Session
    <3>4. s.pricePerSecond > 0 /\ s.deposited > 0 /\ s.startTime = clock
      BY <3>1, <3>2
    <3> HIDE DEF s
    <3> QED
      BY <3>3, <3>4 DEF Grew
  <2> HIDE DEF s
  <2>5. Grew(session[i], s, clock)
    BY <2>3, <2>4
  <2> QED
    BY <1>1, <2>2, <2>5, GrewWritten, StackRecalls DEF Grows
<1>3. CASE \E i \in Ids, added \in Durations, paid \in Payable : TopUp(i, added, paid)
  <2>1. PICK i \in Ids, added \in Durations, paid \in Payable : TopUp(i, added, paid)
    BY <1>3
  <2> DEFINE old == session[i]
             s == [old EXCEPT !.duration = @ + added, !.deposited = @ + paid]
  <2>2. old \in Session /\ ~old.settled /\ added \in Nat /\ paid \in Nat
    <3>1. old \in Session /\ ~old.settled
      BY <2>1, ExistingSession DEF TopUp
    <3>2. balance \in Nat
      BY <1>1 DEF World, Now
    <3> HIDE DEF old
    <3> QED
      BY <3>1, <3>2, AmountAssumption DEF Payable
  <2>3. Grew(old, s, clock)
    <3>1. /\ s.duration = old.duration + added /\ s.deposited = old.deposited + paid
          /\ s.pricePerSecond = old.pricePerSecond /\ s.provider = old.provider
          /\ s.startTime = old.startTime /\ s.renter = old.renter
          /\ old.duration \in Nat /\ old.deposited \in Nat
      BY <2>2 DEF Session
    <3>2. s \in Session
      <4>1. ASSUME NEW m \in Nat, NEW n \in Nat
            PROVE  [old EXCEPT !.duration = m, !.deposited = n] \in Session
        BY <2>2, <4>1 DEF Session
      <4>2. old.duration + added \in Nat /\ old.deposited + paid \in Nat
        BY <2>2, <3>1
      <4> HIDE DEF old
      <4> QED
        BY <4>1, <4>2
    <3> HIDE DEF s, old
    <3> QED
      BY <2>2, <3>1, <3>2 DEF Grew
  <2>4. session' = [session EXCEPT ![i] = s] /\ stack' = stack
    BY <2>1 DEF TopUp
  <2> HIDE DEF s
  <2> QED
    BY <1>1, <2>3, <2>4, GrewWritten, StackRecalls DEF Grows
<1>4. ASSUME NEW op \in {"settle", "withdraw"}, NEW todo \in Seq(Payout), Begin(op, todo)
      PROVE  \E f \in Frame : stack' = Append(stack, f) /\ f.before = Now /\ f.undo = Now
  <2> DEFINE f == [op |-> op, todo |-> todo, stage |-> "send", before |-> Now, undo |-> Now]
  <2>1. f \in Frame
    BY <1>1 DEF Frame
  <2>2. stack' = Append(stack, f)
    BY <1>4 DEF Begin
  <2> QED
    BY <2>1, <2>2
<1>5. CASE \E i \in Ids : Settle(i)
  <2>1. PICK i \in Ids : Settle(i)
    BY <1>5
  <2> DEFINE old == session[i]
             s == [old EXCEPT !.settled = TRUE]
  <2>2. old \in Session /\ old.deposited # 0 /\ SoundSession(old, clock)
    BY <2>1, ExistingSession DEF Settle
  <2>3. Payouts(old, clock) \in Seq(Payout)
    BY <1>1, <2>2, PayoutsType DEF SoundSession
  <2>4. Grew(old, s, clock)
    <3>1. ~old.settled
      BY <2>1 DEF Settle
    <3>2. /\ s.duration = old.duration /\ s.deposited = old.deposited
          /\ s.pricePerSecond = old.pricePerSecond /\ s.provider = old.provider
          /\ s.startTime = old.startTime /\ s.renter = old.renter /\ s \in Session
          /\ old.duration \in Nat /\ old.deposited \in Nat
      BY <2>2 DEF Session
    <3> HIDE DEF s, old
    <3> QED
      BY <2>2, <3>1, <3>2 DEF Grew
  <2>5. session' = [session EXCEPT ![i] = s] /\ Begin("settle", Payouts(old, clock))
    BY <2>1 DEF Settle
  <2>6. \E f \in Frame : stack' = Append(stack, f) /\ f.before = Now /\ f.undo = Now
    BY <1>4, <2>3, <2>5
  <2>7. GrewSince(Now, Now', clock)
    <3> HIDE DEF s
    <3> QED
      BY <2>4, <2>5, GrewWritten
  <2> QED
    BY <1>1, <2>6, <2>7, StackRecalls DEF Grows
<1>6. CASE \E a \in Accounts : Withdraw(a)
  <2>1. PICK a \in Accounts : Withdraw(a)
    BY <1>6
  <2>2. Due(a, pending[a]) \in Seq(Payout)
    <3>1. pending[a] \in Nat \ {0}
      BY <1>1, <2>1 DEF World, Now, Withdraw
    <3>2. [to |-> a, amount |-> pending[a]] \in Payout
      BY <3>1 DEF Payout
    <3> QED
      BY <3>1, <3>2 DEF Due
  <2>3. \E f \in Frame : stack' = Append(stack, f) /\ f.before = Now /\ f.undo = Now
    BY <1>4, <2>1, <2>2 DEF Withdraw
  <2>4. Now'.session = Now.session
    BY <2>1 DEF Withdraw, Now
  <2>5. GrewSince(Now, Now', clock)
    BY <1>1, <2>4, GrewSame
  <2> QED
    BY <1>1, <2>3, <2>5, StackRecalls DEF Grows
<1> QED
  BY <1>2, <1>3, <1>5, <1>6

LEMMA PayoutGrows ==
  ASSUME EscrowInv, Send \/ Accept \/ RefusePayout \/ RefuseWithdrawal
  PROVE  Grows
<1>1. Now \in World /\ Now \in Past /\ stack \in Seq(Frame)
  BY DEF EscrowInv, TypeOK, Past
<1>2. stack # << >> /\ Len(stack) \in Nat \ {0} /\ Top \in Frame
  BY <1>1, TopAndRest DEF Send, Accept, RefusePayout, RefuseWithdrawal
<1>3. Top.before \in Past /\ Top.undo \in Past /\ Top.before \in World /\ Top.undo \in World
  <2>1. Len(stack) \in 1..Len(stack)
    BY <1>2
  <2> QED
    BY <1>2, <2>1 DEF Top, Past, Frame
<1>4. CASE Send
  <2> DEFINE f == [Top EXCEPT !.stage = "called", !.undo = Now]
  <2>1. f \in Frame /\ f.before = Top.before /\ f.undo = Now
    BY <1>1, <1>2 DEF Frame
  <2>2. stack' = [stack EXCEPT ![Len(stack)] = f] /\ Now'.session = Now.session
    BY <1>4 DEF Send, Top, Now
  <2> HIDE DEF f
  <2>3. GrewSince(Now, Now', clock)
    BY <1>1, <2>2, GrewSame
  <2> QED
    BY <1>1, <1>2, <2>1, <2>2, <2>3, StackRecalls DEF Grows
<1>5. CASE Accept
  <2>1. GrewSince(Now, Now', clock)
    BY <1>1, <1>5, GrewSame DEF Accept, ledger, Now
  <2> QED
    BY <1>1, <1>2, <1>5, <2>1, GoOnRecalls, StackRecalls DEF Grows, Accept
<1>6. CASE RefusePayout
  <2>1. AsBeforeCall \in Past /\ AsBeforeCall \in World
    BY <1>1, <1>3 DEF AsBeforeCall
  <2>2. Now'.session = AsBeforeCall.session
    BY <1>6, <2>1 DEF RefusePayout, Restore, World, Now
  <2>3. GrewSince(AsBeforeCall, Now', clock)
    BY <2>1, <2>2, GrewSame
  <2> QED
    BY <1>2, <1>6, <2>1, <2>3, GoOnRecalls, StackRecalls DEF Grows, RefusePayout
<1>7. CASE RefuseWithdrawal
  <2>1. Now'.session = Top.before.session /\ stack' = Rest
    BY <1>7 DEF RefuseWithdrawal, Restore, Now
  <2>2. GrewSince(Top.before, Now', clock)
    BY <1>3, <2>1, GrewSame
  <2> QED
    BY <1>2, <1>3, <2>1, <2>2, StackRecalls DEF Grows
<1> QED
  BY <1>4, <1>5, <1>6, <1>7

LEMMA StepGrows ==
  ASSUME EscrowInv, [Next]_vars
  PROVE  Grows
<1>1. Now \in World /\ Now \in Past
  BY DEF EscrowInv, TypeOK, Past
<1>2. CASE Tick \/ UNCHANGED vars
  <2>1. Now' = Now /\ stack' = stack
    BY <1>2 DEF Tick, ledger, vars, Now
  <2>2. GrewSince(Now, Now', clock)
    BY <1>1, <2>1, GrewSame
  <2> QED
    BY <1>1, <2>1, <2>2, StackRecalls DEF Grows
<1> QED
  BY <1>2, CallGrows, PayoutGrows DEF Next

\* Between transactions the sessions only grow, and inside one they never fall
\* behind where it began.
LEMMA GrowStep ==
  ASSUME EscrowInv, EscrowInv', GrowInv, [Next]_vars
  PROVE  /\ GrewSince(Committed, Committed', clock)
         /\ stack' = << >> => Committed' = Now'
         /\ stack' # << >> => Committed' = Committed
         /\ GrowInv'
<1>1. Grows
  BY StepGrows
<1>2. /\ Committed \in World /\ Now' \in World
      /\ \A w \in Past : w \in World /\ GrewSince(Committed, w, clock)
  BY PastType DEF EscrowInv, TypeOK, GrowInv
<1>3. GrewSince(Committed, Now', clock)
  <2>1. PICK w \in Past : GrewSince(w, Now', clock)
    BY <1>1 DEF Grows
  <2> QED
    BY <1>2, <2>1, GrewTransitive
<1>4. \A w \in Past' : GrewSince(Committed, w, clock)
  BY <1>1, <1>2, <1>3 DEF Past, Grows
<1>5. CASE stack' = << >>
  <2>1. Committed' = Now' /\ Past' = {Now'}
    BY <1>5 DEF Committed, Past
  <2>2. GrewSince(Now', Now', clock')
    BY GrewSame
  <2> QED
    BY <1>3, <1>5, <2>1, <2>2 DEF GrowInv
<1>6. CASE stack' # << >>
  <2>1. Committed' = Committed
    <3>1. CASE stack # << >>
      BY <1>1, <1>6, <3>1 DEF Grows, Committed
    <3>2. CASE stack = << >>
      BY <1>1, <1>6, <3>2 DEF Grows, Committed
    <3> QED
      BY <3>1, <3>2
  <2>2. GrewSince(Committed, Committed, clock)
    BY GrewSame
  <2>3. clock' = clock
    BY <1>6 DEF Next, vars, OpenSession, TopUp, Settle, Withdraw, Send, Accept, RefusePayout,
       RefuseWithdrawal, Tick
  <2> QED
    BY <1>4, <1>6, <2>1, <2>2, <2>3 DEF GrowInv
<1> QED
  BY <1>5, <1>6

\* The shares of a session that has grown, and of one that only got older.
LEMMA SharesGrow ==
  ASSUME NEW old \in Session, NEW new \in Session, NEW now \in Nat, NEW later \in Nat,
         BuysItsTime(old), BuysItsTime(new), Grew(old, new, now),
         old.startTime <= now, now <= later
  PROVE  /\ ProviderAmount(new, later) >= ProviderAmount(old, now)
         /\ later = now => RefundAmount(new, later) >= RefundAmount(old, now)
<1> DEFINE p == old.pricePerSecond
           e == Elapsed(old, now)
           f == Elapsed(new, later)
           d == old.duration
           g == new.duration
<1>1. /\ p \in Nat /\ d \in Nat /\ g \in Nat /\ d <= g /\ old.startTime \in Nat
      /\ new.pricePerSecond = p /\ new.startTime = old.startTime
      /\ old.deposited = p * d /\ new.deposited = p * g
  <2>1. old # NoSession
    BY AddressAssumption DEF Session, NoSession
  <2> QED
    BY <2>1 DEF Session, Grew, BuysItsTime
<1>2. /\ e \in Nat /\ f \in Nat /\ e <= f /\ e <= d /\ f <= g
      /\ later = now => d - e <= g - f
  BY <1>1 DEF Elapsed
<1>3. ASSUME NEW m \in Nat, NEW n \in Nat, m <= n
      PROVE  p * m \in Nat /\ p * n \in Nat /\ p * m <= p * n
  BY <1>1, <1>3
<1>4. ProviderAmount(old, now) = p * e /\ ProviderAmount(new, later) = p * f
  BY <1>1 DEF ProviderAmount
<1>5. RefundAmount(old, now) = p * d - p * e /\ RefundAmount(new, later) = p * g - p * f
  BY <1>1, <1>4 DEF RefundAmount
<1> HIDE DEF p, e, f, d, g
<1>6. p * e <= p * f /\ p * e \in Nat /\ p * f \in Nat
  BY <1>2, <1>3
<1>7. p * d - p * e = p * (d - e) /\ p * g - p * f = p * (g - f)
  BY <1>1, <1>2
<1>8. later = now => p * (d - e) \in Nat /\ p * (g - f) \in Nat /\ p * (d - e) <= p * (g - f)
  BY <1>1, <1>2, <1>3
<1> QED
  BY <1>4, <1>5, <1>6, <1>7, <1>8

\* What a session that stays open would be split into never turns against either
\* party, in any order of calls, refusals and callbacks to any depth.
THEOREM QuoteIsMonotoneHolds == Spec => QuoteIsMonotone
<1>1. Init => GrowInv
  <2> SUFFICES ASSUME Init PROVE GrewSince(Committed, Now, clock) /\ Past = {Now}
    BY DEF GrowInv
  <2>1. stack = << >> /\ Committed = Now /\ Now \in World
    BY DEF Init, Committed, Now, World
  <2> QED
    BY <2>1, GrewSame DEF Past
<1>2. EscrowInv /\ EscrowInv' /\ GrowInv /\ [Next]_vars => GrowInv'
  BY GrowStep
<1>3. EscrowInv /\ EscrowInv' /\ GrowInv /\ [Next]_vars =>
        [\A i \in Ids :
           LET old == Committed.session[i]
               new == Committed'.session[i]
           IN  (old # NoSession /\ ~old.settled /\ ~new.settled) =>
                 /\ ProviderAmount(new, clock') >= ProviderAmount(old, clock)
                 /\ clock' = clock => RefundAmount(new, clock') >= RefundAmount(old, clock)]_vars
  <2> SUFFICES ASSUME EscrowInv, EscrowInv', GrowInv, [Next]_vars, NEW i \in Ids,
                      Committed.session[i] # NoSession
               PROVE  LET old == Committed.session[i]
                          new == Committed'.session[i]
                      IN  /\ ProviderAmount(new, clock') >= ProviderAmount(old, clock)
                          /\ clock' = clock =>
                               RefundAmount(new, clock') >= RefundAmount(old, clock)
    OBVIOUS
  <2> DEFINE old == Committed.session[i]
             new == Committed'.session[i]
  <2>1. Grew(old, new, clock)
    BY GrowStep DEF GrewSince
  <2>2. Committed \in World /\ Sound(Committed, clock)
    BY PastType
  <2>3. Committed' \in World /\ BuysItsTime(new)
    <3>1. CASE Committed' = Committed
      BY <2>2, <3>1 DEF Sound, SoundSession
    <3>2. CASE Committed' = Now'
      BY <3>2 DEF EscrowInv, TypeOK, Sound, SoundSession
    <3>3. Committed' = Committed \/ Committed' = Now'
      BY GrowStep
    <3> QED
      BY <3>1, <3>2, <3>3
  <2>4. old \in Session /\ new \in Session
    <3>1. old \in Session
      BY <2>2 DEF World
    <3>2. NoSession \notin Session
      BY AddressAssumption DEF Session, NoSession
    <3> QED
      BY <2>1, <3>1, <3>2 DEF Grew
  <2>5. BuysItsTime(old) /\ old.startTime <= clock
    BY <2>2 DEF Sound, SoundSession
  <2>6. clock \in Nat /\ clock' \in Nat /\ clock <= clock'
    <3>1. clock' = clock \/ clock' = clock + 1
      BY DEF Next, vars, OpenSession, TopUp, Settle, Withdraw, Send, Accept, RefusePayout,
         RefuseWithdrawal, Tick
    <3>2. clock \in Nat
      BY DEF EscrowInv, TypeOK
    <3> QED
      BY <3>1, <3>2
  <2> HIDE DEF old, new
  <2>7. /\ ProviderAmount(new, clock') >= ProviderAmount(old, clock)
        /\ clock' = clock => RefundAmount(new, clock') >= RefundAmount(old, clock)
    BY <2>1, <2>3, <2>4, <2>5, <2>6, SharesGrow
  <2> QED
    BY <2>7 DEF old, new
<1> QED
  BY <1>1, <1>2, <1>3, EscrowInvHolds, PTL DEF Spec, QuoteIsMonotone
-----------------------------------------------------------------------------
(* The books.  A book puts a number on a state of the contract, and a part *)
(* is what one payout takes out of that number when it is made or kept.    *)
(* From the state a call began in to the one the next call began in, a     *)
(* book moves by what the frame of that call has still to hand over.       *)

\* What a list of payouts takes out of a book.
Total(part, todo) == SumFunction([k \in DOMAIN todo |-> part[todo[k]]])

\* What a frame has not handed over yet.
Left(frame) == IF frame.stage = "send" THEN frame.todo ELSE Tail(frame.todo)

\* The state that call k + 1 began in, the present one if there is none.
StateAfter(s, w, k) == IF k + 1 <= Len(s) THEN s[k + 1].before ELSE w

\* The book of every state a call began in, and of every state a failed payout
\* restores, differs from the book before by what the call has yet to hand over.
Chain(book, part, base, s, w) ==
  /\ book[StateAfter(s, w, 0)] = base
  /\ \A k \in 1..Len(s) :
       /\ book[StateAfter(s, w, k)] = book[s[k].before] + Total(part, Left(s[k]))
       /\ s[k].stage = "called" =>
            book[s[k].undo] = book[s[k].before] + Total(part, s[k].todo)

\* Payout p is handed over, or kept for its recipient, between w and v.
HandsOver(w, v, p) ==
  /\ v.session = w.session /\ v.pending = w.pending
  /\ v.balance = w.balance - p.amount
  /\ v.received = [w.received EXCEPT ![p.to] = @ + p.amount]

KeepsFor(w, v, p) ==
  /\ v.session = w.session /\ v.balance = w.balance /\ v.received = w.received
  /\ v.pending = [w.pending EXCEPT ![p.to] = @ + p.amount]

\* Either way its part goes out of the book.
Pays(book, part) ==
  \A w \in World, v \in World, p \in Payout :
    HandsOver(w, v, p) \/ KeepsFor(w, v, p) => book[v] = book[w] - part[p]

\* The first payout, and what is left after it.
LEMMA TotalUnfolds ==
  ASSUME NEW part \in [Payout -> Int], NEW todo \in Seq(Payout), todo # << >>
  PROVE  /\ Total(part, todo) = part[Head(todo)] + Total(part, Tail(todo))
         /\ part[Head(todo)] \in Int /\ Total(part, Tail(todo)) \in Int
         /\ Len(todo) = 1 => Total(part, Tail(todo)) = 0
<1> DEFINE n == Len(todo) - 1
           f == [k \in DOMAIN todo |-> part[todo[k]]]
           g == [k \in DOMAIN Tail(todo) |-> part[Tail(todo)[k]]]
<1>1. n \in Nat /\ DOMAIN todo = 1..(n + 1) /\ todo[1] = Head(todo) /\ Head(todo) \in Payout
  OBVIOUS
<1>2. DOMAIN Tail(todo) = 1..n /\ \A k \in 1..n : Tail(todo)[k] = todo[k + 1]
  BY HeadTailProperties
<1>3. \A k \in 1..(n + 1) : f[k] \in Int /\ todo[k] \in Payout
  BY <1>1
<1>4. \A k \in 1..n : k + 1 \in 1..(n + 1) /\ g[k] = f[k + 1]
  BY <1>1, <1>2
<1>5. f[1] = part[Head(todo)] /\ part[Head(todo)] \in Int
  BY <1>1
<1>6. Total(part, todo) = SumFunctionOnSet(f, 1..(n + 1))
  BY <1>1 DEF Total, SumFunction
<1>7. Total(part, Tail(todo)) = SumFunctionOnSet(g, 1..n)
  BY <1>2 DEF Total, SumFunction
<1> HIDE DEF n, f, g
<1>8. SumFunctionOnSet(f, 1..(n + 1)) = f[1] + SumFunctionOnSet(g, 1..n)
  BY <1>1, <1>3, <1>4, SumShift
<1>9. SumFunctionOnSet(g, 1..n) \in Int
  <2>1. IsFiniteSet(1..n)
    <3>1. 1 \in Int /\ n \in Int
      BY <1>1
    <3> QED
      BY <3>1, FS_Interval
  <2>2. \A k \in 1..n : g[k] \in Int
    BY <1>3, <1>4
  <2> QED
    BY <2>1, <2>2, SumInt
<1>10. Len(todo) = 1 => SumFunctionOnSet(g, 1..n) = 0
  <2>1. Len(todo) = 1 => 1..n = {}
    BY DEF n
  <2> QED
    BY <2>1, SumEmpty
<1> QED
  BY <1>5, <1>6, <1>7, <1>8, <1>9, <1>10

\* The ways a stack changes, and what the books must do for the chain to hold.
LEMMA ChainSame ==
  ASSUME NEW s \in Seq(Frame), NEW w, NEW v, NEW book, NEW part, NEW base,
         Chain(book, part, base, s, w), book[v] = book[w]
  PROVE  Chain(book, part, base, s, v)
BY DEF Chain, StateAfter

\* A call that begins adds what it has to hand over to the book of the state it made.
LEMMA ChainPush ==
  ASSUME NEW s \in Seq(Frame), NEW w, NEW v, NEW book, NEW part, NEW base,
         Chain(book, part, base, s, w), NEW f \in Frame, f.before = w, f.stage = "send",
         book[v] = book[w] + Total(part, f.todo)
  PROVE  Chain(book, part, base, Append(s, f), v)
<1> DEFINE t == Append(s, f)
<1>1. /\ t \in Seq(Frame) /\ Len(t) = Len(s) + 1 /\ Len(s) \in Nat /\ t[Len(t)] = f
      /\ \A k \in 1..Len(s) : t[k] = s[k]
  OBVIOUS
<1> HIDE DEF t
<1>2. StateAfter(t, v, 0) = StateAfter(s, w, 0)
  BY <1>1 DEF StateAfter
<1>3. ASSUME NEW k \in 1..Len(s) PROVE StateAfter(t, v, k) = StateAfter(s, w, k)
  <2>1. k + 1 \in 1..Len(s) \/ k + 1 = Len(t)
    BY <1>1
  <2> QED
    BY <1>1, <2>1 DEF StateAfter
<1>4. StateAfter(t, v, Len(t)) = v /\ Left(f) = f.todo
  BY <1>1 DEF StateAfter, Left
<1>5. ASSUME NEW k \in 1..Len(t)
      PROVE  /\ book[StateAfter(t, v, k)] = book[t[k].before] + Total(part, Left(t[k]))
             /\ t[k].stage = "called" =>
                  book[t[k].undo] = book[t[k].before] + Total(part, t[k].todo)
  <2>1. CASE k \in 1..Len(s)
    BY <1>1, <1>3, <2>1 DEF Chain
  <2>2. CASE k = Len(t)
    BY <1>1, <1>4, <2>2
  <2> QED
    BY <1>1, <2>1, <2>2
<1> QED
  BY <1>2, <1>5 DEF Chain, t

\* A stack without its top frame.
LEMMA ButLast ==
  ASSUME NEW s \in Seq(Frame), s # << >>
  PROVE  LET r == SubSeq(s, 1, Len(s) - 1)
         IN  /\ r \in Seq(Frame) /\ Len(r) = Len(s) - 1 /\ Len(s) \in Nat \ {0}
             /\ \A k \in 1..Len(r) : r[k] = s[k]
<1> DEFINE r == SubSeq(s, 1, Len(s) - 1)
<1>1. r = [k \in 1..(Len(s) - 1) |-> s[k]] /\ Len(s) \in Nat \ {0}
  OBVIOUS
<1> HIDE DEF r
<1>2. r \in Seq(Frame) /\ Len(r) = Len(s) - 1 /\ \A k \in 1..Len(r) : r[k] = s[k]
  BY <1>1
<1> QED
  BY <1>1, <1>2 DEF r

\* A call that is over leaves no mark on the book of the call around it.
LEMMA ChainPop ==
  ASSUME NEW s \in Seq(Frame), s # << >>, NEW w, NEW v, NEW book, NEW part, NEW base,
         Chain(book, part, base, s, w), book[v] = book[s[Len(s)].before]
  PROVE  Chain(book, part, base, SubSeq(s, 1, Len(s) - 1), v)
<1> DEFINE t == SubSeq(s, 1, Len(s) - 1)
<1>1. /\ t \in Seq(Frame) /\ Len(t) = Len(s) - 1 /\ Len(s) \in Nat \ {0}
      /\ \A k \in 1..Len(t) : t[k] = s[k]
  BY ButLast
<1> HIDE DEF t
<1>2. ASSUME NEW k \in 0..Len(t) PROVE book[StateAfter(t, v, k)] = book[StateAfter(s, w, k)]
  <2>1. k + 1 \in 1..Len(t) \/ k + 1 = Len(s)
    BY <1>1
  <2>2. k + 1 <= Len(s)
    BY <1>1
  <2>3. CASE k + 1 \in 1..Len(t)
    BY <1>1, <2>2, <2>3 DEF StateAfter
  <2>4. CASE k + 1 = Len(s)
    BY <1>1, <2>4 DEF StateAfter
  <2> QED
    BY <2>1, <2>3, <2>4
<1>3. ASSUME NEW k \in 1..Len(t)
      PROVE  /\ book[StateAfter(t, v, k)] = book[t[k].before] + Total(part, Left(t[k]))
             /\ t[k].stage = "called" =>
                  book[t[k].undo] = book[t[k].before] + Total(part, t[k].todo)
  <2>1. t[k] = s[k] /\ k \in 1..Len(s) /\ k \in 0..Len(t)
    BY <1>1
  <2> QED
    BY <1>2, <2>1 DEF Chain
<1>4. 0 \in 0..Len(t)
  BY <1>1
<1> QED
  BY <1>2, <1>3, <1>4 DEF Chain, t

\* The top frame may hand over, as long as the book moves with what it has left.
LEMMA ChainTop ==
  ASSUME NEW s \in Seq(Frame), s # << >>, NEW w, NEW v, NEW book, NEW part, NEW base,
         Chain(book, part, base, s, w), NEW f \in Frame, f.before = s[Len(s)].before,
         book[v] = book[f.before] + Total(part, Left(f)),
         f.stage = "called" => book[f.undo] = book[f.before] + Total(part, f.todo),
         NEW t, \/ t = Append(SubSeq(s, 1, Len(s) - 1), f)
                \/ t = [s EXCEPT ![Len(s)] = f]
  PROVE  Chain(book, part, base, t, v)
<1>1. /\ Len(t) = Len(s) /\ Len(s) \in Nat \ {0} /\ t[Len(s)] = f
      /\ \A k \in 1..Len(s) : k # Len(s) => t[k] = s[k]
  <2>1. CASE t = Append(SubSeq(s, 1, Len(s) - 1), f)
    <3> DEFINE r == SubSeq(s, 1, Len(s) - 1)
    <3>1. /\ r \in Seq(Frame) /\ Len(r) = Len(s) - 1 /\ Len(s) \in Nat \ {0}
          /\ \A k \in 1..Len(r) : r[k] = s[k]
      BY ButLast
    <3> HIDE DEF r
    <3>2. t = Append(r, f)
      BY <2>1 DEF r
    <3> QED
      BY <3>1, <3>2
  <2>2. CASE t = [s EXCEPT ![Len(s)] = f]
    BY <2>2
  <2> QED
    BY <2>1, <2>2
<1>2. ASSUME NEW k \in 0..(Len(s) - 1) PROVE StateAfter(t, v, k) = StateAfter(s, w, k)
  <2>1. k + 1 \in 1..Len(s) /\ k + 1 <= Len(s)
    BY <1>1
  <2> QED
    BY <1>1, <2>1 DEF StateAfter
<1>3. StateAfter(t, v, Len(s)) = v
  BY <1>1 DEF StateAfter
<1>4. ASSUME NEW k \in 1..Len(t)
      PROVE  /\ book[StateAfter(t, v, k)] = book[t[k].before] + Total(part, Left(t[k]))
             /\ t[k].stage = "called" =>
                  book[t[k].undo] = book[t[k].before] + Total(part, t[k].todo)
  <2>1. CASE k # Len(s)
    <3>1. k \in 0..(Len(s) - 1) /\ t[k] = s[k] /\ k \in 1..Len(s)
      BY <1>1, <2>1
    <3> QED
      BY <1>2, <3>1 DEF Chain
  <2>2. CASE k = Len(s)
    BY <1>1, <1>3, <2>2
  <2> QED
    BY <2>1, <2>2
<1>5. 0 \in 0..(Len(s) - 1)
  BY <1>1
<1> QED
  BY <1>2, <1>4, <1>5 DEF Chain
\* A call that pays nothing out leaves the books as they are; one that does has
\* to put what it owes into them.
BooksKept(book, part) ==
  /\ \A caller \in Accounts, i \in Ids, provider \in Accounts \cup {ZeroAddress},
        price \in Prices, duration \in Durations, paid \in Payable :
       OpenSession(caller, i, provider, price, duration, paid) => book[Now'] = book[Now]
  /\ \A i \in Ids, added \in Durations, paid \in Payable :
       TopUp(i, added, paid) => book[Now'] = book[Now]
  /\ \A i \in Ids :
       Settle(i) => book[Now'] = book[Now] + Total(part, Payouts(session[i], clock))

\* The innermost call, and the payout it has come to.
LEMMA TopOwes ==
  ASSUME EscrowInv, stack # << >>
  PROVE  /\ stack \in Seq(Frame) /\ Len(stack) \in 1..Len(stack)
         /\ Top = stack[Len(stack)] /\ Top \in Frame /\ Rest = SubSeq(stack, 1, Len(stack) - 1)
         /\ Top.before \in World /\ Top.undo \in World
         /\ Top.todo \in Seq(Payout) /\ Top.todo # << >> /\ Head(Top.todo) \in Payout
         /\ Len(Top.todo) \in Nat \ {0}
<1>1. stack \in Seq(Frame) /\ Len(stack) \in 1..Len(stack) /\ Top \in Frame
  <2>1. stack \in Seq(Frame) /\ Len(stack) \in Nat \ {0} /\ Top \in Frame
    BY TopAndRest DEF EscrowInv, TypeOK
  <2> QED
    BY <2>1
<1>2. SoundFrame(Top, clock)
  BY <1>1 DEF EscrowInv, Top
<1>3. Top.todo \in Seq(Payout) /\ Top.todo # << >>
  BY <1>1, <1>2 DEF SoundFrame, Frame
<1>4. Head(Top.todo) \in Payout /\ Len(Top.todo) \in Nat \ {0}
  BY <1>3
<1> QED
  BY <1>1, <1>3, <1>4 DEF Frame, Top, Rest

\* What the chain says of the innermost call.
LEMMA ChainTopSays ==
  ASSUME EscrowInv, stack # << >>, NEW book, NEW part, NEW base,
         Chain(book, part, base, stack, Now)
  PROVE  /\ book[Now] = book[Top.before] + Total(part, Left(Top))
         /\ Top.stage = "called" =>
              book[Top.undo] = book[Top.before] + Total(part, Top.todo)
<1>1. Len(stack) \in 1..Len(stack) /\ Top = stack[Len(stack)] /\ Len(stack) \in Nat
  BY TopOwes DEF EscrowInv, TypeOK
<1>2. StateAfter(stack, Now, Len(stack)) = Now
  BY <1>1 DEF StateAfter
<1> QED
  BY <1>1, <1>2 DEF Chain

\* Turning to the next payout, or returning, when the one under way is settled.
LEMMA ChainGoOn ==
  ASSUME EscrowInv, EscrowInv', stack # << >>, GoOn,
         NEW book \in [World -> Int], NEW part \in [Payout -> Int], NEW base,
         Chain(book, part, base, stack, Now),
         book[Now'] = book[Top.before] + Total(part, Tail(Top.todo))
  PROVE  Chain(book, part, base, stack', Now')
<1>1. /\ stack \in Seq(Frame) /\ Top = stack[Len(stack)] /\ Top \in Frame
      /\ Rest = SubSeq(stack, 1, Len(stack) - 1) /\ Top.todo \in Seq(Payout)
      /\ Top.todo # << >> /\ Len(Top.todo) \in Nat \ {0} /\ Top.before \in World
  BY TopOwes
<1>2. CASE Len(Top.todo) > 1
  <2> DEFINE next == [Top EXCEPT !.todo = Tail(@), !.stage = "send"]
  <2>1. Tail(Top.todo) \in Seq(Payout)
    BY <1>1, <1>2, TailOfPayouts
  <2>2. next \in Frame /\ next.before = Top.before /\ next.stage = "send"
        /\ next.todo = Tail(Top.todo)
    BY <1>1, <2>1 DEF Frame
  <2>3. stack' = Append(Rest, next)
    BY <1>2 DEF GoOn
  <2> HIDE DEF next
  <2>4. Left(next) = Tail(Top.todo)
    BY <2>2 DEF Left
  <2>5. book[Now'] = book[next.before] + Total(part, Left(next))
    BY <2>2, <2>4
  <2> QED
    BY <1>1, <2>2, <2>3, <2>5, ChainTop
<1>3. CASE ~(Len(Top.todo) > 1)
  <2>1. Len(Top.todo) = 1 /\ stack' = Rest
    <3>0. \A n \in Nat \ {0} : ~(n > 1) => n = 1
      OBVIOUS
    <3>1. Len(Top.todo) = 1
      BY <1>1, <1>3, <3>0
    <3> QED
      BY <1>3, <3>1 DEF GoOn
  <2>2. Total(part, Tail(Top.todo)) = 0
    BY <1>1, <2>1, TotalUnfolds
  <2>3. book[Now'] = book[Top.before]
    <3>1. book[Top.before] \in Int
      BY <1>1
    <3> QED
      BY <2>2, <3>1
  <2> QED
    BY <1>1, <2>1, <2>3, ChainPop
<1> QED
  BY <1>2, <1>3

\* Settling and withdrawing put their frame on the chain.
LEMMA ChainBegins ==
  ASSUME EscrowInv, NEW op \in {"settle", "withdraw"}, NEW todo \in Seq(Payout),
         Begin(op, todo), NEW book, NEW part, NEW base,
         Chain(book, part, base, stack, Now), book[Now'] = book[Now] + Total(part, todo)
  PROVE  Chain(book, part, base, stack', Now')
<1> DEFINE f == [op |-> op, todo |-> todo, stage |-> "send", before |-> Now, undo |-> Now]
<1>1. stack \in Seq(Frame) /\ Now \in World
  BY DEF EscrowInv, TypeOK
<1>2. f \in Frame /\ f.before = Now /\ f.stage = "send" /\ f.todo = todo
  BY <1>1 DEF Frame
<1>3. stack' = Append(stack, f)
  BY DEF Begin
<1> HIDE DEF f
<1> QED
  BY <1>1, <1>2, <1>3, ChainPush

\* No step, refusal or callback breaks the chain.
LEMMA ChainStep ==
  ASSUME EscrowInv, EscrowInv', [Next]_vars,
         NEW book \in [World -> Int], NEW part \in [Payout -> Int], NEW base,
         Pays(book, part), BooksKept(book, part),
         Chain(book, part, base, stack, Now)
  PROVE  Chain(book, part, base, stack', Now')
<1>1. Now \in World /\ Now' \in World /\ stack \in Seq(Frame) /\ clock \in Nat
  BY DEF EscrowInv, TypeOK
<1>2. CASE Now' = Now /\ stack' = stack
  BY <1>2
<1>3. CASE \E caller \in Accounts, i \in Ids, provider \in Accounts \cup {ZeroAddress},
              price \in Prices, duration \in Durations, paid \in Payable :
             OpenSession(caller, i, provider, price, duration, paid)
  <2>1. book[Now'] = book[Now]
    BY <1>3 DEF BooksKept
  <2>2. stack' = stack
    BY <1>3 DEF OpenSession
  <2> QED
    BY <1>1, <2>1, <2>2, ChainSame
<1>4. CASE \E i \in Ids, added \in Durations, paid \in Payable : TopUp(i, added, paid)
  <2>1. book[Now'] = book[Now]
    BY <1>4 DEF BooksKept
  <2>2. stack' = stack
    BY <1>4 DEF TopUp
  <2> QED
    BY <1>1, <2>1, <2>2, ChainSame
<1>5. CASE \E i \in Ids : Settle(i)
  <2>1. PICK i \in Ids : Settle(i)
    BY <1>5
  <2>2. Payouts(session[i], clock) \in Seq(Payout)
    <3>1. session[i] \in Session /\ session[i].deposited # 0 /\ SoundSession(session[i], clock)
      BY <2>1, ExistingSession DEF Settle
    <3> QED
      BY <1>1, <3>1, PayoutsType DEF SoundSession
  <2>3. Begin("settle", Payouts(session[i], clock))
    BY <2>1 DEF Settle
  <2>4. book[Now'] = book[Now] + Total(part, Payouts(session[i], clock))
    BY <2>1 DEF BooksKept
  <2> QED
    BY <2>2, <2>3, <2>4, ChainBegins
<1>6. CASE \E a \in Accounts : Withdraw(a)
  <2>1. PICK a \in Accounts : Withdraw(a)
    BY <1>6
  <2> DEFINE p == [to |-> a, amount |-> pending[a]]
  <2>2. p \in Payout /\ Due(a, pending[a]) = << p >>
    <3>1. pending[a] \in Nat \ {0}
      BY <1>1, <2>1 DEF World, Now, Withdraw
    <3> QED
      BY <3>1 DEF Payout, Due
  <2>3. KeepsFor(Now', Now, p)
    <3>1. pending[a] \in Nat /\ pending \in [Accounts -> Nat]
      BY <1>1 DEF World, Now
    <3>2. pending = [pending' EXCEPT ![a] = @ + pending[a]]
      <4>1. pending' = [pending EXCEPT ![a] = 0]
        BY <2>1 DEF Withdraw
      <4>2. pending' \in [Accounts -> Nat] /\ pending'[a] = 0
        BY <3>1, <4>1
      <4>3. pending'[a] + pending[a] = pending[a]
        BY <3>1, <4>2
      <4> QED
        BY <3>1, <4>1, <4>2, <4>3
    <3>3. session' = session /\ balance' = balance /\ received' = received
      BY <2>1 DEF Withdraw
    <3> QED
      BY <3>2, <3>3 DEF Now, KeepsFor
  <2> HIDE DEF p
  <2>4. book[Now] = book[Now'] - part[p]
    BY <1>1, <2>2, <2>3 DEF Pays
  <2>5. Total(part, << p >>) = part[p]
    <3>1. << p >> \in Seq(Payout) /\ << p >> # << >> /\ Head(<< p >>) = p /\ Len(<< p >>) = 1
      BY <2>2
    <3>2. Total(part, << p >>) = part[p] + 0
      BY <3>1, TotalUnfolds
    <3> QED
      BY <2>2, <3>2
  <2>6. book[Now'] = book[Now] + Total(part, Due(a, pending[a]))
    <3>1. book[Now'] \in Int /\ book[Now] \in Int /\ part[p] \in Int
      BY <1>1, <2>2
    <3> QED
      BY <2>2, <2>4, <2>5, <3>1
  <2>7. Begin("withdraw", Due(a, pending[a])) /\ Due(a, pending[a]) \in Seq(Payout)
    BY <2>1, <2>2 DEF Withdraw
  <2> QED
    BY <2>6, <2>7, ChainBegins
<1>7. CASE Send
  <2>0. stack # << >> /\ Top.stage = "send"
    BY <1>7 DEF Send
  <2>1. /\ Top \in Frame /\ Top.todo \in Seq(Payout) /\ Top.todo # << >>
        /\ Head(Top.todo) \in Payout /\ Top = stack[Len(stack)] /\ Top.before \in World
        /\ Rest = SubSeq(stack, 1, Len(stack) - 1)
    BY <2>0, TopOwes
  <2> DEFINE f == [Top EXCEPT !.stage = "called", !.undo = Now]
             p == Head(Top.todo)
  <2>2. /\ f \in Frame /\ f.before = Top.before /\ f.undo = Now /\ f.todo = Top.todo
        /\ f.stage = "called" /\ Left(f) = Tail(Top.todo)
    BY <1>1, <2>1 DEF Frame, Left
  <2>3. stack' = [stack EXCEPT ![Len(stack)] = f]
    BY <1>7 DEF Send, Top
  <2> HIDE DEF f
  <2>4. book[Now] = book[Top.before] + Total(part, Top.todo)
    BY <2>0, ChainTopSays DEF Left
  <2>5. book[Now'] = book[Now] - part[p]
    <3>1. HandsOver(Now, Now', p)
      BY <1>7 DEF Send, Now, HandsOver
    <3> HIDE DEF p
    <3> QED
      BY <1>1, <2>1, <3>1 DEF Pays, p
  <2>6. book[Now'] = book[f.before] + Total(part, Left(f))
    <3>1. /\ Total(part, Top.todo) = part[p] + Total(part, Tail(Top.todo))
          /\ part[p] \in Int /\ Total(part, Tail(Top.todo)) \in Int
      BY <2>1, TotalUnfolds
    <3>2. book[Now] \in Int /\ book[Now'] \in Int /\ book[Top.before] \in Int
      BY <1>1, <2>1
    <3> HIDE DEF p
    <3> QED
      BY <2>2, <2>4, <2>5, <3>1, <3>2
  <2>7. book[f.undo] = book[f.before] + Total(part, f.todo)
    BY <2>2, <2>4
  <2> QED
    BY <1>1, <2>0, <2>1, <2>2, <2>3, <2>6, <2>7, ChainTop
<1>8. CASE Accept
  <2>1. stack # << >> /\ GoOn /\ Now' = Now /\ Left(Top) = Tail(Top.todo)
    BY <1>8 DEF Accept, ledger, Now, Left
  <2>2. book[Now] = book[Top.before] + Total(part, Left(Top))
    BY <2>1, ChainTopSays
  <2> QED
    BY <2>1, <2>2, ChainGoOn
<1>9. CASE RefusePayout
  <2>0. stack # << >> /\ GoOn
    BY <1>9 DEF RefusePayout
  <2>1. /\ Top \in Frame /\ Top.todo \in Seq(Payout) /\ Top.todo # << >>
        /\ Head(Top.todo) \in Payout /\ Top.before \in World /\ Top.undo \in World
    BY <2>0, TopOwes
  <2> DEFINE p == Head(Top.todo)
             w == AsBeforeCall
  <2>2. w \in World /\ book[w] = book[Top.before] + Total(part, Top.todo)
    <3>1. CASE Top.stage = "called"
      BY <2>0, <2>1, <3>1, ChainTopSays DEF AsBeforeCall
    <3>2. CASE Top.stage # "called"
      <4>1. Top.stage = "send"
        BY <2>1, <3>2 DEF Frame
      <4>2. w = Now /\ Left(Top) = Top.todo
        BY <4>1 DEF AsBeforeCall, Left
      <4> QED
        BY <1>1, <2>0, <4>2, ChainTopSays
    <3> QED
      BY <3>1, <3>2
  <2>3. KeepsFor(w, Now', p)
    <3> HIDE DEF w
    <3>1. Restore([w EXCEPT !.pending[p.to] = @ + p.amount])
      BY <1>9 DEF RefusePayout, w
    <3> HIDE DEF p
    <3> QED
      BY <2>2, <3>1 DEF Restore, Now, World, KeepsFor
  <2> HIDE DEF w
  <2>4. book[Now'] = book[w] - part[p]
    <3> HIDE DEF p
    <3> QED
      BY <1>1, <2>1, <2>2, <2>3 DEF Pays, p
  <2>5. book[Now'] = book[Top.before] + Total(part, Tail(Top.todo))
    <3>1. /\ Total(part, Top.todo) = part[p] + Total(part, Tail(Top.todo))
          /\ part[p] \in Int /\ Total(part, Tail(Top.todo)) \in Int
      BY <2>1, TotalUnfolds
    <3>2. book[w] \in Int /\ book[Now'] \in Int /\ book[Top.before] \in Int
      BY <1>1, <2>1, <2>2
    <3> HIDE DEF p
    <3> QED
      BY <2>2, <2>4, <3>1, <3>2
  <2> QED
    BY <2>0, <2>5, ChainGoOn
<1>10. CASE RefuseWithdrawal
  <2>0. stack # << >> /\ stack' = Rest
    BY <1>10 DEF RefuseWithdrawal
  <2>1. Top.before \in World /\ Top = stack[Len(stack)] /\ Rest = SubSeq(stack, 1, Len(stack) - 1)
    BY <2>0, TopOwes
  <2>2. Now' = Top.before
    BY <1>10, <2>1 DEF RefuseWithdrawal, Restore, World, Now
  <2> QED
    BY <1>1, <2>0, <2>1, <2>2, ChainPop
<1>11. CASE Tick \/ UNCHANGED vars
  BY <1>2, <1>11 DEF Tick, ledger, vars, Now
<1> QED
  BY <1>3, <1>4, <1>5, <1>6, <1>7, <1>8, <1>9, <1>10, <1>11 DEF Next
\* Two payouts, one after the other.
LEMMA OneAfterTheOther ==
  ASSUME NEW S, NEW x \in S, NEW y \in S, NEW p, p = << x >> \o << y >>
  PROVE  /\ p \in Seq(S) /\ p # << >> /\ Head(p) = x
         /\ Tail(p) \in Seq(S) /\ Len(Tail(p)) = 1 /\ Tail(p) # << >> /\ Head(Tail(p)) = y
<1>1. p \in Seq(S) /\ Len(p) = 2 /\ p[1] = x /\ p[2] = y
  BY << x >> \in Seq(S), << y >> \in Seq(S)
<1>2. ASSUME NEW q \in Seq(S), NEW n \in Nat \ {0}, Len(q) = n PROVE q # << >>
  BY <1>2
<1>3. p # << >>
  BY <1>1, <1>2
<1>4. Head(p) = x
  BY <1>1, <1>3
<1>5. /\ Tail(p) \in Seq(S) /\ Len(Tail(p)) = 1
      /\ \A i \in 1..Len(Tail(p)) : Tail(p)[i] = p[i + 1]
  BY <1>1, <1>3, HeadTailProperties
<1>6. PICK q : q = Tail(p)
  OBVIOUS
<1>7. q # << >>
  BY <1>2, <1>5, <1>6
<1>8. q[1] = y
  <2>1. 1 \in 1..Len(Tail(p)) /\ 1 + 1 = 2
    BY <1>5
  <2>2. Tail(p)[1] = p[2]
    BY <1>5, <2>1
  <2> QED
    BY <1>1, <1>6, <2>2
<1>9. Head(q) = y
  BY <1>5, <1>6, <1>7, <1>8
<1> QED
  BY <1>1, <1>3, <1>4, <1>5, <1>6, <1>7, <1>9

\* What a settlement owes takes the parts of both shares out of a book.
LEMMA TotalOfPayouts ==
  ASSUME NEW s \in Session, NEW now \in Nat, NEW part \in [Payout -> Int],
         BuysItsTime(s), s.startTime <= now
  PROVE  Total(part, Payouts(s, now)) =
           (IF ProviderAmount(s, now) > 0
              THEN part[[to |-> s.provider, amount |-> ProviderAmount(s, now)]] ELSE 0)
           + (IF RefundAmount(s, now) > 0
                THEN part[[to |-> s.renter, amount |-> RefundAmount(s, now)]] ELSE 0)
<1> DEFINE a == ProviderAmount(s, now)
           b == RefundAmount(s, now)
           x == [to |-> s.provider, amount |-> a]
           y == [to |-> s.renter, amount |-> b]
<1>1. a \in Nat /\ b \in Nat
  BY SplitWithinDeposit
<1>2. (a > 0 => x \in Payout) /\ (b > 0 => y \in Payout)
  BY <1>1 DEF Session, Payout
<1>3. Payouts(s, now) = (IF a > 0 THEN << x >> ELSE << >>) \o (IF b > 0 THEN << y >> ELSE << >>)
  BY DEF Payouts, Due
<1> HIDE DEF a, b, x, y
<1>4. ASSUME NEW z \in Payout PROVE Total(part, << z >>) = part[z] /\ part[z] \in Int
  <2>1. << z >> \in Seq(Payout) /\ << z >> # << >> /\ Head(<< z >>) = z /\ Len(<< z >>) = 1
    OBVIOUS
  <2>2. Total(part, << z >>) = part[z] + 0
    BY <2>1, TotalUnfolds
  <2> QED
    BY <2>2
<1>5. Total(part, << >>) = 0
  <2>1. DOMAIN << >> = {}
    OBVIOUS
  <2> QED
    BY <2>1, SumEmpty DEF Total, SumFunction
<1>6. CASE a > 0 /\ b > 0
  <2> DEFINE p == << x >> \o << y >>
  <2>1. Payouts(s, now) = p /\ x \in Payout /\ y \in Payout
    BY <1>2, <1>3, <1>6
  <2>2. PICK q : q = p
    OBVIOUS
  <2>3. /\ q \in Seq(Payout) /\ q # << >> /\ Head(q) = x
        /\ Tail(q) \in Seq(Payout) /\ Len(Tail(q)) = 1 /\ Tail(q) # << >> /\ Head(Tail(q)) = y
    <3>1. q = << x >> \o << y >>
      BY <2>2
    <3> QED
      BY <2>1, <3>1, OneAfterTheOther
  <2> HIDE DEF p
  <2>4. Total(part, q) = part[x] + Total(part, Tail(q))
    BY <2>3, TotalUnfolds
  <2>5. Total(part, Tail(q)) = part[y] + 0 /\ part[y] \in Int
    BY <2>3, TotalUnfolds
  <2> QED
    BY <1>6, <2>1, <2>2, <2>4, <2>5 DEF a, b, x, y
<1>7. CASE a > 0 /\ ~(b > 0)
  <2>1. Payouts(s, now) = << x >> /\ x \in Payout
    BY <1>2, <1>3, <1>7
  <2> QED
    BY <1>4, <1>7, <2>1 DEF a, b, x, y
<1>8. CASE ~(a > 0) /\ b > 0
  <2>1. Payouts(s, now) = << y >> /\ y \in Payout
    BY <1>2, <1>3, <1>8
  <2> QED
    BY <1>4, <1>8, <2>1 DEF a, b, x, y
<1>9. CASE ~(a > 0) /\ ~(b > 0)
  <2>1. Payouts(s, now) = << >>
    BY <1>3, <1>9
  <2> QED
    BY <1>5, <1>9, <2>1 DEF a, b, x, y
<1> QED
  BY <1>6, <1>7, <1>8, <1>9

-----------------------------------------------------------------------------
(* The contract holds what it owes.                                        *)

\* A payout's part of the balance is its amount.
Amounts == [p \in Payout |-> p.amount]

\* What is held beyond open deposits and deferred payouts.
SolvencyBook ==
  [w \in World |-> w.balance - (OpenDeposits(w.session) + SumFunction(w.pending))]

\* That is just what the calls under way have yet to hand over, call by call.
SolventInv == Chain(SolvencyBook, Amounts, 0, stack, Now)

\* One session's part of the open deposits.
Held(s) == IF s.settled THEN 0 ELSE s.deposited

\* The sums a state is booked with are amounts.
LEMMA DepositsType ==
  ASSUME NEW w \in World
  PROVE  OpenDeposits(w.session) \in Nat /\ SumFunction(w.pending) \in Nat /\ w.balance \in Nat
<1>1. w.session \in [Ids -> Session \cup {NoSession}] /\ w.pending \in [Accounts -> Nat]
      /\ w.balance \in Nat
  BY DEF World
<1>2. ASSUME NEW i \in Ids
      PROVE  (IF w.session[i].settled THEN 0 ELSE w.session[i].deposited) \in Nat
  BY <1>1 DEF Session, NoSession
<1>3. OpenDeposits(w.session) \in Nat
  <2> DEFINE f == [i \in Ids |-> IF w.session[i].settled THEN 0 ELSE w.session[i].deposited]
  <2>1. DOMAIN f = Ids /\ \A i \in Ids : f[i] \in Nat
    BY <1>2
  <2> HIDE DEF f
  <2>2. SumFunctionOnSet(f, Ids) \in Nat
    BY <2>1, FiniteAssumption, SumType
  <2> QED
    BY <2>1, <2>2 DEF OpenDeposits, SumFunction, f
<1>4. SumFunction(w.pending) \in Nat
  BY <1>1, FiniteAssumption, SumType DEF SumFunction
<1> QED
  BY <1>1, <1>3, <1>4

\* Writing one session moves the open deposits by what that session holds.
LEMMA DepositsWritten ==
  ASSUME NEW s \in [Ids -> Session \cup {NoSession}], NEW i \in Ids, NEW x \in Session,
         NEW t, t = [s EXCEPT ![i] = x]
  PROVE  OpenDeposits(t) = OpenDeposits(s) + (Held(x) - Held(s[i]))
<1> DEFINE f == [j \in Ids |-> IF s[j].settled THEN 0 ELSE s[j].deposited]
           g == [j \in Ids |-> IF t[j].settled THEN 0 ELSE t[j].deposited]
<1>1. t \in [Ids -> Session \cup {NoSession}] /\ t[i] = x /\ \A j \in Ids \ {i} : t[j] = s[j]
  OBVIOUS
<1>2. ASSUME NEW z \in Session \cup {NoSession}
      PROVE  (IF z.settled THEN 0 ELSE z.deposited) \in Nat
  BY DEF Session, NoSession
<1>3. \A j \in Ids : f[j] \in Nat /\ g[j] \in Nat
  BY <1>1, <1>2
<1>4. \A j \in Ids \ {i} : g[j] = f[j]
  BY <1>1
<1>5. f[i] = Held(s[i]) /\ g[i] = Held(x) /\ DOMAIN f = Ids /\ DOMAIN g = Ids
  BY <1>1 DEF Held
<1>6. OpenDeposits(s) = SumFunctionOnSet(f, Ids) /\ OpenDeposits(t) = SumFunctionOnSet(g, Ids)
  BY <1>5 DEF OpenDeposits, SumFunction
<1> HIDE DEF f, g
<1>7. \A j \in Ids : f[j] \in Int /\ g[j] \in Int
  BY <1>3
<1>8. SumFunctionOnSet(g, Ids) = SumFunctionOnSet(f, Ids) + (g[i] - f[i])
  BY <1>4, <1>7, FiniteAssumption, SumUpdate
<1> QED
  BY <1>3, <1>5, <1>6, <1>8

LEMMA SolvencyTypes == SolvencyBook \in [World -> Int] /\ Amounts \in [Payout -> Int]
<1>1. \A w \in World : w.balance - (OpenDeposits(w.session) + SumFunction(w.pending)) \in Int
  BY DepositsType
<1>2. \A p \in Payout : p.amount \in Int
  BY DEF Payout
<1> QED
  BY <1>1, <1>2 DEF SolvencyBook, Amounts

\* A payout that leaves takes its amount along; one that is kept becomes a debt.
LEMMA SolvencyPays == Pays(SolvencyBook, Amounts)
<1> SUFFICES ASSUME NEW w \in World, NEW v \in World, NEW p \in Payout,
                    HandsOver(w, v, p) \/ KeepsFor(w, v, p)
             PROVE  SolvencyBook[v] = SolvencyBook[w] - Amounts[p]
  BY DEF Pays
<1>1. /\ SolvencyBook[w] = w.balance - (OpenDeposits(w.session) + SumFunction(w.pending))
      /\ SolvencyBook[v] = v.balance - (OpenDeposits(v.session) + SumFunction(v.pending))
      /\ Amounts[p] = p.amount /\ p.amount \in Nat /\ p.to \in Accounts
  BY DEF SolvencyBook, Amounts, Payout
<1>2. /\ OpenDeposits(w.session) \in Nat /\ SumFunction(w.pending) \in Nat /\ w.balance \in Nat
      /\ OpenDeposits(v.session) \in Nat /\ SumFunction(v.pending) \in Nat /\ v.balance \in Nat
  BY DepositsType
<1>3. CASE HandsOver(w, v, p)
  <2>1. v.session = w.session /\ v.pending = w.pending /\ v.balance = w.balance - p.amount
    BY <1>3 DEF HandsOver
  <2> QED
    BY <1>1, <1>2, <2>1
<1>4. CASE KeepsFor(w, v, p)
  <2>1. v.session = w.session /\ v.balance = w.balance
        /\ v.pending = [w.pending EXCEPT ![p.to] = @ + p.amount]
    BY <1>4 DEF KeepsFor
  <2>2. w.pending \in [Accounts -> Nat] /\ v.pending \in [Accounts -> Nat]
    BY DEF World
  <2>3. /\ \A a \in Accounts : w.pending[a] \in Int /\ v.pending[a] \in Int
        /\ \A a \in Accounts \ {p.to} : v.pending[a] = w.pending[a]
        /\ v.pending[p.to] = w.pending[p.to] + p.amount
    BY <1>1, <2>1, <2>2
  <2>4. SumFunctionOnSet(v.pending, Accounts)
          = SumFunctionOnSet(w.pending, Accounts) + (v.pending[p.to] - w.pending[p.to])
    <3>1. p.to \in Accounts /\ IsFiniteSet(Accounts)
      BY <1>1, FiniteAssumption
    <3> QED
      BY ONLY <2>3, <3>1, SumUpdate
  <2>5. SumFunction(v.pending) = SumFunction(w.pending) + p.amount
    <3>1. /\ SumFunction(v.pending) = SumFunctionOnSet(v.pending, Accounts)
          /\ SumFunction(w.pending) = SumFunctionOnSet(w.pending, Accounts)
      BY <2>2 DEF SumFunction
    <3> QED
      BY <1>1, <1>2, <2>3, <2>4, <3>1
  <2> QED
    BY <1>1, <1>2, <2>1, <2>5
<1> QED
  BY <1>3, <1>4

\* Paying in raises what is held by what is owed; a split owes the whole deposit.
LEMMA SolvencyKept ==
  ASSUME EscrowInv, EscrowInv'
  PROVE  BooksKept(SolvencyBook, Amounts)
<1>1. /\ Now \in World /\ Now' \in World /\ clock \in Nat
      /\ session \in [Ids -> Session \cup {NoSession}] /\ balance \in Nat
      /\ Now.session = session /\ Now.balance = balance /\ Now.pending = pending
      /\ Now'.session = session' /\ Now'.balance = balance' /\ Now'.pending = pending'
      /\ session' \in [Ids -> Session \cup {NoSession}]
  BY DEF EscrowInv, TypeOK, World, Now
<1>2. /\ SolvencyBook[Now] = balance - (OpenDeposits(session) + SumFunction(pending))
      /\ SolvencyBook[Now'] = balance' - (OpenDeposits(session') + SumFunction(pending'))
      /\ OpenDeposits(session) \in Nat /\ SumFunction(pending) \in Nat
      /\ OpenDeposits(session') \in Nat /\ SumFunction(pending') \in Nat
  BY <1>1, DepositsType DEF SolvencyBook
<1>3. ASSUME NEW caller \in Accounts, NEW i \in Ids, NEW provider \in Accounts \cup {ZeroAddress},
             NEW price \in Prices, NEW duration \in Durations, NEW paid \in Payable,
             OpenSession(caller, i, provider, price, duration, paid)
      PROVE  SolvencyBook[Now'] = SolvencyBook[Now]
  <2> DEFINE x == [renter |-> caller, provider |-> provider, pricePerSecond |-> price,
                   startTime |-> clock, duration |-> duration, deposited |-> paid,
                   settled |-> FALSE]
  <2>1. paid \in Nat /\ balance' = balance + paid /\ pending' = pending
        /\ session' = [session EXCEPT ![i] = x] /\ session[i] = NoSession
    BY <1>1, <1>3, AmountAssumption, ExistingSession DEF OpenSession, Payable
  <2>2. x \in Session
    <3>1. session'[i] = x /\ x # NoSession
      <4>1. x.renter # ZeroAddress
        BY AddressAssumption
      <4> HIDE DEF x
      <4> QED
        BY <1>1, <2>1, <4>1 DEF NoSession
    <3> QED
      BY <1>1, <3>1
  <2>3. Held(x) = paid /\ Held(session[i]) = 0
    BY <2>1 DEF Held, NoSession
  <2> HIDE DEF x
  <2>4. OpenDeposits(session') = OpenDeposits(session) + (paid - 0)
    <3>1. OpenDeposits(session') = OpenDeposits(session) + (Held(x) - Held(session[i]))
      <4>1. session \in [Ids -> Session \cup {NoSession}] /\ x \in Session
            /\ session' = [session EXCEPT ![i] = x]
        BY <1>1, <2>1, <2>2
      <4> QED
        BY ONLY <4>1, i \in Ids, DepositsWritten, Zenon
    <3> QED
      BY <2>3, <3>1
  <2> QED
    BY <1>1, <1>2, <2>1, <2>4
<1>4. ASSUME NEW i \in Ids, NEW added \in Durations, NEW paid \in Payable, TopUp(i, added, paid)
      PROVE  SolvencyBook[Now'] = SolvencyBook[Now]
  <2> DEFINE old == session[i]
             x == [old EXCEPT !.duration = @ + added, !.deposited = @ + paid]
  <2>1. paid \in Nat /\ balance' = balance + paid /\ pending' = pending
        /\ session' = [session EXCEPT ![i] = x] /\ old \in Session /\ ~old.settled
    <3>1. session' = [session EXCEPT ![i] = x]
      BY <1>1, <1>4 DEF TopUp
    <3>2. old \in Session /\ ~old.settled
      BY <1>4, ExistingSession DEF TopUp
    <3> HIDE DEF x, old
    <3>3. paid \in Nat /\ balance' = balance + paid /\ pending' = pending
      BY <1>1, <1>4, AmountAssumption DEF TopUp, Payable
    <3> QED
      BY <3>1, <3>2, <3>3
  <2>2. x.deposited = old.deposited + paid /\ x.settled = old.settled /\ x.renter = old.renter
        /\ old.deposited \in Nat /\ old.renter # ZeroAddress
    BY <2>1, AddressAssumption DEF Session
  <2> HIDE DEF x
  <2>3. x \in Session
    <3>1. session'[i] = x /\ x # NoSession
      BY <1>1, <2>1, <2>2 DEF NoSession
    <3> QED
      BY <1>1, <3>1
  <2>4. Held(x) = old.deposited + paid /\ Held(session[i]) = old.deposited
    BY <2>1, <2>2 DEF Held
  <2>5. OpenDeposits(session') = OpenDeposits(session) + ((old.deposited + paid) - old.deposited)
    <3>1. OpenDeposits(session') = OpenDeposits(session) + (Held(x) - Held(session[i]))
      <4>1. session \in [Ids -> Session \cup {NoSession}] /\ x \in Session
            /\ session' = [session EXCEPT ![i] = x]
        BY <1>1, <2>1, <2>3
      <4> QED
        BY ONLY <4>1, i \in Ids, DepositsWritten, Zenon
    <3> QED
      BY <2>4, <3>1
  <2> HIDE DEF old
  <2> QED
    BY <1>1, <1>2, <2>1, <2>2, <2>5
<1>5. ASSUME NEW i \in Ids, Settle(i)
      PROVE  SolvencyBook[Now'] =
               SolvencyBook[Now] + Total(Amounts, Payouts(session[i], clock))
  <2> DEFINE old == session[i]
             x == [old EXCEPT !.settled = TRUE]
             a == ProviderAmount(old, clock)
             b == RefundAmount(old, clock)
  <2>1. balance' = balance /\ pending' = pending /\ session' = [session EXCEPT ![i] = x]
        /\ old \in Session /\ ~old.settled /\ SoundSession(old, clock)
    BY <1>1, <1>5, ExistingSession DEF Settle
  <2>2. x \in Session /\ x.settled /\ old.deposited \in Nat
    BY <2>1 DEF Session
  <2>3. Held(x) = 0 /\ Held(session[i]) = old.deposited
    BY <2>1, <2>2 DEF Held
  <2> HIDE DEF x
  <2>4. OpenDeposits(session') = OpenDeposits(session) + (0 - old.deposited)
    <3>1. OpenDeposits(session') = OpenDeposits(session) + (Held(x) - Held(session[i]))
      <4>1. session \in [Ids -> Session \cup {NoSession}] /\ x \in Session
            /\ session' = [session EXCEPT ![i] = x]
        BY <1>1, <2>1, <2>2
      <4> QED
        BY ONLY <4>1, i \in Ids, DepositsWritten, Zenon
    <3> QED
      BY <2>3, <3>1
  <2>5. a \in Nat /\ b \in Nat /\ a + b = old.deposited
    <3>1. a \in Nat /\ b \in Nat
      BY <1>1, <2>1, SplitWithinDeposit DEF SoundSession
    <3> QED
      BY <2>2, <3>1 DEF RefundAmount
  <2>6. Total(Amounts, Payouts(old, clock)) = old.deposited
    <3>1. Total(Amounts, Payouts(old, clock)) =
            (IF a > 0 THEN Amounts[[to |-> old.provider, amount |-> a]] ELSE 0)
            + (IF b > 0 THEN Amounts[[to |-> old.renter, amount |-> b]] ELSE 0)
      BY <1>1, <2>1, SolvencyTypes, TotalOfPayouts DEF SoundSession
    <3> HIDE DEF a, b
    <3>2. /\ a > 0 => Amounts[[to |-> old.provider, amount |-> a]] = a
          /\ b > 0 => Amounts[[to |-> old.renter, amount |-> b]] = b
      BY <2>1, <2>5 DEF Amounts, Payout, Session
    <3> QED
      BY <2>5, <3>1, <3>2
  <2> HIDE DEF old, a, b
  <2>7. SolvencyBook[Now'] = SolvencyBook[Now] + old.deposited
    BY <1>1, <1>2, <2>1, <2>2, <2>4
  <2> QED
    BY <2>6, <2>7 DEF old
<1> QED
  BY <1>3, <1>4, <1>5 DEF BooksKept

\* Link by link, the chain adds up to everything still to be handed over.
LEMMA ChainAddsUp ==
  ASSUME EscrowInv, NEW book \in [World -> Int], NEW part \in [Payout -> Int], NEW base,
         Chain(book, part, base, stack, Now)
  PROVE  SumFunctionOnSet([k \in 1..Len(stack) |-> Total(part, Left(stack[k]))], 1..Len(stack))
           = book[Now] - base
<1> DEFINE n == Len(stack)
           f == [k \in 1..n |-> Total(part, Left(stack[k]))]
           g == [k \in 0..n |-> book[StateAfter(stack, Now, k)]]
<1>1. n \in Nat /\ Now \in World /\ \A k \in 1..n : stack[k] \in Frame
  BY DEF EscrowInv, TypeOK
<1>2. ASSUME NEW k \in 0..n PROVE StateAfter(stack, Now, k) \in World
  <2>1. CASE k + 1 <= n
    <3>1. k + 1 \in 1..n
      BY <1>1, <2>1
    <3>2. stack[k + 1].before \in World
      BY <1>1, <3>1 DEF Frame
    <3> QED
      BY <2>1, <3>2 DEF StateAfter
  <2>2. CASE ~(k + 1 <= n)
    BY <1>1, <2>2 DEF StateAfter
  <2> QED
    BY <2>1, <2>2
<1>3. \A k \in 0..n : g[k] \in Int
  BY <1>2
<1>4. ASSUME NEW k \in 1..n PROVE f[k] = g[k] - g[k - 1]
  <2>1. k \in 0..n /\ k - 1 \in 0..n /\ (k - 1) + 1 = k /\ k <= n
    BY <1>1
  <2>2. StateAfter(stack, Now, k - 1) = stack[k].before
    BY <2>1 DEF StateAfter
  <2>3. g[k] = g[k - 1] + f[k]
    BY <2>1, <2>2 DEF Chain
  <2>4. f[k] \in Int
    <3> DEFINE left == Left(stack[k])
    <3>1. left \in Seq(Payout)
      <4>1. stack[k].todo \in Seq(Payout) /\ stack[k].todo # << >>
        BY <1>1 DEF EscrowInv, SoundFrame, Frame
      <4>2. Tail(stack[k].todo) \in Seq(Payout)
        BY <4>1
      <4> QED
        BY <4>1, <4>2 DEF Left
    <3> HIDE DEF left
    <3>2. Total(part, left) \in Int
      <4>1. CASE left = << >>
        <5>1. DOMAIN left = {}
          BY <4>1
        <5>2. Total(part, left) = 0
          BY <5>1, SumEmpty DEF Total, SumFunction
        <5> QED
          BY <5>2
      <4>2. CASE left # << >>
        <5>1. /\ Total(part, left) = part[Head(left)] + Total(part, Tail(left))
              /\ part[Head(left)] \in Int /\ Total(part, Tail(left)) \in Int
          BY <3>1, <4>2, TotalUnfolds
        <5> QED
          BY <5>1
      <4> QED
        BY <4>1, <4>2
    <3> QED
      BY <3>2 DEF left
  <2>5. g[k] \in Int /\ g[k - 1] \in Int
    BY <1>3, <2>1
  <2> HIDE DEF f, g
  <2> QED
    BY <2>3, <2>4, <2>5
<1>5. g[0] = base /\ g[n] = book[Now]
  <2>1. 0 \in 0..n /\ n \in 0..n /\ ~(n + 1 <= n)
    BY <1>1
  <2> QED
    BY <2>1 DEF Chain, StateAfter
<1> HIDE DEF f, g, n
<1>6. SumFunctionOnSet(f, 1..n) = g[n] - g[0]
  BY ONLY <1>1, <1>3, <1>4, SumTelescopes
<1> QED
  BY <1>5, <1>6 DEF f, n

\* The chain of books, added up over the stack, is solvency.
LEMMA SolventFollows ==
  ASSUME EscrowInv, SolventInv
  PROVE  Solvent
<1> DEFINE n == Len(stack)
           f == [k \in 1..n |-> Total(Amounts, Left(stack[k]))]
           h == [k \in DOMAIN stack |-> StillOwed(stack[k])]
<1>1. SumFunctionOnSet(f, 1..n) = SolvencyBook[Now] - 0
  BY SolvencyTypes, ChainAddsUp DEF SolventInv
<1>2. n \in Nat /\ DOMAIN stack = 1..n /\ Now \in World
  BY DEF EscrowInv, TypeOK
<1>3. ASSUME NEW k \in 1..n PROVE h[k] = f[k]
  <2> DEFINE left == Left(stack[k])
  <2>1. left \in Seq(Payout)
    <3>1. stack[k].todo \in Seq(Payout) /\ stack[k].todo # << >>
      <4>1. stack[k] \in Frame /\ SoundFrame(stack[k], clock)
        BY <1>2 DEF EscrowInv, TypeOK
      <4> QED
        BY <4>1 DEF SoundFrame, Frame
    <3>2. Tail(stack[k].todo) \in Seq(Payout)
      BY <3>1
    <3> QED
      BY <3>1, <3>2 DEF Left
  <2>2. h[k] = SumFunction([j \in DOMAIN left |-> left[j].amount])
    BY <1>2 DEF StillOwed, Left
  <2>3. f[k] = SumFunction([j \in DOMAIN left |-> Amounts[left[j]]])
    BY DEF Total
  <2> HIDE DEF left
  <2>4. \A j \in DOMAIN left : Amounts[left[j]] = left[j].amount
    BY <2>1 DEF Amounts
  <2>5. [j \in DOMAIN left |-> left[j].amount] = [j \in DOMAIN left |-> Amounts[left[j]]]
    BY <2>4
  <2> QED
    BY <2>2, <2>3, <2>5
<1>4. h = f
  BY <1>2, <1>3
<1>5. SumFunction(h) = SumFunctionOnSet(f, 1..n)
  BY <1>4 DEF SumFunction
<1>6. SolvencyBook[Now] = balance - (OpenDeposits(session) + SumFunction(pending))
  BY <1>2 DEF SolvencyBook, Now
<1>7. OpenDeposits(session) \in Nat /\ SumFunction(pending) \in Nat /\ balance \in Nat
  BY <1>2, DepositsType DEF Now
<1> HIDE DEF f, h
<1>8. balance = OpenDeposits(session) + SumFunction(pending) + SumFunction(h)
  BY <1>1, <1>5, <1>6, <1>7
<1> QED
  BY <1>8 DEF Solvent, h

\* At every instant, in any chain of callbacks to any depth and whichever payouts
\* are refused, the contract holds exactly what it owes.
THEOREM SolventHolds == Spec => []Solvent
<1>1. Init => SolventInv
  <2> SUFFICES ASSUME Init PROVE SolventInv
    OBVIOUS
  <2>1. stack = << >> /\ Len(stack) = 0 /\ balance = 0
    BY DEF Init
  <2>2. Now \in World
    BY DEF Init, Now, World
  <2>3. OpenDeposits(session) = 0
    <3> DEFINE f == [i \in Ids |-> IF session[i].settled THEN 0 ELSE session[i].deposited]
    <3>1. DOMAIN f = Ids /\ \A i \in Ids : f[i] = 0
      BY DEF Init, NoSession
    <3> HIDE DEF f
    <3>2. SumFunctionOnSet(f, Ids) = 0
      BY <3>1, FiniteAssumption, SumZero
    <3> QED
      BY <3>1, <3>2 DEF OpenDeposits, SumFunction, f
  <2>4. SumFunction(pending) = 0
    <3>1. DOMAIN pending = Accounts /\ \A a \in Accounts : pending[a] = 0
      BY DEF Init
    <3> QED
      BY <3>1, FiniteAssumption, SumZero DEF SumFunction
  <2>5. SolvencyBook[Now] = 0
    BY <2>1, <2>2, <2>3, <2>4 DEF SolvencyBook, Now
  <2>6. StateAfter(stack, Now, 0) = Now
    BY <2>1 DEF StateAfter
  <2>7. 1..Len(stack) = {}
    BY <2>1
  <2> QED
    BY <2>5, <2>6, <2>7 DEF SolventInv, Chain
<1>2. EscrowInv /\ EscrowInv' /\ SolventInv /\ [Next]_vars => SolventInv'
  <2> SUFFICES ASSUME EscrowInv, EscrowInv', SolventInv, [Next]_vars PROVE SolventInv'
    OBVIOUS
  <2>1. Chain(SolvencyBook, Amounts, 0, stack', Now')
    BY SolvencyTypes, SolvencyPays, SolvencyKept, ChainStep DEF SolventInv
  <2> QED
    BY <2>1 DEF SolventInv, Chain, StateAfter, Left, Total, SolvencyBook, Amounts
<1>3. EscrowInv /\ SolventInv => Solvent
  BY SolventFollows
<1> QED
  BY <1>1, <1>2, <1>3, EscrowInvHolds, PTL DEF Spec
-----------------------------------------------------------------------------
(* Seen from outside, a transaction is atomic: the contract implements the *)
(* vault.                                                                  *)

\* What account a is given when s is settled at the instant now.
Given(s, a, now) ==
  (IF s.provider = a THEN ProviderAmount(s, now) ELSE 0)
    + (IF s.renter = a THEN RefundAmount(s, now) ELSE 0)

\* That of every session settled since the state c.
GivenSince(c, a, now, s) ==
  [i \in Ids |-> IF s[i].settled /\ ~c.session[i].settled THEN Given(s[i], a, now) ELSE 0]

\* What account a has been given or is kept for it, less its shares of the
\* sessions this transaction has settled.
VaultBook(c, a, now) ==
  [w \in World |-> w.received[a] + w.pending[a]
                     - SumFunctionOnSet(GivenSince(c, a, now, w.session), Ids)]

\* A payout to a is the account's.
PartOf(a) == [p \in Payout |-> IF p.to = a THEN 0 - p.amount ELSE 0]

\* Every account's book has moved, since the transaction began, by its shares of the
\* sessions settled since, less what the calls under way have yet to hand it.
VaultInv ==
  \A a \in Accounts :
    Chain(VaultBook(Committed, a, clock), PartOf(a),
          Committed.received[a] + Committed.pending[a], stack, Now)

\* The shares are the vault's.
LEMMA GivenIsShare ==
  ASSUME NEW s \in Session, NEW now \in Nat, BuysItsTime(s), s.startTime <= now, NEW a
  PROVE  Vault!Share(DealOf(s), a, now) = Given(s, a, now)
<1> DEFINE p == s.pricePerSecond
           d == s.duration
           e == now - s.startTime
<1>1. p \in Nat /\ d \in Nat /\ e \in Nat /\ s.deposited = p * d
  BY DEF Session, BuysItsTime
<1>2. Vault!Earned(DealOf(s), now) = IF p * e < s.deposited THEN p * e ELSE s.deposited
  BY DEF Vault!Earned, DealOf
<1>3. ProviderAmount(s, now) = p * (IF e > d THEN d ELSE e)
  BY DEF ProviderAmount, Elapsed
<1> HIDE DEF p, d, e
<1>4. ASSUME NEW m \in Nat, NEW n \in Nat, m <= n PROVE p * m <= p * n
  BY <1>1, <1>4
<1>5. e > d => p * d <= p * e
  BY <1>1, <1>4
<1>6. ~(e > d) => p * e <= p * d
  BY <1>1, <1>4
<1>7. p * e \in Nat /\ p * d \in Nat
  BY <1>1
<1>8. Vault!Earned(DealOf(s), now) = ProviderAmount(s, now)
  <2>1. CASE e > d
    BY <1>1, <1>2, <1>3, <1>5, <1>7, <2>1
  <2>2. CASE ~(e > d)
    BY <1>1, <1>2, <1>3, <1>6, <1>7, <2>2
  <2> QED
    BY <2>1, <2>2
<1> QED
  BY <1>8 DEF Vault!Share, Given, DealOf, RefundAmount

\* The vault's sums are the sums the theorems are about.
LEMMA SameSum ==
  ASSUME NEW f, NEW S
  PROVE  Vault!SumFunctionOnSet(f, S) = SumFunctionOnSet(f, S)
BY DEF Vault!SumFunctionOnSet, SumFunctionOnSet, Vault!FoldFunctionOnSet, FoldFunctionOnSet,
   Vault!MapThenFoldSet, MapThenFoldSet

\* Shares and sums of shares are whole numbers.
LEMMA GivenType ==
  ASSUME NEW s \in Session \cup {NoSession}, NEW a, NEW now \in Nat
  PROVE  Given(s, a, now) \in Int
<1>1. /\ s.pricePerSecond \in Int /\ s.deposited \in Int /\ s.startTime \in Int
      /\ s.duration \in Int
  BY DEF Session, NoSession
<1>2. Elapsed(s, now) \in Int
  BY <1>1 DEF Elapsed
<1>3. ProviderAmount(s, now) \in Int
  BY <1>1, <1>2 DEF ProviderAmount
<1> QED
  BY <1>1, <1>3 DEF Given, RefundAmount

LEMMA GivenSinceType ==
  ASSUME NEW c, NEW a, NEW now \in Nat, NEW s \in [Ids -> Session \cup {NoSession}]
  PROVE  /\ \A i \in Ids : GivenSince(c, a, now, s)[i] \in Int
         /\ SumFunctionOnSet(GivenSince(c, a, now, s), Ids) \in Int
<1>1. \A i \in Ids : GivenSince(c, a, now, s)[i] \in Int
  BY GivenType DEF GivenSince
<1> QED
  BY <1>1, FiniteAssumption, SumInt

LEMMA VaultTypes ==
  ASSUME NEW c, NEW a \in Accounts, NEW now \in Nat
  PROVE  VaultBook(c, a, now) \in [World -> Int] /\ PartOf(a) \in [Payout -> Int]
<1>1. ASSUME NEW w \in World
      PROVE  w.received[a] + w.pending[a]
               - SumFunctionOnSet(GivenSince(c, a, now, w.session), Ids) \in Int
  <2>1. w.received[a] \in Int /\ w.pending[a] \in Int
        /\ w.session \in [Ids -> Session \cup {NoSession}]
    BY DEF World
  <2>2. SumFunctionOnSet(GivenSince(c, a, now, w.session), Ids) \in Int
    BY <2>1, GivenSinceType
  <2> QED
    BY <2>1, <2>2
<1>2. \A p \in Payout : (IF p.to = a THEN 0 - p.amount ELSE 0) \in Int
  BY DEF Payout
<1> QED
  BY <1>1, <1>2 DEF VaultBook, PartOf

\* A payout counts for its recipient the same whether it arrives or is kept.
LEMMA VaultPays ==
  ASSUME NEW c, NEW a \in Accounts, NEW now \in Nat
  PROVE  Pays(VaultBook(c, a, now), PartOf(a))
<1> SUFFICES ASSUME NEW w \in World, NEW v \in World, NEW p \in Payout,
                    HandsOver(w, v, p) \/ KeepsFor(w, v, p)
             PROVE  VaultBook(c, a, now)[v] = VaultBook(c, a, now)[w] - PartOf(a)[p]
  BY DEF Pays
<1> DEFINE gw == SumFunctionOnSet(GivenSince(c, a, now, w.session), Ids)
           gv == SumFunctionOnSet(GivenSince(c, a, now, v.session), Ids)
<1>1. /\ VaultBook(c, a, now)[w] = w.received[a] + w.pending[a] - gw
      /\ VaultBook(c, a, now)[v] = v.received[a] + v.pending[a] - gv
  BY DEF VaultBook
<1>2. gv = gw
  BY DEF HandsOver, KeepsFor
<1>3. gw \in Int
  BY GivenSinceType DEF World
<1> HIDE DEF gw, gv
<1>4. PartOf(a)[p] = IF p.to = a THEN 0 - p.amount ELSE 0
  BY DEF PartOf
<1>5. /\ w.received \in [Accounts -> Nat] /\ w.pending \in [Accounts -> Nat]
      /\ v.received \in [Accounts -> Nat] /\ v.pending \in [Accounts -> Nat]
      /\ p.amount \in Nat /\ p.to \in Accounts
  BY DEF World, Payout
<1>6. v.received[a] + v.pending[a]
        = w.received[a] + w.pending[a] + (IF p.to = a THEN p.amount ELSE 0)
  BY <1>5 DEF HandsOver, KeepsFor
<1>7. w.received[a] \in Int /\ w.pending[a] \in Int /\ v.received[a] \in Int /\ v.pending[a] \in Int
  BY <1>5
<1> QED
  BY <1>1, <1>2, <1>3, <1>4, <1>5, <1>6, <1>7

\* Opening and paying in give nobody anything; a split owes each party its share.
LEMMA VaultKept ==
  ASSUME EscrowInv, EscrowInv', GrowInv, NEW a \in Accounts
  PROVE  BooksKept(VaultBook(Committed, a, clock), PartOf(a))
<1> DEFINE book == VaultBook(Committed, a, clock)
           g == GivenSince(Committed, a, clock, session)
           h == GivenSince(Committed, a, clock, session')
<1>1. /\ Now \in World /\ Now' \in World /\ clock \in Nat
      /\ session \in [Ids -> Session \cup {NoSession}]
      /\ session' \in [Ids -> Session \cup {NoSession}]
      /\ received \in [Accounts -> Nat] /\ pending \in [Accounts -> Nat]
      /\ Now.session = session /\ Now.received = received /\ Now.pending = pending
      /\ Now'.session = session' /\ Now'.received = received' /\ Now'.pending = pending'
  BY DEF EscrowInv, TypeOK, World, Now
<1>2. /\ book[Now] = received[a] + pending[a] - SumFunctionOnSet(g, Ids)
      /\ book[Now'] = received'[a] + pending'[a] - SumFunctionOnSet(h, Ids)
  BY <1>1 DEF VaultBook
<1>3. ASSUME NEW i \in Ids, NEW x, session' = [session EXCEPT ![i] = x],
             ~session[i].settled, ~x.settled, received' = received, pending' = pending
      PROVE  book[Now'] = book[Now]
  <2>1. h = g
    BY <1>1, <1>3 DEF GivenSince
  <2> QED
    BY <1>2, <1>3, <2>1
<1>4. ASSUME NEW caller \in Accounts, NEW i \in Ids, NEW provider \in Accounts \cup {ZeroAddress},
             NEW price \in Prices, NEW duration \in Durations, NEW paid \in Payable,
             OpenSession(caller, i, provider, price, duration, paid)
      PROVE  book[Now'] = book[Now]
  <2> PICK x : x = [renter |-> caller, provider |-> provider, pricePerSecond |-> price,
                    startTime |-> clock, duration |-> duration, deposited |-> paid,
                    settled |-> FALSE]
    OBVIOUS
  <2>1. session' = [session EXCEPT ![i] = x] /\ session[i] = NoSession
        /\ received' = received /\ pending' = pending
    BY <1>4, ExistingSession DEF OpenSession
  <2>2. ~x.settled /\ ~session[i].settled
    BY <2>1 DEF NoSession
  <2> HIDE DEF book
  <2> QED
    BY <1>3, <2>1, <2>2
<1>5. ASSUME NEW i \in Ids, NEW added \in Durations, NEW paid \in Payable, TopUp(i, added, paid)
      PROVE  book[Now'] = book[Now]
  <2> PICK x : x = [session[i] EXCEPT !.duration = @ + added, !.deposited = @ + paid]
    OBVIOUS
  <2>1. session' = [session EXCEPT ![i] = x] /\ ~session[i].settled
        /\ received' = received /\ pending' = pending /\ session[i] \in Session
    BY <1>1, <1>5, ExistingSession DEF TopUp
  <2>2. ~x.settled
    BY <2>1 DEF Session
  <2> HIDE DEF book
  <2> QED
    BY <1>3, <2>1, <2>2
<1>6. ASSUME NEW i \in Ids, Settle(i)
      PROVE  book[Now'] = book[Now] + Total(PartOf(a), Payouts(session[i], clock))
  <2> PICK old : old = session[i]
    OBVIOUS
  <2> PICK x : x = [old EXCEPT !.settled = TRUE]
    OBVIOUS
  <2>1. session' = [session EXCEPT ![i] = x] /\ ~old.settled
        /\ received' = received /\ pending' = pending
        /\ old \in Session /\ SoundSession(old, clock)
    BY <1>1, <1>6, ExistingSession DEF Settle
  <2>2. /\ x.settled /\ x.provider = old.provider /\ x.renter = old.renter
        /\ x.pricePerSecond = old.pricePerSecond /\ x.duration = old.duration
        /\ x.startTime = old.startTime /\ x.deposited = old.deposited
    BY <2>1 DEF Session
  <2>3. Given(x, a, clock) = Given(old, a, clock)
    BY <2>2 DEF Given, ProviderAmount, RefundAmount, Elapsed
  <2>4. ~Committed.session[i].settled
    <3>1. Grew(Committed.session[i], old, clock)
      <4>1. Now \in Past
        BY DEF Past
      <4> QED
        BY <1>1, <4>1 DEF GrowInv, GrewSince
    <3> QED
      BY <2>1, <3>1 DEF Grew, NoSession
  <2>5. g[i] = 0 /\ h[i] = Given(old, a, clock) /\ \A j \in Ids \ {i} : h[j] = g[j]
    <3>1. session'[i] = x /\ session[i] = old /\ \A j \in Ids \ {i} : session'[j] = session[j]
      BY <1>1, <2>1
    <3>2. ASSUME NEW j \in Ids
          PROVE  /\ g[j] = IF session[j].settled /\ ~Committed.session[j].settled
                           THEN Given(session[j], a, clock) ELSE 0
                 /\ h[j] = IF session'[j].settled /\ ~Committed.session[j].settled
                           THEN Given(session'[j], a, clock) ELSE 0
      BY DEF GivenSince
    <3> HIDE DEF g, h
    <3>3. g[i] = 0
      BY <2>1, <3>1, <3>2
    <3>4. h[i] = Given(x, a, clock)
      BY <2>2, <2>4, <3>1, <3>2
    <3>5. ASSUME NEW j \in Ids \ {i} PROVE h[j] = g[j]
      BY <3>1, <3>2
    <3> QED
      BY <2>3, <3>3, <3>4, <3>5
  <2>6. /\ \A j \in Ids : g[j] \in Int /\ h[j] \in Int
        /\ SumFunctionOnSet(g, Ids) \in Int
    BY <1>1, GivenSinceType
  <2> HIDE DEF g, h
  <2>7. SumFunctionOnSet(h, Ids) = SumFunctionOnSet(g, Ids) + (h[i] - g[i])
    <3>1. \A j \in Ids \ {i} : h[j] = g[j]
      BY <2>5
    <3> QED
      BY ONLY <2>6, <3>1, i \in Ids, FiniteAssumption, SumUpdate
  <2>8. ProviderAmount(old, clock) \in Nat /\ RefundAmount(old, clock) \in Nat
    BY <1>1, <2>1, SplitWithinDeposit DEF SoundSession
  <2>9. Total(PartOf(a), Payouts(old, clock)) = 0 - Given(old, a, clock)
    <3> DEFINE m == ProviderAmount(old, clock)
               n == RefundAmount(old, clock)
    <3>1. Total(PartOf(a), Payouts(old, clock)) =
            (IF m > 0 THEN PartOf(a)[[to |-> old.provider, amount |-> m]] ELSE 0)
            + (IF n > 0 THEN PartOf(a)[[to |-> old.renter, amount |-> n]] ELSE 0)
      BY <1>1, <2>1, VaultTypes, TotalOfPayouts DEF SoundSession
    <3>2. Given(old, a, clock) =
            (IF old.provider = a THEN m ELSE 0) + (IF old.renter = a THEN n ELSE 0)
      BY DEF Given
    <3> HIDE DEF m, n
    <3>3. /\ m > 0 => PartOf(a)[[to |-> old.provider, amount |-> m]]
                        = IF old.provider = a THEN 0 - m ELSE 0
          /\ n > 0 => PartOf(a)[[to |-> old.renter, amount |-> n]]
                        = IF old.renter = a THEN 0 - n ELSE 0
      BY <2>1, <2>8 DEF PartOf, Payout, Session, m, n
    <3>4. m \in Nat /\ n \in Nat
      BY <2>8 DEF m, n
    <3> QED
      BY <3>1, <3>2, <3>3, <3>4
  <2>10. Given(old, a, clock) \in Int
    BY <1>1, <2>1, GivenType
  <2>11. received[a] \in Int /\ pending[a] \in Int
    BY <1>1
  <2> HIDE DEF book
  <2>12. book[Now'] = book[Now] + (0 - Given(old, a, clock))
    BY <1>2, <2>1, <2>5, <2>6, <2>7, <2>10, <2>11
  <2> QED
    BY <2>9, <2>12
<1> HIDE DEF book
<1> QED
  BY <1>4, <1>5, <1>6 DEF BooksKept, book

\* A transaction that comes to its end puts the account's shares on its side.
LEMMA VaultCredits ==
  ASSUME EscrowInv, EscrowInv', GrowInv, VaultInv, [Next]_vars, stack' = << >>, clock' = clock
  PROVE  /\ \A i \in Ids :
              Vault!Advances(DealOf(Committed.session[i]), DealOf(Committed'.session[i]))
         /\ \A a \in Accounts :
              Committed'.received[a] + Committed'.pending[a] =
                Committed.received[a] + Committed.pending[a]
                + SumFunctionOnSet([i \in Ids |-> Vault!Share(DealOf(Committed'.session[i]), a, clock)],
                    {i \in Ids : Committed'.session[i].settled /\ ~Committed.session[i].settled})
<1>1. /\ Committed' = Now' /\ GrewSince(Committed, Committed', clock)
      /\ Committed \in World /\ Committed' \in World /\ clock \in Nat
      /\ Sound(Committed', clock)
  <2>1. Committed' = Now' /\ GrewSince(Committed, Committed', clock)
    BY GrowStep
  <2>2. Committed \in World
    BY PastType
  <2>3. Now' \in World /\ Sound(Now', clock) /\ clock \in Nat
    BY DEF EscrowInv, TypeOK
  <2> QED
    BY <2>1, <2>2, <2>3
<1>2. ASSUME NEW i \in Ids
      PROVE  Vault!Advances(DealOf(Committed.session[i]), DealOf(Committed'.session[i]))
  <2> PICK old : old = Committed.session[i]
    OBVIOUS
  <2> PICK new : new = Committed'.session[i]
    OBVIOUS
  <2>1. Grew(old, new, clock)
    BY <1>1 DEF GrewSince
  <2>2. CASE new = old
    BY <2>2 DEF Vault!Advances
  <2>3. CASE /\ old = NoSession
             /\ new \in Session
             /\ new.pricePerSecond > 0 /\ new.deposited > 0 /\ new.startTime = clock
    <3>1. DealOf(old) = Vault!NoDeal
      BY <2>3 DEF DealOf, NoSession, Vault!NoDeal
    <3>2. Vault!Opened(DealOf(new)) /\ DealOf(new).paid > 0
      BY <2>3 DEF DealOf, Session, Vault!Opened
    <3> QED
      BY <3>1, <3>2 DEF Vault!Advances
  <2>4. CASE /\ old \in Session /\ ~old.settled
             /\ new \in Session
             /\ new.renter = old.renter /\ new.provider = old.provider
             /\ new.pricePerSecond = old.pricePerSecond /\ new.startTime = old.startTime
             /\ old.duration <= new.duration /\ old.deposited <= new.deposited
    <3>1. DealOf(old) # Vault!NoDeal
      <4>1. DealOf(old).renter \in Accounts /\ Vault!NoDeal.renter = ZeroAddress
        BY <2>4 DEF DealOf, Session, Vault!NoDeal
      <4> QED
        BY <4>1, AddressAssumption
    <3>2. ~DealOf(old).closed /\ DealOf(new).paid >= DealOf(old).paid
      BY <2>4 DEF DealOf, Session
    <3>3. DealOf(new) = [DealOf(old) EXCEPT !.paid = DealOf(new).paid, !.closed = DealOf(new).closed]
      <4> DEFINE Deals == [renter : Accounts, provider : Accounts, price : Nat, start : Nat,
                           paid : Nat, closed : BOOLEAN]
      <4>1. DealOf(old) \in Deals /\ DealOf(new) \in Deals
        BY <2>4 DEF DealOf, Session
      <4>2. /\ DealOf(new).renter = DealOf(old).renter /\ DealOf(new).provider = DealOf(old).provider
            /\ DealOf(new).price = DealOf(old).price /\ DealOf(new).start = DealOf(old).start
        BY <2>4 DEF DealOf
      <4>3. ASSUME NEW x \in Deals, NEW y \in Deals, x.renter = y.renter, x.provider = y.provider,
                   x.price = y.price, x.start = y.start
            PROVE  x = [y EXCEPT !.paid = x.paid, !.closed = x.closed]
        BY <4>3
      <4> HIDE DEF Deals
      <4> QED
        BY <4>1, <4>2, <4>3, Zenon
    <3> QED
      BY <3>1, <3>2, <3>3 DEF Vault!Advances
  <2> QED
    BY <2>1, <2>2, <2>3, <2>4 DEF Grew
<1>3. ASSUME NEW a \in Accounts
      PROVE  Committed'.received[a] + Committed'.pending[a] =
               Committed.received[a] + Committed.pending[a]
               + SumFunctionOnSet([i \in Ids |-> Vault!Share(DealOf(Committed'.session[i]), a, clock)],
                   {i \in Ids : Committed'.session[i].settled /\ ~Committed.session[i].settled})
  <2> DEFINE book == VaultBook(Committed, a, clock)
             base == Committed.received[a] + Committed.pending[a]
             g == GivenSince(Committed, a, clock, Committed'.session)
             closed == {i \in Ids : Committed'.session[i].settled /\ ~Committed.session[i].settled}
             f == [i \in Ids |-> Vault!Share(DealOf(Committed'.session[i]), a, clock)]
  <2>1. Chain(book, PartOf(a), base, stack', Now')
    <3>1. book \in [World -> Int] /\ PartOf(a) \in [Payout -> Int]
      BY <1>1, VaultTypes
    <3>2. Pays(book, PartOf(a)) /\ BooksKept(book, PartOf(a))
      BY <1>1, VaultPays, VaultKept
    <3>3. Chain(book, PartOf(a), base, stack, Now)
      BY DEF VaultInv
    <3> HIDE DEF book, base
    <3> QED
      BY <3>1, <3>2, <3>3, ChainStep
  <2>2. StateAfter(stack', Now', 0) = Now'
    BY DEF StateAfter
  <2>3. book[Now'] = base
    BY <2>1, <2>2 DEF Chain
  <2>4. book[Now'] = Committed'.received[a] + Committed'.pending[a] - SumFunctionOnSet(g, Ids)
    BY <1>1 DEF VaultBook
  <2>5. /\ \A i \in Ids : g[i] \in Int
        /\ SumFunctionOnSet(g, Ids) \in Int
    BY <1>1, GivenSinceType DEF World
  <2>6. ASSUME NEW i \in Ids
        PROVE  g[i] = IF Committed'.session[i].settled /\ ~Committed.session[i].settled
                      THEN Given(Committed'.session[i], a, clock) ELSE 0
    BY DEF GivenSince
  <2>7. closed \in SUBSET Ids /\ \A i \in Ids \ closed : g[i] = 0
    BY <2>6
  <2>8. ASSUME NEW i \in closed PROVE g[i] = f[i]
    <3> PICK x : x = Committed'.session[i]
      OBVIOUS
    <3>1. x \in Session \cup {NoSession} /\ x.settled /\ SoundSession(x, clock)
      BY <1>1, <2>8 DEF World, Sound
    <3>2. x \in Session
      BY <3>1 DEF NoSession
    <3>3. Vault!Share(DealOf(x), a, clock) = Given(x, a, clock)
      BY <1>1, <3>1, <3>2, GivenIsShare DEF SoundSession
    <3> QED
      BY <2>6, <2>8, <3>3
  <2>9. base \in Int /\ Committed'.received[a] \in Int /\ Committed'.pending[a] \in Int
    BY <1>1 DEF World
  <2> HIDE DEF g, f, closed, base, book
  <2>10. SumFunctionOnSet(g, closed) = SumFunctionOnSet(g, Ids)
    BY ONLY <2>5, <2>7, FiniteAssumption, SumPart
  <2>11. SumFunctionOnSet(g, closed) = SumFunctionOnSet(f, closed)
    <3>1. IsFiniteSet(closed)
      BY <2>7, FiniteAssumption, FS_Subset
    <3>2. \A i \in closed : g[i] \in Int /\ g[i] = f[i]
      BY <2>5, <2>7, <2>8
    <3> QED
      BY ONLY <3>1, <3>2, SumSame
  <2>12. Committed'.received[a] + Committed'.pending[a] = base + SumFunctionOnSet(f, closed)
    BY <2>3, <2>4, <2>5, <2>9, <2>10, <2>11
  <2> QED
    BY <2>12 DEF base, f, closed
<1> QED
  BY <1>2, <1>3

\* The account's book is kept through every step.
LEMMA VaultInvStep ==
  ASSUME EscrowInv, EscrowInv', GrowInv, VaultInv, [Next]_vars
  PROVE  VaultInv'
<1> SUFFICES ASSUME NEW a \in Accounts
             PROVE  Chain(VaultBook(Committed', a, clock'), PartOf(a),
                          Committed'.received[a] + Committed'.pending[a], stack', Now')
  BY DEF VaultInv, Chain, StateAfter, Left, Total, VaultBook, PartOf, GivenSince, Given,
     ProviderAmount, RefundAmount, Elapsed
<1>1. CASE stack' # << >>
  <2>1. Committed' = Committed /\ clock' = clock
    <3>1. clock' = clock
      BY <1>1 DEF Next, vars, OpenSession, TopUp, Settle, Withdraw, Send, Accept, RefusePayout,
         RefuseWithdrawal, Tick
    <3> QED
      BY <1>1, <3>1, GrowStep
  <2> DEFINE book == VaultBook(Committed, a, clock)
             base == Committed.received[a] + Committed.pending[a]
  <2>2. Chain(book, PartOf(a), base, stack', Now')
    <3>0. clock \in Nat
      BY DEF EscrowInv, TypeOK
    <3>1. book \in [World -> Int] /\ PartOf(a) \in [Payout -> Int]
      BY <3>0, VaultTypes
    <3>2. Pays(book, PartOf(a)) /\ BooksKept(book, PartOf(a))
      BY <3>0, VaultPays, VaultKept
    <3>3. Chain(book, PartOf(a), base, stack, Now)
      BY DEF VaultInv
    <3> HIDE DEF book, base
    <3> QED
      BY <3>1, <3>2, <3>3, ChainStep
  <2> QED
    BY <2>1, <2>2
<1>2. CASE stack' = << >>
  <2>1. Committed' = Now' /\ Now' \in World /\ clock' \in Nat
    BY <1>2, GrowStep DEF EscrowInv, TypeOK
  <2> DEFINE g == GivenSince(Now', a, clock', Now'.session)
  <2>2. \A i \in Ids : g[i] = 0
    BY DEF GivenSince
  <2> HIDE DEF g
  <2>3. SumFunctionOnSet(g, Ids) = 0
    BY <2>2, FiniteAssumption, SumZero
  <2>4. VaultBook(Now', a, clock')[Now'] = Now'.received[a] + Now'.pending[a]
    <3>1. VaultBook(Now', a, clock')[Now'] = Now'.received[a] + Now'.pending[a] - SumFunctionOnSet(g, Ids)
      BY <2>1 DEF VaultBook, g
    <3>2. Now'.received[a] \in Int /\ Now'.pending[a] \in Int
      BY <2>1 DEF World
    <3> QED
      BY <2>3, <3>1, <3>2
  <2>5. StateAfter(stack', Now', 0) = Now' /\ 1..Len(stack') = {}
    BY <1>2 DEF StateAfter
  <2> QED
    BY <2>1, <2>4, <2>5 DEF Chain
<1> QED
  BY <1>1, <1>2

\* Nothing has been given, and nothing is owed, at the start.
LEMMA VaultInit ==
  ASSUME Init
  PROVE  VaultInv /\ Vault!Init
<1>1. stack = << >> /\ Len(stack) = 0 /\ Committed = Now /\ Now \in World /\ clock = 0
  BY DEF Init, Now, World, Committed
<1>2. /\ Now.session = [i \in Ids |-> NoSession] /\ Now.received = [a \in Accounts |-> 0]
      /\ Now.pending = [a \in Accounts |-> 0]
  BY DEF Init, Now
<1>3. ASSUME NEW a \in Accounts
      PROVE  Chain(VaultBook(Committed, a, clock), PartOf(a),
                   Committed.received[a] + Committed.pending[a], stack, Now)
  <2> DEFINE g == GivenSince(Now, a, clock, Now.session)
  <2>1. \A i \in Ids : g[i] = 0
    BY DEF GivenSince
  <2> HIDE DEF g
  <2>2. SumFunctionOnSet(g, Ids) = 0
    BY <2>1, FiniteAssumption, SumZero
  <2>3. VaultBook(Now, a, clock)[Now] = Now.received[a] + Now.pending[a] - SumFunctionOnSet(g, Ids)
    BY <1>1 DEF VaultBook, g
  <2>4. StateAfter(stack, Now, 0) = Now /\ 1..Len(stack) = {}
    BY <1>1 DEF StateAfter
  <2> QED
    BY <1>1, <1>2, <2>2, <2>3, <2>4 DEF Chain
<1>4. [i \in Ids |-> DealOf(Committed.session[i])] = [i \in Ids |-> Vault!NoDeal]
  BY <1>1, <1>2 DEF DealOf, NoSession, Vault!NoDeal
<1>5. [a \in Accounts |-> Committed.received[a] + Committed.pending[a]] = [a \in Accounts |-> 0]
  BY <1>1, <1>2
<1> QED
  BY <1>1, <1>3, <1>4, <1>5 DEF VaultInv, Vault!Init

\* Every step is one of the vault's, or one it does not see.
LEMMA VaultStep ==
  ASSUME EscrowInv, EscrowInv', GrowInv, VaultInv, [Next]_vars
  PROVE  [Vault!Next]_Vault!vaultVars
<1> DEFINE deal == [i \in Ids |-> DealOf(Committed.session[i])]
           credited == [a \in Accounts |-> Committed.received[a] + Committed.pending[a]]
<1>1. CASE Committed' = Committed /\ clock' = clock
  BY <1>1 DEF Vault!vaultVars
<1>2. CASE stack' = << >> /\ clock' = clock
  <2>1. /\ \A i \in Ids :
             Vault!Advances(DealOf(Committed.session[i]), DealOf(Committed'.session[i]))
        /\ \A a \in Accounts :
             Committed'.received[a] + Committed'.pending[a] =
               Committed.received[a] + Committed.pending[a]
               + SumFunctionOnSet([i \in Ids |-> Vault!Share(DealOf(Committed'.session[i]), a, clock)],
                   {i \in Ids : Committed'.session[i].settled /\ ~Committed.session[i].settled})
    BY <1>2, VaultCredits
  <2> DEFINE closed == {i \in Ids : Committed'.session[i].settled /\ ~Committed.session[i].settled}
             shares(a) == [i \in Ids |-> Vault!Share(DealOf(Committed'.session[i]), a, clock)]
  <2>2. \A i \in Ids : Vault!Advances(deal[i], deal'[i])
    BY <2>1
  <2>3. {i \in Ids : deal'[i].closed /\ ~deal[i].closed} = closed
    BY DEF DealOf
  <2>4. \A a \in Accounts : [i \in Ids |-> Vault!Share(deal'[i], a, clock)] = shares(a)
    OBVIOUS
  <2>5. \A a \in Accounts :
          Vault!SumFunctionOnSet(shares(a), closed) = SumFunctionOnSet(shares(a), closed)
    BY SameSum
  <2>6. credited' = [a \in Accounts |->
                       credited[a] + Vault!SumFunctionOnSet(shares(a), closed)]
    BY <2>1, <2>5
  <2>7. credited' = [a \in Accounts |->
                       credited[a] + Vault!SumFunctionOnSet(
                         [i \in Ids |-> Vault!Share(deal'[i], a, clock)],
                         {i \in Ids : deal'[i].closed /\ ~deal[i].closed})]
    <3> HIDE DEF deal, credited, shares, closed
    <3> QED
      BY <2>3, <2>4, <2>6, Zenon
  <2>8. Vault!Transact
    BY <1>2, <2>2, <2>7, Zenon DEF Vault!Transact
  <2> QED
    BY <2>8 DEF Vault!Next
<1>3. CASE Tick
  <2>1. Committed' = Committed
    BY <1>3 DEF Tick, Committed, Now, ledger
  <2>2. clock' > clock
    BY <1>3 DEF Tick, EscrowInv, TypeOK
  <2>3. Vault!Tick
    BY <2>1, <2>2 DEF Vault!Tick
  <2> QED
    BY <2>3 DEF Vault!Next
<1>4. clock' = clock \/ Tick
  BY DEF Next, vars, OpenSession, TopUp, Settle, Withdraw, Send, Accept, RefusePayout,
     RefuseWithdrawal
<1>5. stack' = << >> \/ Committed' = Committed
  BY GrowStep
<1> QED
  BY <1>1, <1>2, <1>3, <1>4, <1>5

\* However payouts fail and whoever calls back, to any depth: seen from outside
\* each session is split once, by the time it lasted, and every account is given
\* exactly its shares, delivered or kept for it.
THEOREM EscrowImplementsVault == Spec => ImplementsVault
<1>1. Init => GrowInv
  <2> SUFFICES ASSUME Init PROVE GrewSince(Committed, Now, clock) /\ Past = {Now}
    BY DEF GrowInv
  <2>1. stack = << >> /\ Committed = Now /\ Now \in World
    BY DEF Init, Committed, Now, World
  <2> QED
    BY <2>1, GrewSame DEF Past
<1>2. Init => VaultInv /\ Vault!Init
  BY VaultInit
<1>3. EscrowInv /\ EscrowInv' /\ GrowInv /\ [Next]_vars => GrowInv'
  BY GrowStep
<1>4. EscrowInv /\ EscrowInv' /\ GrowInv /\ VaultInv /\ [Next]_vars =>
        VaultInv' /\ [Vault!Next]_Vault!vaultVars
  BY VaultInvStep, VaultStep
<1> QED
  BY <1>1, <1>2, <1>3, <1>4, EscrowInvHolds, PTL DEF Spec, ImplementsVault, Vault!Spec
=============================================================================
