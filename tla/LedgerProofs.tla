---------------------------- MODULE LedgerProofs ----------------------------
(* What each method of a lease's ledger preserves, for every price and clock *)
(* resolution.  Metering and NodeAgent call the same methods, so their       *)
(* proofs share these lemmas.                                                *)
EXTENDS LeaseLedger, TLAPS

\* Two ledger records that agree on everything but the expiry.
SameButExpiry(k, l) ==
  /\ k.status = l.status /\ k.metered = l.metered
  /\ k.sessionSeconds = l.sessionSeconds /\ k.credit = l.credit
  /\ k.burned = l.burned /\ k.price = l.price /\ k.lastTickAt = l.lastTickAt
  /\ k.pausedAt = l.pausedAt /\ k.settle = l.settle /\ k.refunded = l.refunded

\* The credit of a typed ledger buys a whole number of seconds.
LEMMA SecondsRemainingType ==
  ASSUME NEW l \in LeaseRecord
  PROVE  SecondsRemaining(l) \in Nat
<1>1. l.credit \in Nat /\ l.price \in Nat
  BY DEF LeaseRecord
<1>2. CASE l.price > 0
  BY <1>1, <1>2 DEF SecondsRemaining
<1>3. CASE ~(l.price > 0)
  BY <1>3 DEF SecondsRemaining
<1>4. QED
  BY <1>2, <1>3

\* A new lease is typed and holds no money.
LEMMA NewLeaseType ==
  ASSUME NEW seconds \in Nat, NEW now \in Nat
  PROVE  LET l == NewLease(seconds, now)
         IN  /\ l \in LeaseRecord
             /\ l.status = "provisioning" /\ l.metered = FALSE /\ l.credit = 0
             /\ l.burned = 0 /\ l.price = 0 /\ l.settle = "none" /\ l.refunded = 0
             /\ l.lastTickAt = 0
<1> DEFINE m == (seconds + Minute - 1) \div Minute
           minutes == RoundedMinutes(seconds)
<1>1. minutes \in Nat
  <2>1. m \in Int
    BY MinuteAssumption
  <2>2. minutes = IF m < 1 THEN 1 ELSE m
    BY DEF RoundedMinutes
  <2> HIDE DEF m, minutes
  <2>3. QED
    BY <2>1, <2>2
<1> HIDE DEF minutes
<1>2. minutes * Minute \in Nat
  BY <1>1, MinuteAssumption
<1>3. now + minutes * Minute * Second \in Nat
  BY <1>1, <1>2, MinuteAssumption, SecondAssumption
<1>4. QED
  BY <1>3 DEF NewLease, LeaseRecord, Status, Live, SettleState, NotPaused, minutes

\* syncExpiryLocked moves nothing but the expiry and its pin.
LEMMA SyncExpiryEffect ==
  ASSUME NEW l \in LeaseRecord
  PROVE  /\ SyncExpiry(l) \in LeaseRecord
         /\ SameButExpiry(SyncExpiry(l), l)
<1> DEFINE s == SecondsRemaining(l)
<1>1. s \in Nat
  BY SecondsRemainingType
<1>2. l.lastTickAt + s * Second \in Nat
  BY <1>1, SecondAssumption DEF LeaseRecord
<1>3. CASE ~l.metered
  BY <1>3 DEF SyncExpiry, SameButExpiry
<1>4. CASE l.metered /\ s > 0
  <2>1. SyncExpiry(l) = [l EXCEPT !.exhausted = FALSE, !.expiresAt = l.lastTickAt + s * Second]
    BY <1>4 DEF SyncExpiry
  <2> HIDE DEF s
  <2>2. QED
    BY <2>1, <1>2 DEF LeaseRecord, SameButExpiry
<1>5. CASE l.metered /\ ~(s > 0)
  BY <1>5 DEF SyncExpiry, SameButExpiry, LeaseRecord
<1>6. QED
  BY <1>3, <1>4, <1>5

\* A whole number of seconds at price p costs no more than the ticks e they
\* were cut from.
LEMMA TruncatedCharge ==
  ASSUME NEW p \in Nat, NEW e \in Nat
  PROVE  /\ p * (e \div Second) \in Nat
         /\ (p * (e \div Second)) * Second <= p * e
<1> DEFINE d == e \div Second
<1>1. d \in Nat /\ d * Second <= e
  BY SecondAssumption
<1> HIDE DEF d
<1>2. p * d \in Nat /\ p * (d * Second) <= p * e
  BY <1>1, SecondAssumption
<1>3. (p * d) * Second = p * (d * Second)
  BY <1>1, SecondAssumption
<1>4. QED
  BY <1>2, <1>3 DEF d

\* Charge is at most the credit, and at most what the elapsed ticks are worth.
LEMMA ChargeBounds ==
  ASSUME NEW l \in LeaseRecord, NEW now \in Nat, l.lastTickAt <= now
  PROVE  /\ Charge(l, now) \in 0..l.credit
         /\ Charge(l, now) * Second <= l.price * (now - l.lastTickAt)
<1> DEFINE e == now - l.lastTickAt
           due == l.price * (e \div Second)
<1>1. l.price \in Nat /\ l.credit \in Nat /\ e \in Nat
  BY DEF LeaseRecord
<1>2. due \in Nat /\ due * Second <= l.price * e
  BY <1>1, TruncatedCharge
<1>3. Charge(l, now) = IF due > l.credit THEN l.credit ELSE due
  BY DEF Charge
<1> HIDE DEF due
<1>4. CASE due > l.credit
  <2>1. l.credit * Second <= due * Second
    BY <1>1, <1>2, <1>4, SecondAssumption
  <2>2. QED
    BY <2>1, <1>1, <1>2, <1>3, <1>4, SecondAssumption
<1>5. CASE ~(due > l.credit)
  BY <1>1, <1>2, <1>3, <1>5
<1>6. QED
  BY <1>4, <1>5

\* Burn moves money from the renter's half to the provider's and no other way,
\* and no more of it than the time since the last tick is worth.
LEMMA BurnEffect ==
  ASSUME NEW l \in LeaseRecord, NEW now \in Nat, l.metered, l.lastTickAt <= now
  PROVE  LET k == Burn(l, now)
         IN  /\ k \in LeaseRecord
             /\ k.status = l.status /\ k.metered = l.metered /\ k.price = l.price
             /\ k.settle = l.settle /\ k.refunded = l.refunded
             /\ k.sessionSeconds = l.sessionSeconds
             /\ k.lastTickAt = now
             /\ k.credit \in 0..l.credit
             /\ k.burned = l.burned + (l.credit - k.credit)
             /\ (k.burned - l.burned) * Second <= l.price * (now - l.lastTickAt)
<1> DEFINE c == Charge(l, now)
           m == [l EXCEPT !.credit = @ - c, !.burned = @ + c, !.lastTickAt = now]
<1>1. l.credit \in Nat /\ l.burned \in Nat /\ l.price \in Nat /\ l.lastTickAt \in Nat
  BY DEF LeaseRecord
<1>2. c \in 0..l.credit /\ c * Second <= l.price * (now - l.lastTickAt)
  BY ChargeBounds
<1>3. CASE now <= l.lastTickAt
  <2>1. Burn(l, now) = [l EXCEPT !.lastTickAt = now]
    BY <1>3 DEF Burn
  <2>2. now = l.lastTickAt
    BY <1>1, <1>3
  <2>3. 0 * Second <= l.price * (now - l.lastTickAt)
    BY <1>1, <2>2, SecondAssumption
  <2>4. /\ Burn(l, now) = l
    BY <2>1, <2>2 DEF LeaseRecord
  <2>5. l.credit \in 0..l.credit /\ l.burned = l.burned + (l.credit - l.credit)
        /\ (l.burned - l.burned) * Second <= l.price * (now - l.lastTickAt)
    BY <1>1, <2>3
  <2>6. QED
    BY <2>2, <2>4, <2>5
<1>4. CASE ~(now <= l.lastTickAt)
  <2>1. Burn(l, now) = SyncExpiry(m)
    BY <1>4 DEF Burn
  <2> HIDE DEF c
  <2>0. l.credit - c \in Nat /\ l.burned + c \in Nat
    BY <1>1, <1>2
  <2>2. /\ m \in LeaseRecord
        /\ m.status = l.status /\ m.metered = l.metered /\ m.price = l.price
        /\ m.settle = l.settle /\ m.refunded = l.refunded
        /\ m.sessionSeconds = l.sessionSeconds
        /\ m.lastTickAt = now /\ m.credit = l.credit - c /\ m.burned = l.burned + c
    BY <2>0 DEF LeaseRecord
  <2> HIDE DEF m
  <2>3. SyncExpiry(m) \in LeaseRecord /\ SameButExpiry(SyncExpiry(m), m)
    BY <2>2, SyncExpiryEffect
  <2>4. QED
    BY <1>1, <1>2, <2>1, <2>2, <2>3 DEF SameButExpiry
<1>5. QED
  BY <1>3, <1>4

\* A top-up adds its whole amount to the renter's half.
LEMMA AddCreditEffect ==
  ASSUME NEW l \in LeaseRecord, NEW amount \in Nat, l.metered
  PROVE  LET k == AddCredit(l, amount)
         IN  /\ k \in LeaseRecord
             /\ k.status = l.status /\ k.metered = l.metered /\ k.price = l.price
             /\ k.settle = l.settle /\ k.refunded = l.refunded
             /\ k.sessionSeconds = l.sessionSeconds
             /\ k.lastTickAt = l.lastTickAt /\ k.burned = l.burned
             /\ k.credit = l.credit + amount
<1> DEFINE m == [l EXCEPT !.credit = @ + amount]
<1>1. l.credit + amount \in Nat
  BY DEF LeaseRecord
<1>2. /\ m \in LeaseRecord
      /\ m.status = l.status /\ m.metered = l.metered /\ m.price = l.price
      /\ m.settle = l.settle /\ m.refunded = l.refunded
      /\ m.sessionSeconds = l.sessionSeconds
      /\ m.lastTickAt = l.lastTickAt /\ m.burned = l.burned
      /\ m.credit = l.credit + amount
  BY <1>1 DEF LeaseRecord
<1>3. AddCredit(l, amount) = SyncExpiry(m)
  BY DEF AddCredit
<1> HIDE DEF m
<1>4. SyncExpiry(m) \in LeaseRecord /\ SameButExpiry(SyncExpiry(m), m)
  BY <1>2, SyncExpiryEffect
<1>5. QED
  BY <1>2, <1>3, <1>4 DEF SameButExpiry

\* A thaw moves no money, and restarts the meter's clock if there was a freeze.
LEMMA ResumeEffect ==
  ASSUME NEW l \in LeaseRecord, NEW now \in Nat
  PROVE  LET k == Resume(l, now)
         IN  /\ k \in LeaseRecord
             /\ k.metered = l.metered /\ k.price = l.price
             /\ k.settle = l.settle /\ k.refunded = l.refunded
             /\ k.sessionSeconds = l.sessionSeconds
             /\ k.burned = l.burned /\ k.credit = l.credit
             /\ l.status = "paused" => k.status = "active" /\ k.lastTickAt = now
             /\ l.status # "paused" => k.status = l.status /\ k.lastTickAt = l.lastTickAt
<1> DEFINE m == [l EXCEPT !.status = "active", !.pausedAt = NotPaused, !.lastTickAt = now]
<1>1. CASE l.status = "paused"
  <2>1. /\ m \in LeaseRecord
        /\ m.status = "active" /\ m.metered = l.metered /\ m.price = l.price
        /\ m.settle = l.settle /\ m.refunded = l.refunded
        /\ m.sessionSeconds = l.sessionSeconds
        /\ m.lastTickAt = now /\ m.burned = l.burned /\ m.credit = l.credit
    BY DEF LeaseRecord, Status, Live
  <2>2. Resume(l, now) = SyncExpiry(m)
    BY <1>1 DEF Resume
  <2> HIDE DEF m
  <2>3. SyncExpiry(m) \in LeaseRecord /\ SameButExpiry(SyncExpiry(m), m)
    BY <2>1, SyncExpiryEffect
  <2>4. QED
    BY <1>1, <2>1, <2>2, <2>3 DEF SameButExpiry
<1>2. CASE l.status # "paused"
  BY <1>2 DEF Resume
<1>3. QED
  BY <1>1, <1>2

\* Metering starts the ledger with exactly the amount that settled.
LEMMA MarkMeteredEffect ==
  ASSUME NEW l \in LeaseRecord, NEW seconds \in Nat, NEW amount \in Nat, NEW now \in Nat
  PROVE  LET k == MarkMetered(l, seconds, amount, now)
         IN  /\ k \in LeaseRecord
             /\ k.status = l.status /\ k.metered /\ k.price = Price
             /\ k.settle = "pending" /\ k.refunded = l.refunded
             /\ k.sessionSeconds = seconds
             /\ k.burned = 0 /\ k.credit = amount /\ k.lastTickAt = now
<1> DEFINE m == [l EXCEPT !.metered = TRUE, !.sessionSeconds = seconds, !.price = Price,
                          !.credit = amount, !.burned = 0, !.lastTickAt = now,
                          !.settle = "pending"]
<1>1. /\ m \in LeaseRecord
      /\ m.status = l.status /\ m.metered /\ m.price = Price
      /\ m.settle = "pending" /\ m.refunded = l.refunded
      /\ m.sessionSeconds = seconds
      /\ m.burned = 0 /\ m.credit = amount /\ m.lastTickAt = now
  BY PriceAssumption DEF LeaseRecord, SettleState
<1>2. MarkMetered(l, seconds, amount, now) = SyncExpiry(m)
  BY DEF MarkMetered
<1> HIDE DEF m
<1>3. SyncExpiry(m) \in LeaseRecord /\ SameButExpiry(SyncExpiry(m), m)
  BY <1>1, SyncExpiryEffect
<1>4. QED
  BY <1>1, <1>2, <1>3 DEF SameButExpiry

-----------------------------------------------------------------------------
(* Every method keeps a ledger well typed, and only SetStatus, Pause and      *)
(* Resume move its status.                                                   *)

\* Amounts a price and a length make are natural numbers.
LEMMA AmountType ==
  ASSUME NEW p \in Nat, NEW n \in Nat
  PROVE  p * n \in Nat
OBVIOUS


\* A tick keeps the ledger well typed even when its instant is in the past.
LEMMA BurnKeeps ==
  ASSUME NEW l \in LeaseRecord, NEW now \in Nat
  PROVE  Burn(l, now) \in LeaseRecord /\ Burn(l, now).status = l.status
<1>1. CASE ~l.metered
  BY <1>1 DEF Burn
<1>2. CASE l.metered /\ now <= l.lastTickAt
  BY <1>2 DEF Burn, LeaseRecord
<1>3. CASE l.metered /\ ~(now <= l.lastTickAt)
  <2>1. l.lastTickAt <= now
    BY <1>3 DEF LeaseRecord
  <2>2. QED
    BY <1>3, <2>1, BurnEffect
<1>4. QED
  BY <1>1, <1>2, <1>3

\* Every method that pays, banks or settles keeps the ledger typed and its status.
LEMMA MethodsKeep ==
  ASSUME NEW l \in LeaseRecord, NEW now \in Nat, NEW amount \in Nat, NEW seconds \in Nat
  PROVE  /\ MarkMetered(l, seconds, amount, now) \in LeaseRecord
         /\ MarkMetered(l, seconds, amount, now).status = l.status
         /\ AddCredit(l, amount) \in LeaseRecord
         /\ AddCredit(l, amount).status = l.status
         /\ MarkSettled(l, amount) \in LeaseRecord
         /\ MarkSettled(l, amount).status = l.status
<1>1. /\ MarkMetered(l, seconds, amount, now) \in LeaseRecord
      /\ MarkMetered(l, seconds, amount, now).status = l.status
  BY MarkMeteredEffect
<1>2. AddCredit(l, amount) \in LeaseRecord /\ AddCredit(l, amount).status = l.status
  <2>1. CASE l.metered
    BY <2>1, AddCreditEffect
  <2>2. CASE ~l.metered
    BY <2>2 DEF AddCredit
  <2>3. QED
    BY <2>1, <2>2
<1>3. MarkSettled(l, amount) \in LeaseRecord /\ MarkSettled(l, amount).status = l.status
  BY DEF MarkSettled, LeaseRecord, SettleState
<1>4. QED
  BY <1>1, <1>2, <1>3

\* A status moves only out of a live one; pausing and thawing only swap the two
\* statuses a container stands behind.
LEMMA StatusMoves ==
  ASSUME NEW l \in LeaseRecord, NEW now \in Nat, NEW status \in Status
  PROVE  /\ SetStatus(l, status) \in LeaseRecord
         /\ SetStatus(l, status).status = IF IsTerminal(l) THEN l.status ELSE status
         /\ Pause(l, now) \in LeaseRecord
         /\ Pause(l, now).status = IF l.status = "active" THEN "paused" ELSE l.status
         /\ Resume(l, now) \in LeaseRecord
         /\ Resume(l, now).status = IF l.status = "paused" THEN "active" ELSE l.status
<1>1. /\ SetStatus(l, status) \in LeaseRecord
      /\ SetStatus(l, status).status = IF IsTerminal(l) THEN l.status ELSE status
  BY DEF SetStatus, LeaseRecord
<1>2. /\ Pause(l, now) \in LeaseRecord
      /\ Pause(l, now).status = IF l.status = "active" THEN "paused" ELSE l.status
  BY DEF Pause, LeaseRecord, Status, Live
<1>3. /\ Resume(l, now) \in LeaseRecord
      /\ Resume(l, now).status = IF l.status = "paused" THEN "active" ELSE l.status
  BY ResumeEffect
<1>4. QED
  BY <1>1, <1>2, <1>3

\* Two ledger records that agree on the money and the settlement.
SameMoney(k, l) ==
  /\ k.metered = l.metered /\ k.credit = l.credit /\ k.burned = l.burned
  /\ k.settle = l.settle /\ k.refunded = l.refunded

\* Charging moves money from the renter's side to the provider's, whatever the
\* clock says and wherever the last tick was.
LEMMA BurnMoves ==
  ASSUME NEW l \in LeaseRecord, NEW now \in Nat
  PROVE  LET k == Burn(l, now)
         IN  /\ k.burned + k.credit = l.burned + l.credit
             /\ k.metered = l.metered /\ k.settle = l.settle /\ k.refunded = l.refunded
             /\ ~l.metered => k = l
             /\ l.credit = 0 => k.credit = 0
<1>1. CASE ~l.metered
  BY <1>1 DEF Burn
<1>2. CASE l.metered /\ now <= l.lastTickAt
  BY <1>2 DEF Burn, LeaseRecord
<1>3. CASE l.metered /\ l.lastTickAt <= now
  <2> PICK k : k = Burn(l, now)
    OBVIOUS
  <2>1. /\ k.metered = l.metered /\ k.settle = l.settle /\ k.refunded = l.refunded
        /\ k.credit \in 0..l.credit /\ k.burned = l.burned + (l.credit - k.credit)
    BY <1>3, BurnEffect
  <2>2. l.burned \in Nat /\ l.credit \in Nat
    BY DEF LeaseRecord
  <2>3. k.burned + k.credit = l.burned + l.credit /\ (l.credit = 0 => k.credit = 0)
    BY <2>1, <2>2
  <2> QED
    BY <1>3, <2>1, <2>3
<1>4. l.lastTickAt \in Nat
  BY DEF LeaseRecord
<1> QED
  BY <1>1, <1>2, <1>3, <1>4

\* Status, freeze and thaw leave the money alone.
LEMMA StatusKeepsMoney ==
  ASSUME NEW l \in LeaseRecord, NEW now \in Nat, NEW status \in Status
  PROVE  /\ SameMoney(SetStatus(l, status), l)
         /\ SameMoney(Pause(l, now), l)
         /\ SameMoney(Resume(l, now), l)
<1>1. SameMoney(SetStatus(l, status), l)
  BY DEF SetStatus, SameMoney, LeaseRecord
<1>2. SameMoney(Pause(l, now), l)
  BY DEF Pause, SameMoney, LeaseRecord
<1>3. SameMoney(Resume(l, now), l)
  BY ResumeEffect DEF SameMoney
<1> QED
  BY <1>1, <1>2, <1>3

\* A payment banked on a session, and on one that is not metered.
LEMMA AddCreditMoves ==
  ASSUME NEW l \in LeaseRecord, NEW amount \in Nat
  PROVE  LET k == AddCredit(l, amount)
         IN  /\ k.metered = l.metered /\ k.burned = l.burned
             /\ k.settle = l.settle /\ k.refunded = l.refunded
             /\ l.metered => k.credit = l.credit + amount
             /\ ~l.metered => k = l
<1>1. CASE ~l.metered
  BY <1>1 DEF AddCredit
<1>2. CASE l.metered
  <2> PICK k : k = AddCredit(l, amount)
    OBVIOUS
  <2>1. /\ k.metered = l.metered /\ k.burned = l.burned
        /\ k.settle = l.settle /\ k.refunded = l.refunded /\ k.credit = l.credit + amount
    BY <1>2, AddCreditEffect
  <2> QED
    BY <1>2, <2>1
<1> QED
  BY <1>1, <1>2

\* Settling empties the renter's side and never touches the provider's.
LEMMA MarkSettledMoves ==
  ASSUME NEW l \in LeaseRecord, NEW amount \in Nat
  PROVE  LET k == MarkSettled(l, amount)
         IN  /\ k.metered = l.metered /\ k.burned = l.burned
             /\ l.settle = "none" => k = l
             /\ l.settle # "none" => k.credit = 0 /\ k.settle = "done" /\ k.refunded = amount
BY DEF MarkSettled, LeaseRecord
=============================================================================
