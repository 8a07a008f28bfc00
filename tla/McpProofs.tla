------------------------------- MODULE McpProofs -------------------------------
(***************************************************************************)
(* What the MCP server's limits give whatever the node charges, and        *)
(* however many calls interleave, fail or are cut off by a restart: no     *)
(* payment passes the cap per payment, none goes unconfirmed above the     *)
(* threshold at the price quoted, and a hold buys once.                    *)
(***************************************************************************)
EXTENDS McpServer, SumTheorems, TLAPS

---------------------------------------------------------------------------
(* The inductive invariant *)

\* Where a call has an approval, and where it has also signed.
Bound == {"requoting", "challenging", "paying", "settled", "orphaned"}
Signed == {"paying", "settled", "orphaned"}

\* An approval that lets a payment for an action through.
Justified(approval, action) ==
  /\ approval.hold = None => ConfirmAbove = Off \/ approval.quoted <= ConfirmAbove
  /\ approval.hold # None => action = approval.hold.action /\ approval.at <= approval.hold.expiresAt

\* Call c has the hold h in hand, or has paid with it.
Takes(c, h) ==
  \/ calls[c].pc \in Bound /\ calls[c].approval.hold = h
  \/ payments[c] # None /\ payments[c].approval.hold = h

\* A call is what it says it is once it has passed the limits.
CallsInv ==
  \A c \in Calls :
    /\ calls[c].pc \in {"quoting", "pricing"} => calls[c].action \in PendingAction
    /\ calls[c].pc \in Bound =>
         /\ calls[c].action \in PendingAction
         /\ calls[c].approval \in Approval
         /\ Justified(calls[c].approval, calls[c].action)
    /\ calls[c].pc \in Signed => calls[c].amount \in Nat /\ calls[c].amount <= MaxPerPayment

\* What was paid was within the cap per payment, and let through for what it was for.
PaymentsInv ==
  \A c \in Calls : payments[c] # None =>
    payments[c].amount <= MaxPerPayment /\ Justified(payments[c].approval, payments[c].action)

\* A hold waits or is taken, by one call; and a call that has not yet been past its
\* quote has placed none.
HoldsInv ==
  /\ \A h \in holds : calls[h.id].pc \notin {"idle", "quoting"}
  /\ \A h \in ConfirmationHold, c \in Calls :
       Takes(c, h) =>
         /\ h \notin holds
         /\ calls[h.id].pc \notin {"idle", "quoting"}
         /\ \A d \in Calls \ {c} : ~ Takes(d, h)

\* The inductive invariant.
IInv == TypeOK /\ CallsInv /\ PaymentsInv /\ HoldsInv

---------------------------------------------------------------------------
(* What the records are *)

LEMMA DayType ==
  ASSUME clock \in Nat
  PROVE  Today \in Nat
BY BoundAssumption DEF Today

LEMMA RestType ==
  ASSUME NEW pc \in {"idle"} \cup Outcomes
  PROVE  AtRest(pc) \in Local /\ AtRest(pc).pc = pc
BY DEF AtRest, Local

LEMMA AtType ==
  ASSUME NEW pc \in Waiting, NEW action \in PendingAction, NEW approval \in Approval \cup {None}
  PROVE  /\ At(pc, action, approval) \in Local
         /\ At(pc, action, approval).pc = pc
         /\ At(pc, action, approval).action = action
         /\ At(pc, action, approval).approval = approval
BY DEF At, Local

LEMMA QuotedType ==
  ASSUME NEW challenge \in Challenges
  PROVE  Quoted(challenge) \in Nat
<1>1. challenge \in Seq(PaymentRequirements)
  BY ChallengeAssumption
<1>2. CASE Len(challenge) = 0
  BY <1>2 DEF Quoted
<1>3. CASE Len(challenge) # 0
  <2>1. challenge[1] \in PaymentRequirements
    BY <1>1, <1>3
  <2> QED
    BY <1>3, <2>1 DEF Quoted, PaymentRequirements
<1> QED
  BY <1>2, <1>3

\* An action is read back field by field.
LEMMA ActionKind ==
  ASSUME NEW action \in PendingAction
  PROVE  action.kind \in {"open_session", "top_up_session"}
BY DEF PendingAction

\* A fresh approval, and a fresh hold.
LEMMA ApprovalType ==
  ASSUME TypeOK, NEW amount \in Nat, NEW seen \in SUBSET Calls, NEW hold \in ConfirmationHold \cup {None}
  PROVE  LET a == [at |-> clock, quoted |-> amount, seen |-> seen, hold |-> hold]
         IN a \in Approval /\ a.hold = hold /\ a.quoted = amount /\ a.at = clock
BY DEF Approval, TypeOK

\* Expired holds are only ever swept away.
LEMMA SweepType ==
  ASSUME TypeOK
  PROVE  SweepExpired \subseteq holds /\ \A h \in SweepExpired : clock <= h.expiresAt
BY DEF SweepExpired, TypeOK, ConfirmationHold

\* The directories of a call that performs.
LEMMA PerformType ==
  ASSUME TypeOK, NEW c \in Calls, NEW action \in PendingAction, NEW approval \in Approval,
         Perform(c, action, approval)
  PROVE  /\ calls' \in [Calls -> Local]
         /\ keys' \in [Calls -> KeyDirs]
         /\ calls'[c].pc \in {"challenging", "requoting"}
         /\ calls'[c].action = action
         /\ calls'[c].approval = approval
         /\ \A d \in Calls \ {c} : calls'[d] = calls[d]
<1> DEFINE pc == IF action.kind = "open_session" THEN "challenging" ELSE "requoting"
           dirs == [quote |-> FALSE, session |-> IF action.kind = "open_session" THEN "bare" ELSE "none"]
<1>1. calls' = [calls EXCEPT ![c] = At(pc, action, approval)] /\ keys' = [keys EXCEPT ![c] = dirs]
  BY DEF Perform
<1>2. pc \in Waiting /\ pc \in {"challenging", "requoting"}
  BY DEF Waiting
<1>3. dirs \in KeyDirs
  BY DEF KeyDirs
<1> HIDE DEF pc, dirs
<1> QED
  BY <1>1, <1>2, <1>3, AtType DEF TypeOK

---------------------------------------------------------------------------
(* Type correctness *)

\* Ending a call.
LEMMA EndType ==
  ASSUME TypeOK, NEW c \in Calls, NEW pc \in Outcomes, End(c, pc)
  PROVE  /\ calls' \in [Calls -> Local]
         /\ calls'[c].pc = pc
         /\ \A d \in Calls \ {c} : calls'[d] = calls[d]
BY RestType DEF End, TypeOK

---------------------------------------------------------------------------
(* How the holds fare when a step takes none and places none *)

\* The ids of holds are calls.
LEMMA HoldIds ==
  ASSUME TypeOK
  PROVE  /\ \A h \in ConfirmationHold : h.id \in Calls
         /\ \A h \in holds : h \in ConfirmationHold
BY DEF TypeOK, ConfirmationHold

\* A step that places no hold and takes none keeps what is said of holds.
LEMMA HoldsFrame ==
  ASSUME TypeOK, HoldsInv,
         holds' \subseteq holds,
         \A d \in Calls : calls[d].pc \notin {"idle", "quoting"} => calls'[d].pc \notin {"idle", "quoting"},
         \A d \in Calls, h \in ConfirmationHold : Takes(d, h)' => Takes(d, h)
  PROVE  HoldsInv'
<1>1. ASSUME NEW h \in holds'
      PROVE  calls'[h.id].pc \notin {"idle", "quoting"}
  BY <1>1, HoldIds DEF HoldsInv
<1>2. ASSUME NEW h \in ConfirmationHold, NEW c \in Calls, Takes(c, h)'
      PROVE  /\ h \notin holds'
             /\ calls'[h.id].pc \notin {"idle", "quoting"}
             /\ \A d \in Calls \ {c} : ~ Takes(d, h)'
  <2>1. Takes(c, h)
    BY <1>2
  <2> QED
    BY <2>1, HoldIds DEF HoldsInv
<1> QED
  BY <1>1, <1>2 DEF HoldsInv

\* A call that ends lets go of what it had in hand.
LEMMA EndStep ==
  ASSUME IInv, NEW c \in Calls, calls'[c].pc \in Outcomes,
         \A d \in Calls \ {c} : calls'[d] = calls[d],
         holds' \subseteq holds, UNCHANGED payments
  PROVE  CallsInv' /\ PaymentsInv' /\ HoldsInv'
<1>1. calls'[c].pc \notin Bound \cup Signed \cup {"idle", "quoting", "pricing"}
  BY DEF Outcomes, Bound, Signed
<1>2. CallsInv'
  BY <1>1 DEF IInv, CallsInv
<1>3. PaymentsInv'
  BY DEF IInv, PaymentsInv
<1>4. \A d \in Calls, h \in ConfirmationHold : Takes(d, h)' => Takes(d, h)
  BY <1>1 DEF Takes
<1> QED
  BY <1>1, <1>2, <1>3, <1>4, HoldsFrame DEF IInv

\* A call that goes on takes what it had.
LEMMA GoOnStep ==
  ASSUME IInv, NEW c \in Calls, calls[c].pc \in Bound, calls'[c].pc \in Bound,
         calls'[c].action = calls[c].action, calls'[c].approval = calls[c].approval,
         calls'[c].pc \in Signed => calls'[c].amount \in Nat /\ calls'[c].amount <= MaxPerPayment,
         \A d \in Calls \ {c} : calls'[d] = calls[d],
         UNCHANGED <<holds, payments>>
  PROVE  CallsInv' /\ PaymentsInv' /\ HoldsInv'
<1>1. calls'[c].pc \notin {"idle", "quoting", "pricing"}
  BY DEF Bound
<1>2. CallsInv'
  BY <1>1 DEF IInv, CallsInv
<1>3. PaymentsInv'
  BY DEF IInv, PaymentsInv
<1>4. \A d \in Calls, h \in ConfirmationHold : Takes(d, h)' => Takes(d, h)
  BY DEF Takes
<1> QED
  BY <1>1, <1>2, <1>3, <1>4, HoldsFrame DEF IInv

\* A call begins with a quote, and nothing in hand.
LEMMA QuoteStep ==
  ASSUME IInv, NEW c \in Calls, calls[c].pc = "idle", calls'[c].pc \in {"quoting", "pricing"},
         calls'[c].action \in PendingAction,
         \A d \in Calls \ {c} : calls'[d] = calls[d],
         UNCHANGED <<holds, payments>>
  PROVE  CallsInv' /\ PaymentsInv' /\ HoldsInv'
<1>1. calls'[c].pc \notin Bound \cup Signed
  BY DEF Bound, Signed
<1>2. CallsInv'
  BY <1>1 DEF IInv, CallsInv
<1>3. PaymentsInv'
  BY DEF IInv, PaymentsInv
<1>4. \A d \in Calls, h \in ConfirmationHold : Takes(d, h)' => Takes(d, h)
  BY <1>1 DEF Takes
<1> QED
  BY <1>2, <1>3, <1>4, HoldsFrame DEF IInv

\* A call that passes the limits performs with a justified approval; the hold it
\* took, if it took one, was waiting and waits no longer.
LEMMA PerformStep ==
  ASSUME IInv, NEW c \in Calls, calls[c].pc \in {"idle", "quoting"},
         NEW action \in PendingAction, NEW approval \in Approval, Justified(approval, action),
         Perform(c, action, approval),
         holds' \subseteq holds,
         approval.hold # None => approval.hold \in holds /\ approval.hold \notin holds',
         UNCHANGED payments
  PROVE  CallsInv' /\ PaymentsInv' /\ HoldsInv'
<1>1. /\ calls'[c].pc \in {"challenging", "requoting"}
      /\ calls'[c].action = action
      /\ calls'[c].approval = approval
      /\ \A d \in Calls \ {c} : calls'[d] = calls[d]
  BY PerformType DEF IInv
<1>2. calls'[c].pc \in Bound /\ calls'[c].pc \notin Signed \cup {"idle", "quoting", "pricing"}
  BY <1>1 DEF Bound, Signed
<1>3. CallsInv'
  BY <1>1, <1>2 DEF IInv, CallsInv
<1>4. PaymentsInv'
  BY DEF IInv, PaymentsInv
<1>5. \A d \in Calls : calls[d].pc \notin {"idle", "quoting"} => calls'[d].pc \notin {"idle", "quoting"}
  BY <1>1, <1>2
<1>6. \A d \in Calls, h \in ConfirmationHold :
        Takes(d, h)' => Takes(d, h) \/ (d = c /\ h = approval.hold)
  BY <1>1 DEF Takes
<1>7. CASE approval.hold = None
  <2>1. \A d \in Calls, h \in ConfirmationHold : Takes(d, h)' => Takes(d, h)
    BY <1>6, <1>7, HoldAssumption
  <2> QED
    BY <1>3, <1>4, <1>5, <2>1, HoldsFrame DEF IInv
<1>8. CASE approval.hold # None
  <2>1. approval.hold \in holds /\ approval.hold \notin holds'
    BY <1>8
  <2>2. \A d \in Calls : ~ Takes(d, approval.hold)
    BY <2>1, HoldIds DEF IInv, HoldsInv
  <2>3. ASSUME NEW h \in holds'
        PROVE  calls'[h.id].pc \notin {"idle", "quoting"}
    BY <2>3, <1>5, HoldIds DEF IInv, HoldsInv
  <2>4. ASSUME NEW h \in ConfirmationHold, NEW d \in Calls, Takes(d, h)'
        PROVE  /\ h \notin holds'
               /\ calls'[h.id].pc \notin {"idle", "quoting"}
               /\ \A e \in Calls \ {d} : ~ Takes(e, h)'
    <3>1. CASE d = c /\ h = approval.hold
      BY <3>1, <2>1, <2>2, <1>5, <1>6, HoldIds DEF IInv, HoldsInv
    <3>2. CASE ~ (d = c /\ h = approval.hold)
      <4>1. Takes(d, h) /\ h # approval.hold
        BY <3>2, <2>2, <2>4, <1>6
      <4> QED
        BY <4>1, <1>5, <1>6, HoldIds DEF IInv, HoldsInv
    <3> QED
      BY <3>1, <3>2
  <2>5. HoldsInv'
    BY <2>3, <2>4 DEF HoldsInv
  <2> QED
    BY <1>3, <1>4, <2>5
<1> QED
  BY <1>7, <1>8

\* A call that is told to ask the human places a hold no call has taken.
LEMMA HoldStep ==
  ASSUME IInv, NEW c \in Calls, calls[c].pc = "quoting", calls'[c].pc = "answered",
         \A d \in Calls \ {c} : calls'[d] = calls[d],
         NEW hold \in ConfirmationHold, hold.id = c, holds' \subseteq holds \cup {hold},
         UNCHANGED payments
  PROVE  CallsInv' /\ PaymentsInv' /\ HoldsInv'
<1>1. CallsInv'
  BY DEF IInv, CallsInv, Bound, Signed
<1>2. PaymentsInv'
  BY DEF IInv, PaymentsInv
<1>3. \A d \in Calls : calls[d].pc \notin {"idle", "quoting"} => calls'[d].pc \notin {"idle", "quoting"}
  OBVIOUS
<1>4. \A d \in Calls, h \in ConfirmationHold : Takes(d, h)' => Takes(d, h)
  BY DEF Takes, Bound
<1>5. \A d \in Calls : ~ Takes(d, hold)
  BY DEF IInv, HoldsInv
<1>6. ASSUME NEW h \in holds'
      PROVE  calls'[h.id].pc \notin {"idle", "quoting"}
  <2>1. CASE h = hold
    BY <2>1
  <2>2. CASE h # hold
    BY <1>3, <1>6, <2>2, HoldIds DEF IInv, HoldsInv
  <2> QED
    BY <2>1, <2>2
<1>7. ASSUME NEW h \in ConfirmationHold, NEW d \in Calls, Takes(d, h)'
      PROVE  /\ h \notin holds'
             /\ calls'[h.id].pc \notin {"idle", "quoting"}
             /\ \A e \in Calls \ {d} : ~ Takes(e, h)'
  <2>1. Takes(d, h) /\ h # hold
    BY <1>4, <1>5, <1>7
  <2> QED
    BY <2>1, <1>3, <1>4, HoldIds DEF IInv, HoldsInv
<1> QED
  BY <1>1, <1>2, <1>6, <1>7 DEF HoldsInv

\* The money moves: what was in hand has now been paid with.
LEMMA SettleStep ==
  ASSUME IInv, NEW c \in Calls, Settles(c)
  PROVE  IInv'
<1> DEFINE paid == [amount |-> calls[c].amount, day |-> Today, after |-> {d \in Calls : payments[d] # None},
                    approval |-> calls[c].approval, action |-> calls[c].action]
<1> USE DEF IInv
<1>1. /\ calls[c].pc \in Bound \cap Signed
      /\ payments' = [payments EXCEPT ![c] = paid]
      /\ holds' = holds
  BY DEF Settles, Bound, Signed
<1>2. /\ calls[c].action \in PendingAction
      /\ calls[c].approval \in Approval
      /\ calls[c].amount \in Nat
      /\ calls[c].amount <= MaxPerPayment
      /\ Justified(calls[c].approval, calls[c].action)
  BY <1>1 DEF CallsInv
<1>3. /\ paid \in Payment
      /\ paid.amount = calls[c].amount
      /\ paid.approval = calls[c].approval
      /\ paid.action = calls[c].action
  <2>1. Today \in Nat
    BY DayType DEF TypeOK
  <2> QED
    BY <1>2, <2>1 DEF Payment
<1> HIDE DEF paid
<1>4. payments'[c] = paid /\ \A d \in Calls \ {c} : payments'[d] = payments[d]
  BY <1>1 DEF TypeOK
<1>5. /\ calls' \in [Calls -> Local]
      /\ calls'[c].pc \in {"settled", "killed"}
      /\ calls'[c].pc = "settled" =>
           /\ calls'[c].action = calls[c].action
           /\ calls'[c].approval = calls[c].approval
           /\ calls'[c].amount = calls[c].amount
      /\ \A d \in Calls \ {c} : calls'[d] = calls[d]
  <2>1. CASE calls[c].pc = "paying"
    <3>1. calls' = [calls EXCEPT ![c].pc = "settled"]
      BY <2>1 DEF Settles
    <3> QED
      BY <3>1 DEF TypeOK, Local, Waiting
  <2>2. CASE calls[c].pc # "paying"
    <3>1. End(c, "killed")
      BY <2>2 DEF Settles
    <3> QED
      BY <3>1, EndType DEF Outcomes
  <2> QED
    BY <2>1, <2>2
<1>6. TypeOK'
  <2>1. payments' \in [Calls -> Payment \cup {None}]
    BY <1>1, <1>3 DEF TypeOK
  <2>2. live' \subseteq Calls
    BY DEF Settles, TypeOK
  <2> QED
    BY <1>5, <2>1, <2>2 DEF TypeOK, Settles
<1>7. CallsInv'
  BY <1>2, <1>5 DEF CallsInv, Bound, Signed
<1>8. PaymentsInv'
  BY <1>2, <1>3, <1>4 DEF PaymentsInv
<1>9. \A d \in Calls, h \in ConfirmationHold : Takes(d, h)' => Takes(d, h)
  BY <1>1, <1>3, <1>4, <1>5 DEF Takes, Bound
<1>10. \A d \in Calls : calls[d].pc \notin {"idle", "quoting"} => calls'[d].pc \notin {"idle", "quoting"}
  BY <1>5
<1>11. HoldsInv'
  BY <1>1, <1>9, <1>10, HoldsFrame
<1> QED
  BY <1>6, <1>7, <1>8, <1>11

\* A restart keeps what a payment on its way had in hand, and nothing else.
LEMMA RestartStep ==
  ASSUME IInv, Restart
  PROVE  IInv'
<1> USE DEF IInv
<1>1. ASSUME NEW c \in Calls
      PROVE  /\ calls'[c] \in Local
             /\ \/ /\ calls[c].pc \in {"paying", "orphaned"}
                   /\ calls'[c].pc = "orphaned"
                   /\ calls'[c].action = calls[c].action
                   /\ calls'[c].approval = calls[c].approval
                   /\ calls'[c].amount = calls[c].amount
                \/ calls'[c].pc = "killed"
                \/ calls[c].pc \notin Waiting /\ calls'[c] = calls[c]
  <2>1. CASE calls[c].pc \in {"paying", "orphaned"}
    <3>1. calls'[c] = [calls[c] EXCEPT !.pc = "orphaned"]
      BY <2>1 DEF Restart, Waiting
    <3> QED
      BY <2>1, <3>1 DEF TypeOK, Local, Waiting
  <2>2. CASE calls[c].pc \in Waiting \ {"paying", "orphaned"}
    <3>1. calls'[c] = AtRest("killed")
      BY <2>2 DEF Restart
    <3> QED
      BY <3>1, RestType DEF Outcomes
  <2>3. CASE calls[c].pc \notin Waiting
    <3>1. calls'[c] = calls[c]
      BY <2>3 DEF Restart, Waiting
    <3> QED
      BY <2>3, <3>1 DEF TypeOK
  <2> QED
    BY <2>1, <2>2, <2>3
<1>2. TypeOK'
  <2>1. calls' \in [Calls -> Local]
    BY <1>1 DEF Restart
  <2> QED
    BY <2>1, BoundAssumption DEF TypeOK, Restart, Fault
<1>3. CallsInv'
  BY <1>1 DEF CallsInv, Bound, Signed, Waiting
<1>4. PaymentsInv'
  BY DEF PaymentsInv, Restart
<1>5. \A d \in Calls, h \in ConfirmationHold : Takes(d, h)' => Takes(d, h)
  BY <1>1 DEF Takes, Bound, Restart
<1>6. \A d \in Calls : calls[d].pc \notin {"idle", "quoting"} => calls'[d].pc \notin {"idle", "quoting"}
  BY <1>1
<1>7. HoldsInv'
  BY <1>5, <1>6, HoldsFrame DEF Restart
<1> QED
  BY <1>2, <1>3, <1>4, <1>7

---------------------------------------------------------------------------
(* The invariant is inductive *)

LEMMA KeysType ==
  ASSUME TypeOK, NEW c \in Calls, NEW quote \in BOOLEAN, keys' = [keys EXCEPT ![c].quote = quote]
  PROVE  keys' \in [Calls -> KeyDirs]
BY DEF TypeOK, KeyDirs

LEMMA FaultType ==
  ASSUME TypeOK, Fault
  PROVE  faults' \in 0..MaxFaults
BY BoundAssumption DEF TypeOK, Fault

LEMMA InitInv == Init => IInv
<1> SUFFICES ASSUME Init PROVE IInv
  OBVIOUS
<1>1. \A c \in Calls : calls[c].pc = "idle" /\ payments[c] = None
  BY DEF Init, AtRest
<1>2. TypeOK
  BY RestType, BoundAssumption DEF Init, TypeOK, KeyDirs
<1>3. CallsInv
  BY <1>1 DEF CallsInv, Bound, Signed
<1>4. PaymentsInv
  BY <1>1 DEF PaymentsInv
<1>5. HoldsInv
  BY <1>1 DEF HoldsInv, Takes, Bound, Init
<1> QED
  BY <1>2, <1>3, <1>4, <1>5 DEF IInv

\* One call's step, by the place it stands at.
LEMMA CallStep ==
  ASSUME IInv, NEW c \in Calls,
         \/ \E action \in PendingAction : Ask(c, action)
         \/ GetNodeQuote(c) \/ QuoteRead(c) \/ QuoteAnswered(c)
         \/ ConfirmPayment(c) \/ ConfirmNothing(c)
         \/ Requoted(c) \/ Challenged(c)
         \/ Answered(c) \/ ReceiptLost(c) \/ AnswerLost(c) \/ CallFails(c) \/ GiveUp(c)
         \/ StopSession(c)
  PROVE  IInv'
<1>0. TypeOK
  BY DEF IInv
<1>1. ASSUME NEW action \in PendingAction, Ask(c, action)
      PROVE  IInv'
  <2>1. calls' = [calls EXCEPT ![c] = At("quoting", action, None)]
    BY <1>1 DEF Ask
  <2>2. TypeOK'
    <3>1. calls' \in [Calls -> Local]
      BY <1>0, <2>1, AtType DEF TypeOK, Waiting
    <3>2. keys' \in [Calls -> KeyDirs]
      BY <1>0, <1>1, KeysType DEF Ask
    <3> QED
      BY <1>0, <1>1, <3>1, <3>2 DEF TypeOK, Ask
  <2>3. CallsInv' /\ PaymentsInv' /\ HoldsInv'
    BY <1>0, <1>1, <2>1, AtType, QuoteStep DEF Ask, TypeOK, Waiting
  <2> QED
    BY <2>2, <2>3 DEF IInv
<1>2. CASE GetNodeQuote(c)
  <2> DEFINE action == [kind |-> "open_session", session |-> None]
  <2>1. action \in PendingAction
    BY DEF PendingAction
  <2>2. calls' = [calls EXCEPT ![c] = At("pricing", action, None)]
    BY <1>2 DEF GetNodeQuote
  <2> HIDE DEF action
  <2>3. TypeOK'
    <3>1. calls' \in [Calls -> Local]
      BY <1>0, <2>1, <2>2, AtType DEF TypeOK, Waiting
    <3>2. keys' \in [Calls -> KeyDirs]
      BY <1>0, <1>2, KeysType DEF GetNodeQuote
    <3> QED
      BY <1>0, <1>2, <3>1, <3>2 DEF TypeOK, GetNodeQuote
  <2>4. CallsInv' /\ PaymentsInv' /\ HoldsInv'
    BY <1>0, <1>2, <2>1, <2>2, AtType, QuoteStep DEF GetNodeQuote, TypeOK, Waiting
  <2> QED
    BY <2>3, <2>4 DEF IInv
<1>3. CASE QuoteAnswered(c)
  <2> PICK challenge \in ChallengesFor(calls[c].action) :
       LET amount == Quoted(challenge) IN
       \/ /\ End(c, "answered")
          /\ keys' = [keys EXCEPT ![c].quote = FALSE]
          /\ UNCHANGED holds
       \/ /\ HoldForConfirmation(c, amount)
          /\ End(c, "answered")
          /\ keys' = [keys EXCEPT ![c].quote = FALSE]
       \/ /\ ~ NeedsConfirmation(amount)
          /\ Perform(c, calls[c].action,
                     [at |-> clock, quoted |-> amount, seen |-> Recorded, hold |-> None])
          /\ UNCHANGED holds
    BY <1>3 DEF QuoteAnswered
  <2> DEFINE amount == Quoted(challenge)
  <2>1. amount \in Nat
    BY QuotedType DEF ChallengesFor
  <2> HIDE DEF amount
  <2>2. calls[c].pc = "quoting" /\ calls[c].action \in PendingAction
    BY <1>3 DEF QuoteAnswered, IInv, CallsInv
  <2>3. UNCHANGED <<receipts, payments, live, clock, faults>>
    BY <1>3 DEF QuoteAnswered
  <2>4. CASE End(c, "answered") /\ keys' = [keys EXCEPT ![c].quote = FALSE] /\ UNCHANGED holds
    <3>1. TypeOK'
      BY <1>0, <2>3, <2>4, EndType DEF TypeOK, KeyDirs, Outcomes
    <3>2. CallsInv' /\ PaymentsInv' /\ HoldsInv'
      BY <1>0, <2>3, <2>4, EndType, EndStep DEF Outcomes
    <3> QED
      BY <3>1, <3>2 DEF IInv
  <2>5. CASE /\ HoldForConfirmation(c, amount)
             /\ End(c, "answered")
             /\ keys' = [keys EXCEPT ![c].quote = FALSE]
    <3> DEFINE hold == [id |-> c, amount |-> amount, action |-> calls[c].action, expiresAt |-> clock + TTL]
    <3>1. hold \in ConfirmationHold /\ hold.id = c
      BY <1>0, <2>1, <2>2, BoundAssumption DEF ConfirmationHold, TypeOK
    <3>2. holds' = SweepExpired \cup {hold}
      BY <2>5 DEF HoldForConfirmation
    <3> HIDE DEF hold
    <3>3. holds' \subseteq holds \cup {hold}
      BY <3>2, <1>0, SweepType
    <3>4. TypeOK'
      <4>1. calls' \in [Calls -> Local] /\ keys' \in [Calls -> KeyDirs]
        BY <1>0, <2>5, EndType, KeysType DEF Outcomes
      <4>2. holds' \subseteq ConfirmationHold
        BY <1>0, <3>1, <3>3 DEF TypeOK
      <4> QED
        BY <1>0, <2>3, <4>1, <4>2 DEF TypeOK
    <3>5. CallsInv' /\ PaymentsInv' /\ HoldsInv'
      BY <1>0, <2>2, <2>3, <2>5, <3>1, <3>3, EndType, HoldStep DEF Outcomes
    <3> QED
      BY <3>4, <3>5 DEF IInv
  <2>6. CASE /\ ~ NeedsConfirmation(amount)
             /\ Perform(c, calls[c].action,
                        [at |-> clock, quoted |-> amount, seen |-> Recorded, hold |-> None])
             /\ UNCHANGED holds
    <3> DEFINE approval == [at |-> clock, quoted |-> amount, seen |-> Recorded, hold |-> None]
    <3>1. approval \in Approval /\ approval.hold = None /\ approval.quoted = amount
      BY <1>0, <2>1, ApprovalType DEF Recorded
    <3>2. Perform(c, calls[c].action, approval)
      BY <2>6
    <3> HIDE DEF approval
    <3>3. Justified(approval, calls[c].action)
      BY <2>1, <2>6, <3>1, ConfigAssumption DEF Justified, NeedsConfirmation, ConfigAccepted
    <3>4. TypeOK'
      BY <1>0, <2>2, <2>3, <2>6, <3>1, <3>2, PerformType DEF TypeOK
    <3>5. CallsInv' /\ PaymentsInv' /\ HoldsInv'
      BY <2>2, <2>3, <2>6, <3>1, <3>2, <3>3, PerformStep
    <3> QED
      BY <3>4, <3>5 DEF IInv
  <2> QED
    BY <2>4, <2>5, <2>6 DEF amount
<1>4. CASE ConfirmPayment(c)
  <2> PICK hold \in SweepExpired :
       /\ TakeConfirmedAction(hold)
       /\ Perform(c, hold.action, [at |-> clock, quoted |-> hold.amount, seen |-> {}, hold |-> hold])
    BY <1>4 DEF ConfirmPayment
  <2> DEFINE approval == [at |-> clock, quoted |-> hold.amount, seen |-> {}, hold |-> hold]
  <2>1. hold \in holds /\ hold \in ConfirmationHold /\ clock <= hold.expiresAt
    BY <1>0, SweepType, HoldIds
  <2>2. hold.amount \in Nat /\ hold.action \in PendingAction
    BY <2>1 DEF ConfirmationHold
  <2>3. approval \in Approval /\ approval.hold = hold /\ approval.at = clock
    BY <1>0, <2>1, <2>2, ApprovalType
  <2>4. Perform(c, hold.action, approval)
    OBVIOUS
  <2> HIDE DEF approval
  <2>5. Justified(approval, hold.action)
    BY <2>1, <2>3, HoldAssumption DEF Justified
  <2>6. holds' \subseteq holds /\ hold \notin holds'
    BY <1>0, SweepType DEF TakeConfirmedAction
  <2>7. TypeOK'
    BY <1>0, <1>4, <2>2, <2>3, <2>4, <2>6, PerformType DEF TypeOK, ConfirmPayment
  <2>8. CallsInv' /\ PaymentsInv' /\ HoldsInv'
    BY <1>4, <2>1, <2>2, <2>3, <2>4, <2>5, <2>6, PerformStep DEF ConfirmPayment
  <2> QED
    BY <2>7, <2>8 DEF IInv
<1>5. CASE Requoted(c)
  <2> PICK challenge \in ChallengesFor(calls[c].action) :
        calls' = [calls EXCEPT ![c].pc = "challenging", ![c].named = Quoted(challenge)]
    BY <1>5 DEF Requoted
  <2>1. Quoted(challenge) \in Nat
    BY QuotedType DEF ChallengesFor
  <2>2. calls[c] \in Local /\ calls[c].pc = "requoting"
    BY <1>0, <1>5 DEF TypeOK, Requoted
  <2>3. /\ calls' \in [Calls -> Local]
        /\ calls'[c].pc = "challenging"
        /\ calls'[c].action = calls[c].action
        /\ calls'[c].approval = calls[c].approval
        /\ \A d \in Calls \ {c} : calls'[d] = calls[d]
    <3> DEFINE price == Quoted(challenge)
               new == [calls[c] EXCEPT !.pc = "challenging", !.named = price]
    <3>1. calls' = [calls EXCEPT ![c] = new]
      OBVIOUS
    <3>2. price \in Nat
      BY <2>1
    <3> HIDE DEF price
    <3>3. /\ new \in Local
          /\ new.pc = "challenging"
          /\ new.action = calls[c].action
          /\ new.approval = calls[c].approval
      BY <2>2, <3>2 DEF Local, Waiting
    <3> HIDE DEF new
    <3> QED
      BY <1>0, <3>1, <3>3 DEF TypeOK
  <2>4. TypeOK'
    BY <1>0, <1>5, <2>3 DEF TypeOK, Requoted
  <2>5. CallsInv' /\ PaymentsInv' /\ HoldsInv'
    BY <1>5, <2>2, <2>3, GoOnStep DEF Requoted, Bound, Signed
  <2> QED
    BY <2>4, <2>5 DEF IInv
<1>6. CASE Challenged(c)
  <2> PICK challenge \in ChallengesFor(calls[c].action) : \E i \in DOMAIN challenge :
        /\ Payable(challenge, i)
        /\ calls' = [calls EXCEPT ![c].pc = "paying", ![c].amount = challenge[i].amount]
    BY <1>6 DEF Challenged
  <2> PICK i \in DOMAIN challenge :
        /\ Payable(challenge, i)
        /\ calls' = [calls EXCEPT ![c].pc = "paying", ![c].amount = challenge[i].amount]
    OBVIOUS
  <2>1. challenge[i].amount \in Nat /\ challenge[i].amount <= MaxPerPayment
    <3>1. challenge \in Seq(PaymentRequirements)
      BY ChallengeAssumption DEF ChallengesFor
    <3>2. challenge[i] \in PaymentRequirements
      BY <3>1
    <3> QED
      BY <3>2 DEF PaymentRequirements, Payable, Acceptable
  <2>2. calls[c] \in Local /\ calls[c].pc = "challenging"
    BY <1>0, <1>6 DEF TypeOK, Challenged
  <2>3. /\ calls' \in [Calls -> Local]
        /\ calls'[c].pc = "paying"
        /\ calls'[c].amount = challenge[i].amount
        /\ calls'[c].action = calls[c].action
        /\ calls'[c].approval = calls[c].approval
        /\ \A d \in Calls \ {c} : calls'[d] = calls[d]
    <3> DEFINE price == challenge[i].amount
               new == [calls[c] EXCEPT !.pc = "paying", !.amount = price]
    <3>1. calls' = [calls EXCEPT ![c] = new]
      OBVIOUS
    <3>2. price \in Nat
      BY <2>1
    <3> HIDE DEF price
    <3>3. /\ new \in Local
          /\ new.pc = "paying"
          /\ new.amount = price
          /\ new.action = calls[c].action
          /\ new.approval = calls[c].approval
      BY <2>2, <3>2 DEF Local, Waiting
    <3> HIDE DEF new
    <3>4. calls \in [Calls -> Local]
      BY <1>0 DEF TypeOK
    <3>5. /\ calls' \in [Calls -> Local]
          /\ calls'[c] = new
          /\ \A d \in Calls \ {c} : calls'[d] = calls[d]
      BY <3>1, <3>3, <3>4
    <3> QED
      BY <3>3, <3>5 DEF price
  <2>4. TypeOK'
    BY <1>0, <1>6, <2>3 DEF TypeOK, Challenged
  <2>5. CallsInv' /\ PaymentsInv' /\ HoldsInv'
    BY <1>6, <2>1, <2>2, <2>3, GoOnStep DEF Challenged, Bound
  <2> QED
    BY <2>4, <2>5 DEF IInv
<1>7. CASE GiveUp(c)
  <2>1. calls[c] \in Local /\ calls[c].pc = "paying"
    BY <1>0, <1>7 DEF TypeOK, GiveUp
  <2>2. /\ calls' \in [Calls -> Local]
        /\ calls'[c].pc = "orphaned"
        /\ calls'[c].amount = calls[c].amount
        /\ calls'[c].action = calls[c].action
        /\ calls'[c].approval = calls[c].approval
        /\ \A d \in Calls \ {c} : calls'[d] = calls[d]
    BY <1>0, <1>7, <2>1 DEF TypeOK, GiveUp, Local, Waiting
  <2>3. calls[c].amount \in Nat /\ calls[c].amount <= MaxPerPayment
    BY <2>1 DEF IInv, CallsInv, Signed
  <2>4. TypeOK'
    BY <1>0, <1>7, <2>2, FaultType DEF TypeOK, GiveUp
  <2>5. CallsInv' /\ PaymentsInv' /\ HoldsInv'
    BY <1>7, <2>1, <2>2, <2>3, GoOnStep DEF GiveUp, Bound
  <2> QED
    BY <2>4, <2>5 DEF IInv
<1>8. CASE QuoteRead(c) \/ ConfirmNothing(c) \/ Answered(c) \/ ReceiptLost(c) \/ AnswerLost(c)
             \/ CallFails(c) \/ StopSession(c)
  <2>1. \E pc \in Outcomes : End(c, pc)
    BY <1>8 DEF QuoteRead, ConfirmNothing, Answered, ReceiptLost, AnswerLost, CallFails, StopSession, Outcomes
  <2>2. /\ calls' \in [Calls -> Local]
        /\ calls'[c].pc \in Outcomes
        /\ \A d \in Calls \ {c} : calls'[d] = calls[d]
    BY <1>0, <2>1, EndType
  <2>3. holds' \subseteq holds /\ UNCHANGED <<payments, clock>>
    BY <1>0, <1>8, SweepType
       DEF QuoteRead, ConfirmNothing, Answered, ReceiptLost, AnswerLost, CallFails, StopSession
  <2>4. keys' \in [Calls -> KeyDirs]
    <3>1. keys \in [Calls -> KeyDirs] /\ keys[c] \in KeyDirs
      BY <1>0 DEF TypeOK
    <3>2. CASE QuoteRead(c) \/ CallFails(c)
      BY <3>1, <3>2 DEF QuoteRead, CallFails, KeyDirs
    <3>3. CASE Answered(c) \/ ReceiptLost(c)
      BY <3>1, <3>3 DEF Answered, ReceiptLost, KeyDirs
    <3>4. CASE UNCHANGED keys
      BY <3>1, <3>4
    <3> QED
      BY <1>8, <3>2, <3>3, <3>4 DEF ConfirmNothing, AnswerLost, StopSession
  <2>5. receipts' \in [Calls -> Receipt \cup {None}]
    <3>1. CASE Answered(c)
      <4>1. calls[c].pc = "settled" /\ calls[c] \in Local
        BY <1>0, <3>1 DEF Answered, TypeOK
      <4>2. calls[c].named \in Nat \cup {None}
        BY <4>1 DEF Local
      <4>3. Today \in Nat
        BY <1>0, DayType DEF TypeOK
      <4>4. PICK amount \in IF calls[c].named = None THEN Reports ELSE {calls[c].named} :
              receipts' = [receipts EXCEPT ![c] = [amount |-> amount, day |-> Today]]
        BY <3>1 DEF Answered, RecordSpend
      <4>5. amount \in Nat
        BY <4>2, <4>4, ReportAssumption
      <4>6. [amount |-> amount, day |-> Today] \in Receipt
        BY <4>3, <4>5 DEF Receipt
      <4> QED
        BY <1>0, <4>4, <4>6 DEF TypeOK
    <3>2. CASE ~ Answered(c)
      BY <1>0, <1>8, <3>2
         DEF QuoteRead, ConfirmNothing, ReceiptLost, AnswerLost, CallFails, StopSession, TypeOK
    <3> QED
      BY <3>1, <3>2
  <2>6. live' \subseteq Calls /\ faults' \in 0..MaxFaults
    BY <1>0, <1>8, FaultType
       DEF QuoteRead, ConfirmNothing, Answered, ReceiptLost, AnswerLost, CallFails, StopSession, TypeOK
  <2>7. TypeOK'
    BY <1>0, <2>2, <2>3, <2>4, <2>5, <2>6 DEF TypeOK
  <2>8. CallsInv' /\ PaymentsInv' /\ HoldsInv'
    BY <2>2, <2>3, EndStep
  <2> QED
    BY <2>7, <2>8 DEF IInv
<1> QED
  BY <1>1, <1>2, <1>3, <1>4, <1>5, <1>6, <1>7, <1>8

LEMMA NextInv == IInv /\ [Next]_vars => IInv'
<1> SUFFICES ASSUME IInv, [Next]_vars PROVE IInv'
  OBVIOUS
<1>1. ASSUME NEW c \in Calls, SessionEnds(c)
      PROVE  IInv'
  BY <1>1 DEF IInv, TypeOK, CallsInv, PaymentsInv, HoldsInv, Takes, SessionEnds
<1>2. CASE Tick
  <2>1. TypeOK'
    BY <1>2, BoundAssumption DEF IInv, TypeOK, Tick
  <2>2. UNCHANGED <<calls, holds, payments>>
    BY <1>2 DEF Tick
  <2> QED
    BY <2>1, <2>2 DEF IInv, CallsInv, PaymentsInv, HoldsInv, Takes
<1>3. CASE UNCHANGED vars
  BY <1>3 DEF vars, IInv, TypeOK, CallsInv, PaymentsInv, HoldsInv, Takes
<1> QED
  BY <1>1, <1>2, <1>3, CallStep, SettleStep, RestartStep DEF Next

---------------------------------------------------------------------------
(* Theorems *)

\* The invariant holds of every behaviour: of any number of calls, whatever the
\* node quotes and charges, failures and restarts included.
THEOREM Invariant == Spec => []IInv
<1>1. Init => IInv
  BY InitInv
<1>2. IInv /\ [Next]_vars => IInv'
  BY NextInv
<1> QED
  BY <1>1, <1>2, PTL DEF Spec

\* The server's state keeps its types.
THEOREM TypeCorrect == Spec => []TypeOK
<1>1. IInv => TypeOK
  BY DEF IInv
<1> QED
  BY <1>1, Invariant, PTL

\* No payment passes the cap per payment, and none that was not confirmed passes the
\* threshold at the price it was quoted (payer.ts:68, limits.ts:58).
THEOREM ApprovalHolds == Spec => []PaymentsApproved
<1>1. IInv => PaymentsApproved
  <2> SUFFICES ASSUME IInv, NEW c \in Paid
               PROVE  /\ payments[c].amount <= MaxPerPayment
                      /\ payments[c].approval.hold = None /\ payments[c].amount <= payments[c].approval.quoted =>
                           ConfirmAbove = Off \/ payments[c].amount <= ConfirmAbove
    BY DEF PaymentsApproved
  <2>1. c \in Calls /\ payments[c] # None /\ payments[c] \in Payment
    BY DEF Paid, IInv, TypeOK
  <2>2. /\ payments[c].amount <= MaxPerPayment
        /\ Justified(payments[c].approval, payments[c].action)
    BY <2>1 DEF IInv, PaymentsInv
  <2>3. payments[c].amount \in Nat /\ payments[c].approval.quoted \in Nat
    BY <2>1 DEF Payment, Approval
  <2> QED
    BY <2>2, <2>3, ConfigAssumption DEF Justified, ConfigAccepted
<1> QED
  BY <1>1, Invariant, PTL

\* A hold buys the action it was placed for, in time, and once (limits.ts:75).
THEOREM HoldsHold == Spec => []HoldsBuyOnce
<1>1. IInv => HoldsBuyOnce
  <2> SUFFICES ASSUME IInv, NEW c \in Paid, payments[c].approval.hold # None
               PROVE  /\ payments[c].action = payments[c].approval.hold.action
                      /\ payments[c].approval.at <= payments[c].approval.hold.expiresAt
                      /\ \A d \in Paid \ {c} : payments[d].approval.hold # payments[c].approval.hold
    BY DEF HoldsBuyOnce
  <2>1. c \in Calls /\ payments[c] # None /\ payments[c] \in Payment
    BY DEF Paid, IInv, TypeOK
  <2>2. payments[c].approval.hold \in ConfirmationHold
    BY <2>1 DEF Payment, Approval
  <2>3. Justified(payments[c].approval, payments[c].action)
    BY <2>1 DEF IInv, PaymentsInv
  <2>4. ASSUME NEW d \in Paid \ {c}
        PROVE  payments[d].approval.hold # payments[c].approval.hold
    BY <2>1, <2>2 DEF IInv, HoldsInv, Takes, Paid
  <2> QED
    BY <2>3, <2>4 DEF Justified
<1> QED
  BY <1>1, Invariant, PTL

---------------------------------------------------------------------------
(* The keys *)

\* What keys a call has on disk, by where it is.
KeysFollow(c) ==
  /\ keys[c].quote => calls[c].pc \in {"quoting", "pricing", "killed"}
  /\ calls[c].pc = "requoting" => calls[c].action.kind # "open_session"
  /\ calls[c].pc \in {"challenging", "paying", "settled"} /\ calls[c].action.kind = "open_session"
       => keys[c].session = "bare"
  /\ calls[c].pc = "settled" => payments[c].action = calls[c].action
  /\ calls[c].pc = "paid" /\ payments[c] # None /\ payments[c].action.kind = "open_session"
       => keys[c].session = "certified"

\* Every call's keys follow from where it is.
KeysInv == TypeOK /\ \A c \in Calls : KeysFollow(c)

\* A step of one call leaves what the others have on disk alone.
LEMMA KeysElsewhere ==
  ASSUME KeysInv, NEW c \in Calls, NEW d \in Calls, d # c,
         calls'[d] = calls[d], keys'[d] = keys[d], payments'[d] = payments[d]
  PROVE  KeysFollow(d)'
BY DEF KeysInv, KeysFollow

\* A call that ends without access, its quote's key discarded.
LEMMA KeysDone ==
  ASSUME KeysInv, NEW c \in Calls, NEW pc \in {"answered", "killed"}, End(c, pc),
         pc # "killed" => ~ keys'[c].quote
  PROVE  KeysFollow(c)'
<1>1. calls'[c].pc = pc
  BY DEF KeysInv, TypeOK, End, AtRest
<1> QED
  BY <1>1 DEF KeysFollow

\* A payment under way: an open has a fresh key, and no quote's key is left.
LEMMA KeysPerform ==
  ASSUME KeysInv, NEW c \in Calls, NEW action, NEW approval, Perform(c, action, approval)
  PROVE  /\ KeysFollow(c)'
         /\ \A d \in Calls \ {c} : calls'[d] = calls[d] /\ keys'[d] = keys[d]
<1>1. /\ calls'[c] = At(IF action.kind = "open_session" THEN "challenging" ELSE "requoting", action, approval)
      /\ keys'[c] = [quote |-> FALSE, session |-> IF action.kind = "open_session" THEN "bare" ELSE "none"]
      /\ \A d \in Calls \ {c} : calls'[d] = calls[d] /\ keys'[d] = keys[d]
  BY DEF KeysInv, TypeOK, Perform
<1>2. CASE action.kind = "open_session"
  BY <1>1, <1>2 DEF At, KeysFollow
<1>3. CASE action.kind # "open_session"
  BY <1>1, <1>3 DEF At, KeysFollow
<1> QED
  BY <1>1, <1>2, <1>3

\* A step of call c keeps c's part and touches nobody else's.
LEMMA KeysCallStep ==
  ASSUME KeysInv, NEW c \in Calls,
         \/ \E action \in PendingAction : Ask(c, action)
         \/ GetNodeQuote(c) \/ QuoteRead(c) \/ QuoteAnswered(c)
         \/ ConfirmPayment(c) \/ ConfirmNothing(c)
         \/ Requoted(c) \/ Challenged(c) \/ Settles(c)
         \/ Answered(c) \/ ReceiptLost(c) \/ AnswerLost(c) \/ CallFails(c) \/ GiveUp(c)
         \/ StopSession(c)
  PROVE  \A d \in Calls : KeysFollow(d)'
<1> DEFINE Elsewhere == \A d \in Calls \ {c} :
             calls'[d] = calls[d] /\ keys'[d] = keys[d] /\ payments'[d] = payments[d]
<1>0. /\ calls \in [Calls -> Local] /\ keys \in [Calls -> KeyDirs]
      /\ payments \in [Calls -> Payment \cup {None}]
      /\ calls[c] \in Local /\ keys[c] \in KeyDirs /\ KeysFollow(c)
  BY DEF KeysInv, TypeOK
<1> SUFFICES KeysFollow(c)' /\ Elsewhere
  BY KeysElsewhere
<1>1. ASSUME NEW action \in PendingAction, Ask(c, action) PROVE KeysFollow(c)' /\ Elsewhere
  <2>1. calls'[c].pc = "quoting" /\ Elsewhere
    BY <1>0, <1>1 DEF Ask, At
  <2> QED
    BY <2>1 DEF KeysFollow
<1>2. CASE GetNodeQuote(c)
  <2>1. calls'[c].pc = "pricing" /\ Elsewhere
    BY <1>0, <1>2 DEF GetNodeQuote, At
  <2> QED
    BY <2>1 DEF KeysFollow
<1>3. CASE QuoteRead(c) \/ CallFails(c)
  <2>1. End(c, "answered") /\ keys' = [keys EXCEPT ![c].quote = FALSE] /\ UNCHANGED payments
    BY <1>3 DEF QuoteRead, CallFails
  <2>2. ~ keys'[c].quote /\ Elsewhere
    BY <1>0, <2>1 DEF End, KeyDirs
  <2> QED
    BY <2>1, <2>2, KeysDone
<1>4. CASE QuoteAnswered(c)
  <2>1. UNCHANGED payments
    BY <1>4 DEF QuoteAnswered
  <2>2. \/ End(c, "answered") /\ keys' = [keys EXCEPT ![c].quote = FALSE]
        \/ \E action, approval : Perform(c, action, approval)
    BY <1>4 DEF QuoteAnswered
  <2>3. CASE End(c, "answered") /\ keys' = [keys EXCEPT ![c].quote = FALSE]
    <3>1. ~ keys'[c].quote /\ Elsewhere
      BY <1>0, <2>1, <2>3 DEF End, KeyDirs
    <3> QED
      BY <2>3, <3>1, KeysDone
  <2>4. ASSUME NEW action, NEW approval, Perform(c, action, approval)
        PROVE  KeysFollow(c)' /\ Elsewhere
    BY <2>1, <2>4, KeysPerform
  <2> QED
    BY <2>2, <2>3, <2>4
<1>5. CASE ConfirmPayment(c)
  <2>1. UNCHANGED payments /\ \E action, approval : Perform(c, action, approval)
    BY <1>5 DEF ConfirmPayment
  <2> QED
    BY <2>1, KeysPerform
<1>6. CASE ConfirmNothing(c) \/ StopSession(c) \/ AnswerLost(c)
  <2>1. End(c, "answered") /\ UNCHANGED <<payments, keys>> /\ calls[c].pc \in {"idle", "settled"}
    BY <1>6 DEF ConfirmNothing, StopSession, AnswerLost
  <2>2. ~ keys'[c].quote
    BY <1>0, <2>1 DEF KeysFollow
  <2>3. Elsewhere
    BY <1>0, <2>1 DEF End
  <2> QED
    BY <2>1, <2>2, <2>3, KeysDone
<1>7. CASE Requoted(c)
  <2>1. /\ calls[c].pc = "requoting" /\ calls'[c].pc = "challenging" /\ calls'[c].action = calls[c].action
        /\ keys'[c] = keys[c] /\ Elsewhere
    <3>1. PICK quote : calls' = [calls EXCEPT ![c].pc = "challenging", ![c].named = quote]
      BY <1>7 DEF Requoted
    <3>2. calls[c].pc = "requoting" /\ UNCHANGED <<keys, payments>>
      BY <1>7 DEF Requoted
    <3> QED
      BY <1>0, <3>1, <3>2 DEF Local
  <2> QED
    BY <1>0, <2>1 DEF KeysFollow
<1>8. CASE Challenged(c)
  <2>1. /\ calls[c].pc = "challenging" /\ calls'[c].pc = "paying" /\ calls'[c].action = calls[c].action
        /\ keys'[c] = keys[c] /\ Elsewhere
    <3>1. PICK amount : calls' = [calls EXCEPT ![c].pc = "paying", ![c].amount = amount]
      BY <1>8 DEF Challenged
    <3>2. calls[c].pc = "challenging" /\ UNCHANGED <<keys, payments>>
      BY <1>8 DEF Challenged
    <3> QED
      BY <1>0, <3>1, <3>2 DEF Local
  <2> QED
    BY <1>0, <2>1 DEF KeysFollow
<1>9. CASE Settles(c)
  <2>1. /\ UNCHANGED keys
        /\ payments'[c].action = calls[c].action
        /\ \A d \in Calls \ {c} : payments'[d] = payments[d]
    BY <1>0, <1>9 DEF Settles
  <2>2. CASE calls[c].pc = "paying"
    <3>1. calls'[c].pc = "settled" /\ calls'[c].action = calls[c].action
          /\ \A d \in Calls \ {c} : calls'[d] = calls[d]
      BY <1>0, <1>9, <2>2 DEF Settles, Local
    <3> QED
      BY <1>0, <2>1, <2>2, <3>1 DEF KeysFollow
  <2>3. CASE calls[c].pc = "orphaned"
    <3>1. End(c, "killed") /\ \A d \in Calls \ {c} : calls'[d] = calls[d]
      BY <1>0, <1>9, <2>3 DEF Settles, End
    <3> QED
      BY <2>1, <3>1, KeysDone
  <2> QED
    BY <1>9, <2>2, <2>3 DEF Settles
<1>10. CASE Answered(c) \/ ReceiptLost(c)
  <2>1. /\ calls[c].pc = "settled" /\ End(c, "paid") /\ UNCHANGED payments
        /\ keys' = [keys EXCEPT ![c].session = IF @ = "bare" THEN "certified" ELSE @]
    BY <1>10 DEF Answered, ReceiptLost
  <2>2. /\ keys'[c].quote = keys[c].quote
        /\ keys[c].session = "bare" => keys'[c].session = "certified"
        /\ calls'[c].pc = "paid" /\ Elsewhere
    BY <1>0, <2>1 DEF End, AtRest, KeyDirs
  <2> QED
    BY <1>0, <2>1, <2>2 DEF KeysFollow
<1>11. CASE GiveUp(c)
  <2>1. /\ calls[c].pc = "paying" /\ calls'[c].pc = "orphaned"
        /\ keys'[c] = keys[c] /\ Elsewhere
    BY <1>0, <1>11 DEF GiveUp, Local
  <2> QED
    BY <1>0, <2>1 DEF KeysFollow
<1> QED
  BY <1>1, <1>2, <1>3, <1>4, <1>5, <1>6, <1>7, <1>8, <1>9, <1>10, <1>11

\* Nor does a step of nobody's, or a restart, which kills every call but those whose
\* payment is on its way.
LEMMA KeysStep ==
  ASSUME KeysInv, [Next]_vars
  PROVE  \A d \in Calls : KeysFollow(d)'
<1>1. CASE UNCHANGED <<calls, keys, payments>>
  BY <1>1 DEF KeysInv, KeysFollow
<1>2. CASE Restart
  <2> SUFFICES ASSUME NEW d \in Calls PROVE KeysFollow(d)'
    OBVIOUS
  <2>1. keys' = keys /\ payments' = payments /\ calls[d] \in Local /\ KeysFollow(d)
    BY <1>2 DEF Restart, KeysInv, TypeOK
  <2>2. CASE calls[d].pc \in {"paying", "orphaned"}
    <3>1. calls'[d] = [calls[d] EXCEPT !.pc = "orphaned"]
      BY <1>2, <2>2 DEF Restart, Waiting
    <3>2. calls'[d].pc = "orphaned"
      BY <2>1, <3>1 DEF Local
    <3> QED
      BY <2>1, <2>2, <3>2 DEF KeysFollow
  <2>3. CASE calls[d].pc \in Waiting \ {"paying", "orphaned"}
    <3>1. calls'[d].pc = "killed"
      BY <1>2, <2>3 DEF Restart, AtRest
    <3> QED
      BY <3>1 DEF KeysFollow
  <2>4. CASE calls[d].pc \notin Waiting
    <3>1. calls'[d] = calls[d]
      BY <1>2, <2>4 DEF Restart, Waiting
    <3> QED
      BY <2>1, <3>1 DEF KeysFollow
  <2> QED
    BY <2>2, <2>3, <2>4
<1>3. ASSUME NEW c \in Calls, SessionEnds(c) PROVE UNCHANGED <<calls, keys, payments>>
  BY <1>3 DEF SessionEnds
<1> QED
  BY <1>1, <1>2, <1>3, KeysCallStep DEF Next, Tick, vars

\* A session the agent was told of has its key and certificate on disk, and a quote
\* leaves no key behind, however calls fail or are cut off (openSession.ts:26).
THEOREM KeysHold == Spec => []KeysKept
<1>1. Init => KeysInv
  BY InitInv DEF Init, KeysInv, KeysFollow, AtRest, IInv
<1>2. KeysInv /\ TypeOK' /\ [Next]_vars => KeysInv'
  BY KeysStep DEF KeysInv
<1>3. KeysInv => KeysKept
  BY DEF KeysInv, KeysFollow, KeysKept
<1> QED
  BY <1>1, <1>2, <1>3, TypeCorrect, PTL DEF Spec

---------------------------------------------------------------------------
(* What was paid in a day *)

\* What was on the ledger, on the day an approval was given, of the calls it saw.
Counted(a) ==
  SumFunctionOnSet([c \in Recorded |-> receipts[c].amount],
                   {c \in a.seen : receipts[c].day = a.at \div DayLength})

\* An approval nobody confirmed kept its price within the cap, beside what it saw.
WithinCap(a) ==
  a.hold = None =>
    a.seen \subseteq Recorded /\ (MaxPerDay # Off => Counted(a) + a.quoted <= MaxPerDay)

\* An approval a call carries, or has paid under.
Approved(a) ==
  \/ \E c \in Calls : calls[c].pc \in Bound /\ calls[c].approval = a
  \/ \E c \in Calls : payments[c] # None /\ payments[c].approval = a

\* A receipt is written once, when its call is paid; a payment remembers payments only;
\* and every approval in use keeps its price within the cap beside what it saw.
CapInv ==
  /\ \A c \in Calls :
       /\ receipts[c] # None => calls[c].pc = "paid"
       /\ payments[c] # None =>
            /\ calls[c].pc \in {"settled"} \cup Outcomes
            /\ payments[c].after \subseteq Paid
  /\ \A a \in Approval : Approved(a) => WithinCap(a)

\* The receipts an approval saw can be added up.
LEMMA LedgerType ==
  ASSUME TypeOK, NEW S \in SUBSET Recorded
  PROVE  /\ IsFiniteSet(S)
         /\ \A c \in S : [d \in Recorded |-> receipts[d].amount][c] = receipts[c].amount
         /\ \A c \in S : receipts[c].amount \in Nat
<1>1. S \subseteq Calls
  BY DEF Recorded
<1>2. IsFiniteSet(S)
  BY <1>1, CallsAssumption, FS_Subset
<1> QED
  BY <1>2 DEF Recorded, TypeOK, Receipt

\* A receipt, once recorded, stays as it is: so an approval stays within the cap.
LEMMA StaysWithin ==
  ASSUME TypeOK, TypeOK', \A c \in Recorded : receipts'[c] = receipts[c],
         NEW a \in Approval, WithinCap(a)
  PROVE  WithinCap(a)'
<1> SUFFICES ASSUME a.hold = None PROVE WithinCap(a)'
  BY DEF WithinCap
<1>1. a.seen \subseteq Recorded /\ (MaxPerDay # Off => Counted(a) + a.quoted <= MaxPerDay)
  BY DEF WithinCap
<1>2. Recorded \subseteq Recorded'
  BY DEF Recorded, TypeOK
<1> DEFINE S == {c \in a.seen : receipts[c].day = a.at \div DayLength}
           f == [c \in Recorded |-> receipts[c].amount]
           g == [c \in Recorded' |-> receipts'[c].amount]
<1>3. S \in SUBSET Recorded /\ S = {c \in a.seen : receipts'[c].day = a.at \div DayLength}
  BY <1>1
<1>4. /\ IsFiniteSet(S)
      /\ \A c \in S : f[c] \in Int /\ f[c] = g[c]
  <2>1. IsFiniteSet(S) /\ \A c \in S : f[c] = receipts[c].amount /\ receipts[c].amount \in Nat
    BY <1>3, LedgerType
  <2>2. ASSUME NEW c \in S PROVE g[c] = receipts[c].amount
    <3>1. c \in Recorded /\ c \in Recorded'
      BY <1>2, <1>3
    <3> QED
      BY <3>1
  <2> QED
    BY <2>1, <2>2
<1>5. Counted(a) = SumFunctionOnSet(f, S) /\ Counted(a)' = SumFunctionOnSet(g, S)
  BY <1>3 DEF Counted
<1> HIDE DEF S, f, g
<1>6. Counted(a)' = Counted(a)
  BY <1>4, <1>5, SumSame
<1> QED
  BY <1>1, <1>2, <1>6 DEF WithinCap

\* What the limits let through without a confirmation.
Passed(a) ==
  a.hold = None => a.seen = Recorded /\ a.at = clock /\ CheckDailyCap(a.quoted)

\* What passes the limits is within the cap.
LEMMA PassedWithin ==
  ASSUME NEW a \in Approval, Passed(a)
  PROVE  WithinCap(a)
<1> SUFFICES ASSUME a.hold = None PROVE WithinCap(a)
  BY DEF WithinCap
<1>1. a.seen = Recorded /\ a.at = clock /\ CheckDailyCap(a.quoted)
  BY DEF Passed
<1>2. Counted(a) = SpentToday
  BY <1>1 DEF Counted, SpentToday, ReadSpend, Today
<1> QED
  BY <1>1, <1>2 DEF WithinCap, CheckDailyCap

\* A call takes its approval along, or is given one that passed the limits.
LEMMA ApprovalMoves ==
  ASSUME IInv, NEW c \in Calls,
         \/ \E action \in PendingAction : Ask(c, action)
         \/ GetNodeQuote(c) \/ QuoteRead(c) \/ QuoteAnswered(c)
         \/ ConfirmPayment(c) \/ ConfirmNothing(c)
         \/ Requoted(c) \/ Challenged(c)
         \/ Answered(c) \/ ReceiptLost(c) \/ AnswerLost(c) \/ CallFails(c) \/ GiveUp(c)
         \/ StopSession(c)
  PROVE  /\ \A d \in Calls \ {c} : calls'[d] = calls[d] /\ receipts'[d] = receipts[d]
         /\ UNCHANGED payments /\ calls[c].pc \notin Outcomes
         /\ calls[c].pc = "settled" => calls'[c].pc \in Outcomes
         /\ receipts'[c] = receipts[c] \/ calls'[c].pc = "paid"
         /\ calls'[c].pc \in Bound =>
              \/ calls[c].pc \in Bound /\ calls'[c].approval = calls[c].approval
              \/ Passed(calls'[c].approval)
<1>0. TypeOK /\ calls[c] \in Local /\ calls \in [Calls -> Local]
      /\ receipts \in [Calls -> Receipt \cup {None}]
  BY DEF IInv, TypeOK
<1>1. CASE (\E action \in PendingAction : Ask(c, action)) \/ GetNodeQuote(c)
  <2>1. PICK pc \in {"quoting", "pricing"} :
          \E action : calls' = [calls EXCEPT ![c] = At(pc, action, None)]
    BY <1>1 DEF Ask, GetNodeQuote
  <2>2. calls'[c].pc = pc
    BY <1>0, <2>1 DEF At
  <2> QED
    BY <1>0, <1>1, <2>1, <2>2 DEF Ask, GetNodeQuote, Bound, Outcomes
<1>2. CASE QuoteRead(c) \/ ConfirmNothing(c) \/ Answered(c) \/ ReceiptLost(c) \/ AnswerLost(c)
             \/ CallFails(c) \/ StopSession(c)
  <2>1. /\ End(c, "answered") \/ End(c, "paid")
        /\ UNCHANGED payments /\ calls[c].pc \notin Outcomes
        /\ ~ Answered(c) => UNCHANGED receipts
        /\ Answered(c) => RecordSpend(c) /\ End(c, "paid")
    BY <1>2 DEF QuoteRead, ConfirmNothing, Answered, ReceiptLost, AnswerLost, CallFails, StopSession, Outcomes
  <2>2. /\ calls'[c].pc \in {"answered", "paid"}
        /\ (Answered(c) => calls'[c].pc = "paid")
        /\ \A d \in Calls \ {c} : calls'[d] = calls[d]
    BY <1>0, <2>1, EndType DEF Outcomes
  <2>3. /\ \A d \in Calls \ {c} : receipts'[d] = receipts[d]
        /\ receipts'[c] = receipts[c] \/ calls'[c].pc = "paid"
    BY <1>0, <2>1, <2>2 DEF RecordSpend
  <2>4. calls'[c].pc \in Outcomes /\ calls'[c].pc \notin Bound
    BY <2>2 DEF Outcomes, Bound
  <2> QED
    BY <2>1, <2>2, <2>3, <2>4
<1>3. CASE QuoteAnswered(c)
  <2>1. UNCHANGED <<payments, receipts>> /\ calls[c].pc = "quoting" /\ calls[c].action \in PendingAction
    BY <1>3 DEF QuoteAnswered, IInv, CallsInv
  <2>2. CASE End(c, "answered")
    BY <1>0, <2>1, <2>2, EndType DEF Outcomes, Bound
  <2>3. CASE ~ End(c, "answered")
    <3>1. PICK amount \in Nat :
            /\ CheckDailyCap(amount)
            /\ Perform(c, calls[c].action,
                       [at |-> clock, quoted |-> amount, seen |-> Recorded, hold |-> None])
      BY <1>3, <2>3, QuotedType DEF QuoteAnswered, ChallengesFor
    <3> PICK a : a = [at |-> clock, quoted |-> amount, seen |-> Recorded, hold |-> None]
      OBVIOUS
    <3>2. a \in Approval
      BY <1>0, ApprovalType DEF Recorded
    <3>3. calls'[c].approval = a /\ \A d \in Calls \ {c} : calls'[d] = calls[d]
      BY <1>0, <2>1, <3>1, <3>2, PerformType
    <3>4. Passed(a)
      BY <3>1 DEF Passed
    <3> QED
      BY <2>1, <3>3, <3>4 DEF Outcomes
  <2> QED
    BY <2>2, <2>3
<1>4. CASE ConfirmPayment(c)
  <2>1. UNCHANGED <<payments, receipts>> /\ calls[c].pc = "idle"
    BY <1>4 DEF ConfirmPayment
  <2>2. PICK hold \in SweepExpired :
          Perform(c, hold.action, [at |-> clock, quoted |-> hold.amount, seen |-> {}, hold |-> hold])
    BY <1>4 DEF ConfirmPayment
  <2> PICK a : a = [at |-> clock, quoted |-> hold.amount, seen |-> {}, hold |-> hold]
    OBVIOUS
  <2>3. hold \in ConfirmationHold /\ hold.amount \in Nat /\ hold.action \in PendingAction
    BY <1>0, SweepType, HoldIds DEF ConfirmationHold
  <2>4. a \in Approval /\ a.hold # None
    BY <1>0, <2>3, ApprovalType, HoldAssumption
  <2>5. calls'[c].approval = a /\ \A d \in Calls \ {c} : calls'[d] = calls[d]
    BY <1>0, <2>2, <2>3, <2>4, PerformType
  <2> QED
    BY <2>1, <2>4, <2>5 DEF Passed, Outcomes
<1>5. CASE Requoted(c) \/ Challenged(c) \/ GiveUp(c)
  <2>1. /\ calls[c].pc \in Bound \ {"settled"} /\ calls[c].pc \notin Outcomes
        /\ UNCHANGED <<payments, receipts>>
    BY <1>5 DEF Requoted, Challenged, GiveUp, Bound, Outcomes
  <2>2. \/ \E x : calls' = [calls EXCEPT ![c].pc = "challenging", ![c].named = x]
        \/ \E x : calls' = [calls EXCEPT ![c].pc = "paying", ![c].amount = x]
        \/ calls' = [calls EXCEPT ![c].pc = "orphaned"]
    BY <1>5 DEF Requoted, Challenged, GiveUp
  <2>3. calls'[c].approval = calls[c].approval /\ \A d \in Calls \ {c} : calls'[d] = calls[d]
    BY <1>0, <2>2 DEF Local
  <2> QED
    BY <2>1, <2>3
<1> QED
  BY <1>1, <1>2, <1>3, <1>4, <1>5

\* Every step keeps every approval in use within the cap.
LEMMA CapStep ==
  ASSUME IInv, IInv', CapInv, [Next]_vars
  PROVE  CapInv'
<1>0. TypeOK /\ TypeOK'
  BY DEF IInv
<1> SUFFICES
      /\ \A c \in Calls :
           /\ receipts'[c] # None => calls'[c].pc = "paid"
           /\ payments'[c] # None =>
                /\ calls'[c].pc \in {"settled"} \cup Outcomes
                /\ payments'[c].after \subseteq Paid'
      /\ \A c \in Recorded : receipts'[c] = receipts[c]
      /\ \A a \in Approval : Approved(a)' => Approved(a) \/ Passed(a)
  <2>1. ASSUME NEW a \in Approval, Approved(a)' PROVE WithinCap(a)'
    <3>1. WithinCap(a)
      BY <2>1, PassedWithin DEF CapInv
    <3> QED
      BY <1>0, <3>1, StaysWithin
  <2> QED
    BY <2>1 DEF CapInv
<1>1. ASSUME NEW c \in Calls,
             \/ \E action \in PendingAction : Ask(c, action)
             \/ GetNodeQuote(c) \/ QuoteRead(c) \/ QuoteAnswered(c)
             \/ ConfirmPayment(c) \/ ConfirmNothing(c)
             \/ Requoted(c) \/ Challenged(c)
             \/ Answered(c) \/ ReceiptLost(c) \/ AnswerLost(c) \/ CallFails(c) \/ GiveUp(c)
             \/ StopSession(c)
      PROVE  /\ \A d \in Calls :
                  /\ receipts'[d] # None => calls'[d].pc = "paid"
                  /\ payments'[d] # None =>
                       /\ calls'[d].pc \in {"settled"} \cup Outcomes
                       /\ payments'[d].after \subseteq Paid'
             /\ \A d \in Recorded : receipts'[d] = receipts[d]
             /\ \A a \in Approval : Approved(a)' => Approved(a) \/ Passed(a)
  <2>1. /\ \A d \in Calls \ {c} : calls'[d] = calls[d] /\ receipts'[d] = receipts[d]
        /\ UNCHANGED payments /\ calls[c].pc \notin Outcomes
        /\ calls[c].pc = "settled" => calls'[c].pc \in Outcomes
        /\ receipts'[c] = receipts[c] \/ calls'[c].pc = "paid"
        /\ calls'[c].pc \in Bound =>
             \/ calls[c].pc \in Bound /\ calls'[c].approval = calls[c].approval
             \/ Passed(calls'[c].approval)
    BY <1>1, ApprovalMoves
  <2>2. receipts[c] = None
    BY <2>1 DEF CapInv, Outcomes
  <2>3. Paid' = Paid
    BY <2>1 DEF Paid
  <2> QED
    BY <2>1, <2>2, <2>3 DEF CapInv, Recorded, Approved
<1>2. ASSUME NEW c \in Calls, Settles(c)
      PROVE  /\ \A d \in Calls :
                  /\ receipts'[d] # None => calls'[d].pc = "paid"
                  /\ payments'[d] # None =>
                       /\ calls'[d].pc \in {"settled"} \cup Outcomes
                       /\ payments'[d].after \subseteq Paid'
             /\ \A d \in Recorded : receipts'[d] = receipts[d]
             /\ \A a \in Approval : Approved(a)' => Approved(a) \/ Passed(a)
  <2>1. /\ calls[c].pc \in {"paying", "orphaned"} /\ calls[c].pc \in Bound /\ UNCHANGED receipts
        /\ \A d \in Calls \ {c} : payments'[d] = payments[d]
        /\ payments'[c].approval = calls[c].approval /\ payments'[c].after = Paid
    BY <1>0, <1>2 DEF Settles, TypeOK, Bound, Paid
  <2>2. /\ \A d \in Calls \ {c} : calls'[d] = calls[d]
        /\ calls'[c].pc \in {"settled", "killed"}
        /\ calls'[c].pc = "settled" => calls'[c].approval = calls[c].approval
    <3>1. CASE calls[c].pc = "paying"
      BY <1>0, <1>2, <3>1 DEF Settles, TypeOK, Local
    <3>2. CASE calls[c].pc # "paying"
      BY <1>0, <1>2, <3>2, EndType DEF Settles, Outcomes
    <3> QED
      BY <3>1, <3>2
  <2>3. receipts[c] = None /\ payments[c] = None
    BY <2>1 DEF CapInv, Outcomes
  <2>4. Paid \subseteq Paid'
    BY <2>1, <2>3 DEF Paid
  <2>5. ASSUME NEW a \in Approval, Approved(a)' PROVE Approved(a)
    <3>1. calls'[c].pc \in Bound => calls'[c].pc = "settled"
      BY <2>2 DEF Bound
    <3> QED
      BY <2>1, <2>2, <2>3, <2>5, <3>1 DEF Approved
  <2> QED
    BY <2>1, <2>2, <2>3, <2>4, <2>5 DEF CapInv, Outcomes
<1>3. CASE Restart
  <2>1. UNCHANGED <<receipts, payments>>
    BY <1>3 DEF Restart
  <2>2. ASSUME NEW c \in Calls
        PROVE  /\ calls[c].pc \in Outcomes => calls'[c] = calls[c]
               /\ calls[c].pc = "settled" => calls'[c].pc = "killed"
               /\ calls'[c].pc \in Bound => calls[c].pc \in Bound /\ calls'[c].approval = calls[c].approval
    <3>1. CASE calls[c].pc \in {"paying", "orphaned"}
      <4>1. calls'[c] = [calls[c] EXCEPT !.pc = "orphaned"]
        BY <1>3, <3>1 DEF Restart, Waiting
      <4> QED
        BY <1>0, <3>1, <4>1 DEF TypeOK, Local, Outcomes, Bound
    <3>2. CASE calls[c].pc \in Waiting \ {"paying", "orphaned"}
      <4>1. calls'[c].pc = "killed"
        BY <1>3, <3>2 DEF Restart, AtRest
      <4> QED
        BY <3>2, <4>1 DEF Outcomes, Bound, Waiting
    <3>3. CASE calls[c].pc \notin Waiting
      <4>1. calls'[c] = calls[c]
        BY <1>3, <3>3 DEF Restart, Waiting
      <4> QED
        BY <3>3, <4>1 DEF Waiting
    <3> QED
      BY <3>1, <3>2, <3>3
  <2>3. Paid' = Paid
    BY <2>1 DEF Paid
  <2>4. \A a \in Approval : Approved(a)' => Approved(a)
    BY <2>1, <2>2 DEF Approved
  <2> QED
    BY <2>1, <2>2, <2>3, <2>4 DEF CapInv, Outcomes
<1>4. CASE UNCHANGED <<calls, receipts, payments>>
  <2>1. Paid' = Paid /\ \A a \in Approval : Approved(a)' => Approved(a)
    BY <1>4 DEF Paid, Approved
  <2> QED
    BY <1>4, <2>1 DEF CapInv
<1>5. ASSUME NEW c \in Calls, SessionEnds(c) PROVE UNCHANGED <<calls, receipts, payments>>
  BY <1>5 DEF SessionEnds
<1> QED
  BY <1>1, <1>2, <1>3, <1>4, <1>5 DEF Next, Tick, vars

\* The payment and those before it on its day, next to what its approval saw.
LEMMA CapKept ==
  ASSUME IInv, CapInv, MaxPerDay # Off, NEW c \in Paid, Ordinary(c)
  PROVE  payments[c].amount
           + SumFunctionOnSet([d \in Paid |-> payments[d].amount],
                              {d \in payments[c].after : payments[d].day = payments[c].day}) <= MaxPerDay
<1> DEFINE p == payments[c]
           a == p.approval
           S == {d \in a.seen : receipts[d].day = a.at \div DayLength}
           T == {d \in p.after : payments[d].day = p.day}
           f == [d \in Paid |-> payments[d].amount]
           g == [d \in Recorded |-> receipts[d].amount]
<1>1. /\ c \in Calls /\ p \in Payment /\ a \in Approval /\ p.amount \in Nat /\ a.quoted \in Nat
      /\ MaxPerDay \in Nat
  BY ConfigAssumption DEF Paid, IInv, TypeOK, Payment, Approval, ConfigAccepted
<1>2. /\ a.hold = None /\ a.at \div DayLength = p.day /\ p.amount <= a.quoted /\ p.after \subseteq a.seen
      /\ \A d \in p.after : receipts[d].day = payments[d].day /\ receipts[d].amount >= payments[d].amount
  BY DEF Ordinary
<1>3. WithinCap(a) /\ p.after \subseteq Paid
  BY <1>1 DEF CapInv, Approved, Paid
<1>4. a.seen \subseteq Recorded /\ Counted(a) + a.quoted <= MaxPerDay
  BY <1>2, <1>3 DEF WithinCap
<1>5. S \in SUBSET Recorded /\ T \in SUBSET S
  BY <1>2, <1>4
<1>6. IsFiniteSet(S) /\ \A d \in S : g[d] \in Nat /\ g[d] = receipts[d].amount
  BY <1>5, LedgerType DEF IInv
<1>7. \A d \in T : f[d] \in Nat /\ f[d] <= g[d]
  <2> SUFFICES ASSUME NEW d \in T PROVE f[d] \in Nat /\ f[d] <= g[d]
    OBVIOUS
  <2>1. d \in Paid /\ payments[d] \in Payment /\ f[d] = payments[d].amount
    BY <1>3 DEF Paid, IInv, TypeOK
  <2>2. payments[d].amount \in Nat
    BY <2>1 DEF Payment
  <2>3. g[d] \in Nat /\ g[d] >= payments[d].amount
    BY <1>2, <1>5, <1>6
  <2> QED
    BY <2>1, <2>2, <2>3
<1>8. Counted(a) = SumFunctionOnSet(g, S)
  BY DEF Counted
<1> HIDE DEF S, T, f, g
<1>9. /\ SumFunctionOnSet(f, T) \in Nat /\ SumFunctionOnSet(g, S) \in Nat
      /\ SumFunctionOnSet(f, T) <= SumFunctionOnSet(g, S)
  BY <1>5, <1>6, <1>7, SumAtMost
<1>10. p.amount + SumFunctionOnSet(f, T) <= MaxPerDay
  <2> HIDE DEF p, a
  <2> QED
    BY <1>1, <1>2, <1>4, <1>8, <1>9
<1> QED
  BY <1>10 DEF f, T

\* An ordinary payment never takes its day past the daily cap, for any prices, caps,
\* calls and faults (limits.ts:42).
THEOREM DailyCapKept == Spec => []DailyCapHolds
<1>1. Init => CapInv
  BY DEF Init, CapInv, Approved, AtRest, Bound
<1>2. IInv /\ IInv' /\ CapInv /\ [Next]_vars => CapInv'
  BY CapStep
<1>3. IInv /\ CapInv => DailyCapHolds
  BY CapKept DEF DailyCapHolds
<1> QED
  BY <1>1, <1>2, <1>3, Invariant, PTL DEF Spec
============================================================================
