------------------------------- MODULE McpServer -------------------------------
(***************************************************************************)
(* The MCP server (packages/mcp-server): an agent's tool calls against a   *)
(* node that sells sessions, and what stands in for the human who is not   *)
(* watching: a cap per payment, a cap per day, and a hold on anything      *)
(* above a threshold until it is confirmed.                                *)
(*                                                                         *)
(* The server is one event loop.  Calls interleave at their awaits, each   *)
(* of which is an exchange with the node, and the code between two awaits  *)
(* runs as one step.  The node prices every exchange afresh, and is a      *)
(* stranger: it may quote one amount and charge another.                   *)
(*                                                                         *)
(* A call is made once, so a call id also names the hold it placed, the    *)
(* session it opened and the one payment it can make.                      *)
(***************************************************************************)
EXTENDS Integers, Sequences, FiniteSets, FiniteSetsExt

CONSTANTS
  Calls,           \* tool calls the agent makes
  None,            \* no call, no amount
  Off,             \* a limit left unset
  Challenges,      \* the accepts lists a node may answer 402 with
  Reports,         \* amounts a node may say it was paid for an open
  MaxPerPayment,   \* config.maxTinybarsPerPayment
  MaxPerDay,       \* config.maxTinybarsPerDay
  ConfirmAbove,    \* config.confirmAboveTinybars
  TTL,             \* CONFIRMATION_TTL_MS, in clock ticks
  DayLength,       \* a UTC day, in clock ticks
  MaxClock,        \* bound: the clock stops here
  MaxFaults        \* bound: failures in one behaviour

\* What loadConfig refuses to start with: a price too big to pay and too small
\* to ask about.
ConfigAccepted ==
  /\ MaxPerPayment \in Nat
  /\ MaxPerDay \in Nat \cup {Off}
  /\ ConfirmAbove \in Nat \cup {Off}
  /\ ConfirmAbove # Off => ConfirmAbove <= MaxPerPayment

\* One way to pay, as a challenge lists it.
PaymentRequirements == [network : STRING, asset : STRING, amount : Nat]

ASSUME ConfigAssumption == ConfigAccepted
ASSUME ChallengeAssumption == Challenges \subseteq Seq(PaymentRequirements)
ASSUME ReportAssumption == Reports \subseteq Nat
ASSUME NameAssumption == None \notin Calls /\ None \notin Nat /\ Off \notin Nat
ASSUME CallsAssumption == IsFiniteSet(Calls)
ASSUME BoundAssumption == {TTL, MaxClock, MaxFaults} \subseteq Nat /\ DayLength \in Nat \ {0}

VARIABLES
  calls,      \* where each tool call is, and its local variables
  holds,      \* limits.ts: payments waiting to be confirmed
  receipts,   \* receipts.jsonl: the receipt each call recorded
  payments,   \* what each call really paid (history)
  keys,       \* the key directories each call has left on disk
  live,       \* sessions the node is running, by the call that opened them
  clock, faults

vars == <<calls, holds, receipts, payments, keys, live, clock, faults>>

Today == clock \div DayLength

---------------------------------------------------------------------------
(* Types *)

PendingAction ==
  [kind : {"open_session"}, session : {None}] \cup [kind : {"top_up_session"}, session : Calls]

ConfirmationHold == [id : Calls, amount : Nat, action : PendingAction, expiresAt : Nat]
ASSUME HoldAssumption == None \notin ConfirmationHold

\* What let a payment through: when, at what price, and the calls on the ledger the
\* daily cap was checked against, or else the hold that was taken.
Approval ==
  [at : Nat, quoted : Nat, seen : SUBSET Calls, hold : ConfirmationHold \cup {None}]

Waiting == {"quoting", "pricing", "requoting", "challenging", "paying", "settled", "orphaned"}
\* What the agent was told last: access that was paid for, anything else, or
\* nothing because the server was killed.
Outcomes == {"paid", "answered", "killed"}

\* named is the amount a top-up's receipt will name, amount the one signed for.
Local ==
  [pc : {"idle"} \cup Waiting \cup Outcomes, action : PendingAction \cup {None},
   approval : Approval \cup {None}, named : Nat \cup {None}, amount : Nat \cup {None}]

\* after is the calls that had paid before this one.
Payment == [amount : Nat, day : Nat, after : SUBSET Calls, approval : Approval, action : PendingAction]
Receipt == [amount : Nat, day : Nat]

KeyDirs == [quote : BOOLEAN, session : {"none", "bare", "certified"}]

TypeOK ==
  /\ calls \in [Calls -> Local]
  /\ holds \subseteq ConfirmationHold
  /\ receipts \in [Calls -> Receipt \cup {None}]
  /\ payments \in [Calls -> Payment \cup {None}]
  /\ keys \in [Calls -> KeyDirs]
  /\ live \subseteq Calls
  /\ clock \in 0..MaxClock
  /\ faults \in 0..MaxFaults

AtRest(pc) == [pc |-> pc, action |-> None, approval |-> None, named |-> None, amount |-> None]

At(pc, action, approval) ==
  [pc |-> pc, action |-> action, approval |-> approval, named |-> None, amount |-> None]

Init ==
  /\ calls = [c \in Calls |-> AtRest("idle")]
  /\ holds = {}
  /\ receipts = [c \in Calls |-> None]
  /\ payments = [c \in Calls |-> None]
  /\ keys = [c \in Calls |-> [quote |-> FALSE, session |-> "none"]]
  /\ live = {}
  /\ clock = 0
  /\ faults = 0

---------------------------------------------------------------------------
(* The payer: which of a challenge's options may be paid at all *)

Acceptable(option) ==
  option.network = "hedera:testnet" /\ option.asset = "0.0.0" /\ option.amount <= MaxPerPayment

\* What the x402 client pays: the first option the policy lets through.
Payable(challenge, i) ==
  /\ Acceptable(challenge[i])
  /\ \A j \in 1..(i - 1) : ~ Acceptable(challenge[j])

\* What the tools take for the price: the first option, payable or not.
Quoted(challenge) == IF Len(challenge) = 0 THEN 0 ELSE challenge[1].amount

---------------------------------------------------------------------------
(* The limits *)

Recorded == {c \in Calls : receipts[c] # None}
ReadSpend(day) == {c \in Recorded : receipts[c].day = day}
SpentToday == SumFunctionOnSet([c \in Recorded |-> receipts[c].amount], ReadSpend(Today))

\* Mutant of CheckDailyCap: the payment about to be made is left out.
CheckSpentOnly(amount) == MaxPerDay = Off \/ SpentToday <= MaxPerDay

CheckDailyCap(amount) == MaxPerDay = Off \/ SpentToday + amount <= MaxPerDay

\* Mutant of NeedsConfirmation: only what the payer would refuse is held.
NeedsNone(amount) == ConfirmAbove # Off /\ amount > MaxPerPayment

NeedsConfirmation(amount) == ConfirmAbove # Off /\ amount > ConfirmAbove

SweepExpired == {h \in holds : h.expiresAt >= clock}

---------------------------------------------------------------------------
(* Tool calls *)

End(c, outcome) == calls' = [calls EXCEPT ![c] = AtRest(outcome)]

Fault == faults < MaxFaults /\ faults' = faults + 1

\* open_session and top_up_session start with a free quote.  An open's takes a
\* throwaway key, since the node validates the spec before it prices it; a top-up
\* needs the token that an answered open handed the agent.
Ask(c, action) ==
  /\ calls[c].pc = "idle"
  /\ action.kind = "top_up_session" => calls[action.session].pc = "paid"
  /\ calls' = [calls EXCEPT ![c] = At("quoting", action, None)]
  /\ keys' = [keys EXCEPT ![c].quote = (action.kind = "open_session")]
  /\ UNCHANGED <<holds, receipts, payments, live, clock, faults>>

\* get_node_quote is an open's quote and nothing more.
GetNodeQuote(c) ==
  /\ calls[c].pc = "idle"
  /\ calls' = [calls EXCEPT ![c] = At("pricing", [kind |-> "open_session", session |-> None], None)]
  /\ keys' = [keys EXCEPT ![c].quote = TRUE]
  /\ UNCHANGED <<holds, receipts, payments, live, clock, faults>>

QuoteRead(c) ==
  /\ calls[c].pc = "pricing"
  /\ End(c, "answered")
  /\ keys' = [keys EXCEPT ![c].quote = FALSE]
  /\ UNCHANGED <<holds, receipts, payments, live, clock, faults>>

\* The node answers 402 with any challenge, and never prices a session that is over.
ChallengesFor(action) ==
  {ch \in Challenges : action.kind = "top_up_session" => action.session \in live}

\* performOpenSession and performTopUp up to their first await: a fresh key and an
\* unpaid request, or another quote.
Perform(c, action, approval) ==
  /\ calls' = [calls EXCEPT ![c] =
                 At(IF action.kind = "open_session" THEN "challenging" ELSE "requoting", action, approval)]
  /\ keys' = [keys EXCEPT ![c] =
                [quote |-> FALSE, session |-> IF action.kind = "open_session" THEN "bare" ELSE "none"]]

HoldForConfirmation(c, amount) ==
  holds' = SweepExpired \cup {[id |-> c, amount |-> amount, action |-> calls[c].action,
                               expiresAt |-> clock + TTL]}

\* The quote is back and its key discarded: the daily cap, then the threshold,
\* then the payment.
QuoteAnswered(c) ==
  /\ calls[c].pc = "quoting"
  /\ \E challenge \in ChallengesFor(calls[c].action) :
       LET amount == Quoted(challenge) IN
       \/ /\ ~ CheckDailyCap(amount)
          /\ End(c, "answered")
          /\ keys' = [keys EXCEPT ![c].quote = FALSE]
          /\ UNCHANGED holds
       \/ /\ CheckDailyCap(amount) /\ NeedsConfirmation(amount)
          /\ HoldForConfirmation(c, amount)
          /\ End(c, "answered")
          /\ keys' = [keys EXCEPT ![c].quote = FALSE]
       \/ /\ CheckDailyCap(amount) /\ ~ NeedsConfirmation(amount)
          /\ Perform(c, calls[c].action,
                     [at |-> clock, quoted |-> amount, seen |-> Recorded, hold |-> None])
          /\ UNCHANGED holds
  /\ UNCHANGED <<receipts, payments, live, clock, faults>>

\* Mutant of TakeConfirmedAction: the hold is looked up and left where it is.
TakeAndKeep(hold) == holds' = SweepExpired

TakeConfirmedAction(hold) == holds' = SweepExpired \ {hold}

\* confirm_payment: the hold is consumed whether or not the payment succeeds, and
\* the daily cap is not asked again.
ConfirmPayment(c) ==
  /\ calls[c].pc = "idle"
  /\ \E hold \in SweepExpired :
       /\ TakeConfirmedAction(hold)
       /\ Perform(c, hold.action, [at |-> clock, quoted |-> hold.amount, seen |-> {}, hold |-> hold])
  /\ UNCHANGED <<receipts, payments, live, clock, faults>>

\* A confirmation id that has expired or was used.
ConfirmNothing(c) ==
  /\ calls[c].pc = "idle"
  /\ holds' = SweepExpired
  /\ End(c, "answered")
  /\ UNCHANGED <<receipts, payments, keys, live, clock, faults>>

\* performTopUp asks for the price once more; it is the one the receipt will name.
Requoted(c) ==
  /\ calls[c].pc = "requoting"
  /\ \E challenge \in ChallengesFor(calls[c].action) :
       calls' = [calls EXCEPT ![c].pc = "challenging", ![c].named = Quoted(challenge)]
  /\ UNCHANGED <<holds, receipts, payments, keys, live, clock, faults>>

\* The unpaid request comes back 402: sign for the first option the policy passes.
Challenged(c) ==
  /\ calls[c].pc = "challenging"
  /\ \E challenge \in ChallengesFor(calls[c].action) : \E i \in DOMAIN challenge :
       /\ Payable(challenge, i)
       /\ calls' = [calls EXCEPT ![c].pc = "paying", ![c].amount = challenge[i].amount]
  /\ UNCHANGED <<holds, receipts, payments, keys, live, clock, faults>>

\* The paid request reaches the node and settles, whoever still waits for it.
Settles(c) ==
  /\ calls[c].pc \in {"paying", "orphaned"}
  /\ payments' = [payments EXCEPT ![c] =
       [amount |-> calls[c].amount, day |-> Today, after |-> {d \in Calls : payments[d] # None},
        approval |-> calls[c].approval, action |-> calls[c].action]]
  /\ live' = live \cup {d \in {c} : calls[c].action.kind = "open_session"}
  /\ IF calls[c].pc = "paying" THEN calls' = [calls EXCEPT ![c].pc = "settled"]
                               ELSE End(c, "killed")
  /\ UNCHANGED <<holds, receipts, keys, clock, faults>>

\* Mutant of RecordSpend: an open's receipt is given the price of a top-up.
RecordNamed(c) ==
  receipts' = [receipts EXCEPT ![c] = [amount |-> calls[c].named, day |-> Today]]

\* The receipt names what the node says it was paid for an open, whatever was signed,
\* and the second quote for a top-up.
RecordSpend(c) ==
  \E amount \in IF calls[c].named = None THEN Reports ELSE {calls[c].named} :
    receipts' = [receipts EXCEPT ![c] = [amount |-> amount, day |-> Today]]

\* The paid answer arrives: certificate, then receipt.
Answered(c) ==
  /\ calls[c].pc = "settled"
  /\ RecordSpend(c)
  /\ End(c, "paid")
  /\ keys' = [keys EXCEPT ![c].session = IF @ = "bare" THEN "certified" ELSE @]
  /\ UNCHANGED <<holds, payments, live, clock, faults>>

\* The receipt cannot be appended, which is passed over in silence.
ReceiptLost(c) ==
  /\ calls[c].pc = "settled"
  /\ Fault
  /\ End(c, "paid")
  /\ keys' = [keys EXCEPT ![c].session = IF @ = "bare" THEN "certified" ELSE @]
  /\ UNCHANGED <<holds, receipts, payments, live, clock>>

\* The answer is lost after the money moved, or the certificate cannot be
\* written: the tool fails, nothing is recorded, and an open's key stays.
AnswerLost(c) ==
  /\ calls[c].pc = "settled"
  /\ Fault
  /\ End(c, "answered")
  /\ UNCHANGED <<holds, receipts, payments, keys, live, clock>>

\* Mutant of CallFails: no finally around the quote.
FailsUntidied(c) ==
  /\ calls[c].pc \in {"quoting", "pricing", "requoting", "challenging", "paying"}
  /\ End(c, "answered")
  /\ UNCHANGED <<holds, receipts, payments, keys, live, clock, faults>>

\* The node refuses, quotes nothing payable, or cannot be reached.  A quote's key
\* is discarded on the way out; a session's is not.
CallFails(c) ==
  /\ calls[c].pc \in {"quoting", "pricing", "requoting", "challenging", "paying"}
  /\ End(c, "answered")
  /\ keys' = [keys EXCEPT ![c].quote = FALSE]
  /\ UNCHANGED <<holds, receipts, payments, live, clock, faults>>

\* The wait for a paid request ends before the node has settled it.
GiveUp(c) ==
  /\ calls[c].pc = "paying"
  /\ Fault
  /\ calls' = [calls EXCEPT ![c].pc = "orphaned"]
  /\ UNCHANGED <<holds, receipts, payments, keys, live, clock>>

\* stop_session, by an agent that was given the session's token.
StopSession(c) ==
  /\ calls[c].pc = "idle"
  /\ \E s \in live :
       /\ calls[s].pc = "paid"
       /\ live' = live \ {s}
  /\ End(c, "answered")
  /\ UNCHANGED <<holds, receipts, payments, keys, clock, faults>>

\* The node ends a session of itself.
SessionEnds(s) ==
  /\ s \in live
  /\ live' = live \ {s}
  /\ UNCHANGED <<calls, holds, receipts, payments, keys, clock, faults>>

\* The server is killed and started again: the holds go, the receipts stay, and a
\* payment on its way may still arrive.
Restart ==
  /\ Fault
  /\ calls' = [c \in Calls |->
       CASE calls[c].pc \in {"paying", "orphaned"} -> [calls[c] EXCEPT !.pc = "orphaned"]
         [] calls[c].pc \in Waiting \ {"paying", "orphaned"} -> AtRest("killed")
         [] calls[c].pc \notin Waiting -> calls[c]]
  /\ holds' = {}
  /\ UNCHANGED <<receipts, payments, keys, live, clock>>

Tick ==
  /\ clock < MaxClock
  /\ clock' = clock + 1
  /\ UNCHANGED <<calls, holds, receipts, payments, keys, live, faults>>

Next ==
  \/ \E c \in Calls :
       \/ \E action \in PendingAction : Ask(c, action)
       \/ GetNodeQuote(c) \/ QuoteRead(c) \/ QuoteAnswered(c)
       \/ ConfirmPayment(c) \/ ConfirmNothing(c)
       \/ Requoted(c) \/ Challenged(c) \/ Settles(c)
       \/ Answered(c) \/ ReceiptLost(c) \/ AnswerLost(c) \/ CallFails(c) \/ GiveUp(c)
       \/ StopSession(c) \/ SessionEnds(c)
  \/ Restart \/ Tick

Spec == Init /\ [][Next]_vars

---------------------------------------------------------------------------
(* Properties *)

Paid == {c \in Calls : payments[c] # None}

\* What the caps are for.  A payment made without anyone's confirmation stays
\* under the threshold unless the node charged more than it had quoted, and no
\* payment at all passes the cap per payment, whatever the node charged, whoever
\* confirmed it and whatever was lost in between (payer.ts:68, limits.ts:58).
PaymentsApproved ==
  \A c \in Paid :
    LET p == payments[c] IN
    /\ p.amount <= MaxPerPayment
    /\ p.approval.hold = None /\ p.amount <= p.approval.quoted =>
         ConfirmAbove = Off \/ p.amount <= ConfirmAbove

\* A confirmed hold buys the one thing it was placed for, once, and was taken
\* before it expired; restarts, expiries and calls confirming at the same time
\* included (limits.ts:75).
HoldsBuyOnce ==
  \A c \in Paid :
    payments[c].approval.hold # None =>
      /\ payments[c].action = payments[c].approval.hold.action
      /\ payments[c].approval.at <= payments[c].approval.hold.expiresAt
      /\ \A d \in Paid \ {c} : payments[d].approval.hold # payments[c].approval.hold

\* A payment the daily cap can be held to: checked on the day it settles, with
\* every payment before it already on the ledger for what it was, and charged at
\* the price quoted.  Left out are the ways around the cap: a held payment, a
\* call that overlapped another, a receipt that was lost or says less than was paid
\* (an open's says what the node reports, a top-up's what it quoted), a price that
\* went up, midnight.
Ordinary(c) ==
  LET p == payments[c] IN
  /\ p.approval.hold = None
  /\ p.approval.at \div DayLength = p.day
  /\ p.amount <= p.approval.quoted
  /\ p.after \subseteq p.approval.seen
  /\ \A d \in p.after : receipts[d].day = payments[d].day /\ receipts[d].amount >= payments[d].amount

\* An ordinary payment never takes its day past the daily cap (limits.ts:42).
DailyCapHolds ==
  MaxPerDay # Off =>
    \A c \in Paid :
      Ordinary(c) =>
        payments[c].amount
          + SumFunctionOnSet([d \in Paid |-> payments[d].amount],
                             {d \in payments[c].after : payments[d].day = payments[c].day}) <= MaxPerDay

\* A session the agent was told of can be reached: its key and certificate are on
\* disk.  And a quote, however it ended, leaves no key behind (openSession.ts:26).
KeysKept ==
  \A c \in Calls :
    /\ payments[c] # None /\ calls[c].pc = "paid" /\ payments[c].action.kind = "open_session"
         => keys[c].session = "certified"
    /\ keys[c].quote => calls[c].pc \in {"quoting", "pricing", "killed"}
=============================================================================
