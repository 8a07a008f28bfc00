----------------------------- MODULE SessionEscrow -----------------------------
(***************************************************************************)
(* The escrow contract (contracts/contracts/SessionEscrow.sol): sessions   *)
(* paid for in advance, split once by the time that passed, and payouts    *)
(* whose recipients may refuse them or call back in.                       *)
(*                                                                         *)
(* A call that pays keeps a frame on the stack while it runs.  When it     *)
(* hands value over, its recipient is in control and may make any call of  *)
(* its own before it accepts or refuses; a refusal, like every failed call *)
(* of the EVM, undoes whatever was done since the value was handed over.   *)
(* Calls that revert on a guard change nothing and are not steps.          *)
(***************************************************************************)
EXTENDS Integers, Sequences, FiniteSets, FiniteSetsExt

CONSTANTS
  Ids,          \* session ids
  Accounts,     \* addresses that call the contract and are paid by it
  ZeroAddress,  \* address(0)
  Prices,       \* prices per second a caller may name
  Durations,    \* seconds a caller may name
  Supply,       \* tinybars in existence
  MaxDepth,     \* bound: payouts under way at once
  MaxClock      \* bound: the last timestamp

ASSUME AddressAssumption == ZeroAddress \notin Accounts
ASSUME AmountAssumption == Prices \subseteq Nat /\ Durations \subseteq Nat /\ Supply \in Nat
\* There are finitely many bytes32 ids and 20-byte addresses.
ASSUME FiniteAssumption == IsFiniteSet(Ids) /\ IsFiniteSet(Accounts)
ASSUME BoundAssumption == MaxDepth \in Nat /\ MaxClock \in Nat

VARIABLES
  session,   \* _sessions
  pending,   \* pendingWithdrawal
  balance,   \* the contract's own balance
  received,  \* history: per account, all the contract has handed over
  stack,     \* the paying calls under way, the innermost last
  clock      \* block.timestamp

ledger == <<session, pending, balance, received>>
vars == <<session, pending, balance, received, stack, clock>>

\* What a mapping returns for an unknown id: the zeroed struct.
NoSession == [renter |-> ZeroAddress, provider |-> ZeroAddress, pricePerSecond |-> 0,
              startTime |-> 0, duration |-> 0, deposited |-> 0, settled |-> FALSE]

Session ==
  [renter : Accounts, provider : Accounts, pricePerSecond : Nat, startTime : Nat,
   duration : Nat, deposited : Nat, settled : BOOLEAN]

\* Everything a revert restores.
World ==
  [session : [Ids -> Session \cup {NoSession}], pending : [Accounts -> Nat],
   balance : Nat, received : [Accounts -> Nat]]

Now == [session |-> session, pending |-> pending, balance |-> balance, received |-> received]

Restore(w) ==
  /\ session' = w.session
  /\ pending' = w.pending
  /\ balance' = w.balance
  /\ received' = w.received

Payout == [to : Accounts, amount : Nat \ {0}]

\* A frame owes the payouts in todo, the first of them under way.  "send":
\* about to hand it over; "called": its recipient is in control.
Frame ==
  [op : {"settle", "withdraw"}, todo : Seq(Payout), stage : {"send", "called"},
   before : World, undo : World]

Top == stack[Len(stack)]
Rest == SubSeq(stack, 1, Len(stack) - 1)

\* Somebody other than the contract is in control.
Callable == stack # << >> => Top.stage = "called"

Exists(i) == session[i].renter # ZeroAddress

-----------------------------------------------------------------------------
(* The split.                                                              *)

\* A mutant: time that was not paid for counts.
ElapsedUncapped(s, now) == now - s.startTime

Elapsed(s, now) ==
  IF now - s.startTime > s.duration THEN s.duration ELSE now - s.startTime

ProviderAmount(s, now) == s.pricePerSecond * Elapsed(s, now)

RefundAmount(s, now) == s.deposited - ProviderAmount(s, now)

\* A mutant: a party owed nothing is called as well.
DueAnyway(to, amount) == << [to |-> to, amount |-> amount] >>

Due(to, amount) ==
  IF amount > 0 THEN << [to |-> to, amount |-> amount] >> ELSE << >>

\* Fixed before the first of them leaves.
Payouts(s, now) ==
  Due(s.provider, ProviderAmount(s, now)) \o Due(s.renter, RefundAmount(s, now))

-----------------------------------------------------------------------------
(* The calls.                                                              *)

Init ==
  /\ session = [i \in Ids |-> NoSession]
  /\ pending = [a \in Accounts |-> 0]
  /\ balance = 0
  /\ received = [a \in Accounts |-> 0]
  /\ stack = << >>
  /\ clock = 0

\* Nobody pays with tinybars the contract already holds.
Payable == 0..(Supply - balance)

OpenSession(caller, i, provider, price, duration, paid) ==
  /\ Callable
  /\ ~Exists(i)
  /\ provider # ZeroAddress
  /\ price # 0
  /\ duration # 0
  /\ paid = price * duration
  /\ session' = [session EXCEPT ![i] =
       [renter |-> caller, provider |-> provider, pricePerSecond |-> price,
        startTime |-> clock, duration |-> duration, deposited |-> paid, settled |-> FALSE]]
  /\ balance' = balance + paid
  /\ UNCHANGED <<pending, received, stack, clock>>

\* A mutant: a payment for less than its time is let through.
TopUpUnderpaid(i, added, paid) ==
  /\ Callable
  /\ Exists(i) /\ ~session[i].settled
  /\ added # 0
  /\ paid <= session[i].pricePerSecond * added
  /\ session' = [session EXCEPT ![i].duration = @ + added, ![i].deposited = @ + paid]
  /\ balance' = balance + paid
  /\ UNCHANGED <<pending, received, stack, clock>>

\* A mutant: the session starts afresh with every payment.
TopUpRestarting(i, added, paid) ==
  /\ Callable
  /\ Exists(i) /\ ~session[i].settled
  /\ added # 0
  /\ paid = session[i].pricePerSecond * added
  /\ session' = [session EXCEPT ![i].duration = @ + added, ![i].deposited = @ + paid,
                                ![i].startTime = clock]
  /\ balance' = balance + paid
  /\ UNCHANGED <<pending, received, stack, clock>>

\* Anyone may pay for more time.
TopUp(i, added, paid) ==
  /\ Callable
  /\ Exists(i)
  /\ ~session[i].settled
  /\ added # 0
  /\ paid = session[i].pricePerSecond * added
  /\ session' = [session EXCEPT ![i].duration = @ + added, ![i].deposited = @ + paid]
  /\ balance' = balance + paid
  /\ UNCHANGED <<pending, received, stack, clock>>

\* A paying call begins; what it owes is sent by the steps below.
Begin(op, todo) ==
  /\ Len(stack) < MaxDepth
  /\ stack' = Append(stack, [op |-> op, todo |-> todo, stage |-> "send",
                             before |-> Now, undo |-> Now])

\* A mutant: the one-shot flag is not set before value leaves.
SettleUnflagged(i) ==
  /\ Callable
  /\ Exists(i)
  /\ ~session[i].settled
  /\ Begin("settle", Payouts(session[i], clock))
  /\ UNCHANGED <<session, pending, balance, received, clock>>

\* Anyone may settle.
Settle(i) ==
  /\ Callable
  /\ Exists(i)
  /\ ~session[i].settled
  /\ session' = [session EXCEPT ![i].settled = TRUE]
  /\ Begin("settle", Payouts(session[i], clock))
  /\ UNCHANGED <<pending, balance, received, clock>>

\* A mutant: what is owed is not zeroed before it is handed over.
WithdrawUnzeroed(a) ==
  /\ Callable
  /\ pending[a] # 0
  /\ Begin("withdraw", Due(a, pending[a]))
  /\ UNCHANGED <<session, pending, balance, received, clock>>

Withdraw(a) ==
  /\ Callable
  /\ pending[a] # 0
  /\ pending' = [pending EXCEPT ![a] = 0]
  /\ Begin("withdraw", Due(a, pending[a]))
  /\ UNCHANGED <<session, balance, received, clock>>

-----------------------------------------------------------------------------
(* How a paying call goes on.                                              *)

\* The call the EVM makes: it fails at once when the balance is short.
Send ==
  /\ stack # << >>
  /\ Top.stage = "send"
  /\ Head(Top.todo).amount <= balance
  /\ balance' = balance - Head(Top.todo).amount
  /\ received' = [received EXCEPT ![Head(Top.todo).to] = @ + Head(Top.todo).amount]
  /\ stack' = [stack EXCEPT ![Len(stack)] = [@ EXCEPT !.stage = "called", !.undo = Now]]
  /\ UNCHANGED <<session, pending, clock>>

\* The payout under way is over: the call turns to the next one or returns.
GoOn ==
  stack' = IF Len(Top.todo) > 1
           THEN Append(Rest, [Top EXCEPT !.todo = Tail(@), !.stage = "send"])
           ELSE Rest

Accept ==
  /\ stack # << >>
  /\ Top.stage = "called"
  /\ GoOn
  /\ UNCHANGED <<ledger, clock>>

\* The state a failed call leaves its caller in.
AsBeforeCall == IF Top.stage = "called" THEN Top.undo ELSE Now

\* A mutant: a refused payout undoes the settlement.
RefuseSettlement ==
  /\ stack # << >>
  /\ Top.op = "settle"
  /\ Restore(Top.before)
  /\ stack' = Rest
  /\ UNCHANGED clock

\* _pay: a payout that cannot be pushed is kept for its recipient to pull.
RefusePayout ==
  /\ stack # << >>
  /\ Top.op = "settle"
  /\ LET payout == Head(Top.todo)
     IN  Restore([AsBeforeCall EXCEPT !.pending[payout.to] = @ + payout.amount])
  /\ GoOn
  /\ UNCHANGED clock

\* withdraw reverts as a whole.
RefuseWithdrawal ==
  /\ stack # << >>
  /\ Top.op = "withdraw"
  /\ Restore(Top.before)
  /\ stack' = Rest
  /\ UNCHANGED clock

\* A transaction sees a single timestamp.
Tick ==
  /\ stack = << >>
  /\ clock < MaxClock
  /\ clock' = clock + 1
  /\ UNCHANGED <<ledger, stack>>

Next ==
  \/ \E caller \in Accounts, i \in Ids, provider \in Accounts \cup {ZeroAddress},
        price \in Prices, duration \in Durations, paid \in Payable :
       OpenSession(caller, i, provider, price, duration, paid)
  \/ \E i \in Ids, added \in Durations, paid \in Payable : TopUp(i, added, paid)
  \/ \E i \in Ids : Settle(i)
  \/ \E a \in Accounts : Withdraw(a)
  \/ Send
  \/ Accept
  \/ RefusePayout
  \/ RefuseWithdrawal
  \/ Tick

Spec == Init /\ [][Next]_vars

-----------------------------------------------------------------------------
(* Properties.                                                             *)

\* Types, and that no call ever hands over nothing: a party owed nothing is not
\* given control (lines 200-201).
TypeOK ==
  /\ Now \in World
  /\ stack \in Seq(Frame)
  /\ clock \in Nat

\* Every tinybar deposited buys time at the price the session opened with, which
\* is why no split can exceed the deposit (the comment at lines 196-197).
BuysItsTime(s) == s.deposited = s.pricePerSecond * s.duration

DepositBuysTime == \A i \in Ids : BuysItsTime(session[i])

\* What a frame has promised and not handed over yet.
StillOwed(frame) ==
  LET left == IF frame.stage = "send" THEN frame.todo ELSE Tail(frame.todo)
  IN  SumFunction([k \in DOMAIN left |-> left[k].amount])

\* What is held for the sessions that are still to be split.
OpenDeposits(s) == SumFunction([i \in Ids |-> IF s[i].settled THEN 0 ELSE s[i].deposited])

\* At every instant, in the middle of any chain of callbacks too, the contract
\* holds exactly what it owes: open deposits, deferred payouts, and what the
\* calls under way have yet to hand over.  Nobody can be paid from another
\* session's deposit.
Solvent ==
  balance = OpenDeposits(session) + SumFunction(pending)
              + SumFunction([k \in DOMAIN stack |-> StillOwed(stack[k])])

\* The state as of the last finished transaction.
Committed == IF stack = << >> THEN Now ELSE stack[1].before

\* A transaction that begins by settling never ends with nothing settled: some
\* session that was open before it is settled after it, whatever its recipients
\* refuse or call back (the comment at lines 254-265).  What the parties of that
\* session are paid is ImplementsVault's.
SettleAlwaysCommits ==
  [][(stack # << >> /\ stack' = << >> /\ stack[1].op = "settle")
       => \E i \in Ids : session'[i].settled /\ ~stack[1].before.session[i].settled]_vars

\* What quoteSettlement shows of a session that stays open never turns against
\* either party: the provider's share never falls, and the renter's refund falls
\* only as time passes.  Calling settle early therefore pays the provider less
\* (the comment at lines 16-20).
QuoteIsMonotone ==
  [][\A i \in Ids :
       LET old == Committed.session[i]
           new == Committed'.session[i]
       IN  (old # NoSession /\ ~old.settled /\ ~new.settled) =>
             /\ ProviderAmount(new, clock') >= ProviderAmount(old, clock)
             /\ clock' = clock => RefundAmount(new, clock') >= RefundAmount(old, clock)]_vars

\* The deal a session record stands for.
DealOf(s) ==
  [renter |-> s.renter, provider |-> s.provider, price |-> s.pricePerSecond,
   start |-> s.startTime, paid |-> s.deposited, closed |-> s.settled]

Vault == INSTANCE SessionVault WITH
  Nobody <- ZeroAddress,
  deal <- [i \in Ids |-> DealOf(Committed.session[i])],
  credited <- [a \in Accounts |-> Committed.received[a] + Committed.pending[a]]

\* Seen from outside, a transaction is atomic, each session is split once, by the
\* time it lasted, and every account is given its shares, delivered or kept for
\* it, however payouts fail and whoever calls back.
ImplementsVault == Vault!Spec
=============================================================================
