# MACH402 in TLA+

MACH402 is a marketplace for rented GPU time. A provider runs a **node agent** beside
docker; a renter pays it per chunk over HTTP 402 (x402 on Hedera), works in a container
behind a tunnel, is charged by the second, and gets the unburned credit back at the end.
This directory holds specifications of the parts whose correctness is hard to test, the
TLC configurations that check them on small instances, and TLAPS proofs of the results that
hold for every value of the constants.

## 1. The system

| Component | State it keeps | Operations | Talks to |
|---|---|---|---|
| Lease ledger, `agent/internal/runner/lease.go` | one `Lease`: status, credit, burned, price, last tick, expiry, pause instant, settlement | MarkMetered, AddCredit, Burn, Pause/Resume, MarkSettled, setStatus | called by handlers and the sweep, one mutex per lease |
| Lease lifecycle, `runner/lease.go`, `runner/runner.go` | map of leases, the single active slot, docker objects | StartLease, PauseLease, ResumeLease, StopLease, reap, startup orphan sweep | docker |
| Session handlers and sweep, `agent/internal/httpapi` | none of their own (goroutine locals between calls) | create, top-up, stop, state, EndLease, sweepLeases, settleSession | runner, tunnel, x402 facilitator, refund sidecar, audit topic |
| Tunnel, `agent/internal/tunnel` | one cloudflared process and its target | PointAt, Reachable, Clear | cloudflared |
| Refund sidecar, `agent/internal/hedera`, `hederakit` | none | Refund, key, topic, identity commands | Hedera |
| Escrow contract, `contracts/contracts/SessionEscrow.sol` | sessions, deferred payouts | openSession, topUp, settle, withdraw | recipients' code |
| Escrow verifier, `agent/internal/escrow`, `mirror` | none | await a deposit or a top-up, derive prices | mirror node |
| Identity registry, `contracts/contracts/IdentityRegistry.sol` | agents by id, ids by domain and by address | newAgent, updateAgent, lookups | the register command, anyone |
| Register command, `agent/cmd/cleargate-node/register.go`, `hederakit` | key file, agent id in `config.yaml` | register | mirror node, identity registry |
| Node registry, `registry/src` | one row per node id, with the token that claimed it | heartbeat, withdrawal, listing, provider view | Postgres, statement by statement |
| Announcer, `agent/internal/registry` | its loop | beat, parting withdrawal | node registry |
| MCP server, `packages/mcp-server` | receipts file, confirmation holds, key directories | quote, open, top up, confirm, stop, search | node agent, node registry |
| Rent page, `web/components/rent`, `web/lib`, `client/src/browser` | the session it shows, one entry per node in localStorage, the wallet | start, poll, top up, stop, dismiss, reload | node agent, the renter's wallet |
| Nodes and rent pages' readers, `web/app/nodes`, `web/app/rent/[id]`, `registry/src/providers.ts` | none | what one row is shown as | node registry |
| Audit trail, `agent/internal/hcs`; receipts, `agent/internal/receipts` | none; an append-only file | Publish; Append, All | Hedera; disk |
| Event broker, dashboard, other node commands, config, ssh CA, egress proxy, landing pages | see `PROJECT.json` | | |

**How they interact.** A request's goroutine, the dashboard's goroutine and the sweep's
goroutine share leases through methods that each take the lease's mutex, and share the slot
through the runner's. Between two such methods a handler makes calls that leave the process
and may take minutes: docker, cloudflared, the facilitator, the sidecar. Nothing is
persisted; a restart forgets every lease.

Around the node, four programs talk by requests that overlap and outlive their senders. A
node announces itself to the registry, which reads a row in one statement and writes it in
another; the website, the provider view and the MCP server each derive from that row what a
renter may do. The MCP server and the rent page pay a node that prices each exchange afresh:
the first is one event loop whose calls interleave at their awaits, the second a page whose
polls, top-ups and stops are answered in any order, and which a reload replaces. The register
command asks a contract a question and acts on the answer a transaction later.

**What is hard.** Everything a handler read before a call out of the process may be stale
after it. Status and container change in two steps (status under the lock, docker after
it). Ending a session has three possible starters and each of them settles it. The meter
truncates to seconds and clamps at zero while its clock moves by what really passed. Each
call out of the process can fail, or succeed and report a failure. A request given up on is
still on its way. A check made at one await is acted on after the next. Four readers derive
the same fact from one row by code of their own.

**What makes each part correct.**

- *Ledger*: what was paid in is earned, held or returned; the meter never runs ahead of the
  time used; a session is not frozen before its paid time is used.
- *Lifecycle*: one live lease, holding the slot; no live lease without a container; a lease
  that is over stays over, frees the slot and leaves nothing behind but what docker refused
  to remove.
- *Handlers and sweep*: money goes back only for a session that is over, once, and all of
  it; a dry session is frozen and a frozen one ends.
- *Escrow contract*: the contract holds exactly what it owes; each session pays out once; a
  recipient that refuses or calls back cannot change the other party's share.
- *Node registry and announcer*: a row belongs to the token that claimed it; a node that
  stays up is listed as itself, whatever was lost before; one that stays down leaves. *Its
  readers* agree on whom one can rent from.
- *MCP server*: no payment past the cap per payment, none past the threshold unasked, a
  confirmation buys one thing once, an ordinary payment stays within the day's cap, and a
  session that was bought can be reached.
- *Rent page*: the handle of a running session is never lost, a page has one top-up in flight
  at a time, and it ends up telling the truth.
- *Identity*: the three indices agree; a node mints once, keeps its identity, and records
  its own.
- *Audit trail*: what a reader can conclude from a lossy, unordered log.

## 2. Modules

| Module | Models | Notes |
|---|---|---|
| `LeaseLedger` | the methods of `runner.Lease`, one operator each | a lease is a record; no behaviour of its own |
| `SessionAccount` | what a session promises about money | abstract: pay in, earn, close |
| `Metering` | one session, each handler taken whole | implements `SessionAccount` |
| `NodeAgent` | requests, the provider's eviction and the sweep as goroutines, step by step, over leases, slot, containers and tunnel | uses the same `LeaseLedger` operators |
| `NodeMishaps` | `NodeAgent` with a history of the mishaps that befall each lease | states the node's promises for every lease that was spared them |
| `SessionVault` | what the escrow promises about money | abstract: transactions that open, extend and close sessions |
| `SessionEscrow` | the escrow contract, call by call, with its recipients' refusals and callbacks | implements `SessionVault` |
| `Listings` | what a heartbeat may say, and what each reader makes of a row: registry, provider view, nodes page, rent page, MCP search | operators only |
| `NodeRegistry` | the registry's two-statement handlers and the announcers that keep its rows alive | extends `Listings` |
| `SampleRegistry` | the website's fixture nodes | data for `MCNodeRegistry` |
| `McpServer` | the tool calls of one MCP server, its caps, holds, receipts and key directories | |
| `WalletPayment` | which option of a 402 is paid and when a wallet's signature is kept | operators only |
| `SessionFlow` | the rent page, its stored handle and its requests, against what the node's handlers tell a page | extends `WalletPayment` |
| `IdentityRegistry` | the identity contract, open to anyone, and the register command as its caller | proved, see section 4 |
| `MCMetering`, `MCNodeAgent`, `MCNodeMishaps`, `MCSessionEscrow`, `MCNodeRegistry`, `MCMcpServer`, `MCSessionFlow` | the instances TLC checks | with symmetry where nothing orders the values |
| `LedgerProofs` | what each ledger method preserves | used by `MeteringProofs` and `NodeAgentProofs` |
| `SumTheorems` | facts about sums over finite sets | used by `NodeAgentProofs`, `EscrowProofs`, `McpProofs` |
| `MeteringProofs`, `NodeAgentProofs`, `EscrowProofs`, `RegistryProofs`, `McpProofs`, `FlowProofs` | the theorems | `RegistryProofs` has those of `NodeRegistry` and of `IdentityRegistry` |

Operators whose comment begins "A mutant:" or "Mutant of" are deliberate mistakes, each the kind a
change to the code could introduce. No specification uses them; putting one in place of the
definition below it makes TLC refute the property it is listed with in `PROJECT.json`.

### LeaseLedger

A lease record has the fields the money and the schedule depend on. `metered` stands for a
non-nil `credit`; `SettleState` and `pausedAt` keep the code's values with a name for nil.
Instants are clock ticks, `Second` of them to a second, so `Charge` can truncate the way
`int64(elapsed.Seconds())` does; `RoundedMinutes` is `secondsToMinutes`, which gives a
lease its first expiry. `paidMinutes`, the access token, keys and addresses are left out:
no decision reads them. `MarkMetered` includes the `SetSessionLength` that its only caller
runs right after it; the sweep could see the gap only with a length of 0, for which
`FullyPaid` is false. Amounts are unbounded, as `big.Int` is.

### Metering

State: the lease, what the renter asked for, the clock, and two histories (`paidIn`, and
`ran`, the ticks spent metered and running). One action is one handler from its first read
to its last write. The exception is the opening payment: it starts the lease long before it
meters it, so the sweep may run in between (`Open`, bounded by `OpenDeadline`, the three
minutes of provisioning plus the sixty seconds of settlement the code allows).

### NodeAgent

State: `lease` (the runner's map), `slot` (`activeLease`), `box` (docker's view of each
lease's container), `tunnel` (the lease cloudflared serves), `clock`, `thread` (program
counter and locals of each goroutine), and the histories `paid` and `returned`. A step is
one critical section or one call out of the process, so other goroutines run between a
handler's reads and writes exactly where the code lets them. Guards that only read and are
followed by nothing but reads share a step.

- `create`: claim, provision, await Jupyter, point the tunnel, reach it, settle, meter.
  Failures before the claim lead nowhere; a provisioning failure tears down (`abort`); a
  publishing or settling failure stops the lease and clears the tunnel.
- `topup`: pay, bank, thaw, unpause. The amount is fixed before the payment.
- `stop` (renter or provider) and `sweep` endings: burn, end, reap, clear, debt, owed,
  refund, mark. The first goroutine to end the lease reaps it; later ones go on to clear the
  tunnel and settle, as `StopLease` returning early makes them.
- `sweep`: tick, judge, then end, pause and freeze, or nothing.

Faults: each call out of the process fails when `Faults` names it, at most `MaxFaults`
times. `settleLost` and `refundLost` take effect and report an error. A missing container
makes a call that needs it fail without a fault; so does a network that an eviction has
already removed, and a tunnel someone else has taken down. A container that docker does not
remove is logged and left, and the slot is freed over it (`ReapFails`); that is a fault
(`remove`), or comes by itself when a handler that opens a session tears it down, since it
removes with the deadline that publishing or settling may just have run into. Reaching the
lease (`Reachable`) succeeds on any HTTP answer, the tunnel service's own error page included.
A session found to owe nothing is marked settled in a step of its own, as one that was
refunded is. The docker objects of a lease are one `box`.

**Time.** A tick is seconds. Steps inside the process (`AtOnce`) take none, so the clock
does not move while one is due; calls out of the process take as long as they take, within
`MaxClock`. A handler's `time.Now()` and the lock it takes next are one step.

### NodeMishaps

`NodeAgent` and one history variable, `amiss`: the mishaps each lease has met, read off the
steps and never read by one, so that every behaviour of `NodeAgent` is one of `NodeMishaps`.
It is `NodeAgent` at any overlap and with every fault; each promise names the mishaps it does
not survive, and holds of a lease they have not befallen, whatever befell others.

| Mishap | When | What the code then does |
|---|---|---|
| `lost` | a settlement or a refund moved money and was reported as failed | books nothing, and keeps nothing to reconcile by |
| `refused` | a refund was reported as failed | leaves it pending for ever (`refund_retry`) |
| `unremoved` | docker did not remove the container | logs it and frees the slot (`ReapFails`) |
| `early` | the lease was ended while a handler was still opening it | may create the container after the teardown has been |
| `crowded` | the slot was claimed while an earlier lease was still put up or taken down | `Clear` takes the tunnel from whichever lease is served |
| `late` | a payment was banked after the lease had ended | keeps it (`evicted_owed`) |
| `crossed` | two settlements of it overlapped, or its credit changed under one | transfers it twice (`double_refund`), or zeroes what came in between |

### SessionEscrow

State: `session` and `pending` (the contract's two mappings, an unknown id being the zeroed
struct), `balance`, `stack` (the paying calls under way), `clock` (`block.timestamp`, which
does not move inside a transaction), and the history `received`. `OpenSession`, `TopUp`,
`Settle` and `Withdraw` have the contract's guards in its order and may be called by anyone,
at the top or from inside a payout; a call that reverts on a guard changes nothing and is no
step. `Settle` and `Withdraw` write first and put a frame on the stack with what they are
about to pay; `Send` hands the first payout over and its recipient is in control until it
accepts (`Accept`) or fails. A failure undoes what was done since `Send` and turns a
settlement's payout into a deferred one (`RefusePayout`), or reverts the whole withdrawal
(`RefuseWithdrawal`). A recipient that is no contract simply accepts; one that can never be
paid always fails. A payer pays with tinybars outside the contract, so payments stay within
`Supply`, which is far below 2^256: checked arithmetic never overflows on a payment that was
made. Gas is not modelled: running out of it reverts the transaction, which is the same as not
making it. A session topped up after its paid time ran out earns the provider the missed
seconds at once, because elapsed time is counted from the start; `QuoteIsMonotone` allows it.

`Committed` is the state as of the last finished transaction; the refinement and
`QuoteIsMonotone` are stated over it, since what a callback does may still be undone.

### Listings and SampleRegistry

The fields of a heartbeat that a decision reads, with `Absent` for a field left out, a JSON
null and an SQL NULL alike. `HeartbeatSchema` and `LeasesSchema` are the registry's boundary;
`StoredBeat` is what the upsert makes of an agent id of 0; `ToListing`, `ToProviderView`,
`NodeCard`, `RentPage`, `NodesPage` and `SearchComputeNodes` are the readers, each translated
from its own source. `SampleRegistry` is `scripts/sample-registry.mjs`: one node for every
state the pages render.

### NodeRegistry

State: `rows` (the nodes table), `calls` (requests between the client's send and the server's
answer), and per announcer its `phase` and the ticks `since` its last beat. A handler is
`SelectToken`, then `RecordHeartbeat`, `WithdrawNode` or a refusal; the two statements of
different requests interleave as on a connection pool. `BeatTimesOut`, `GoodbyeTimesOut` and
`Crash` leave the request in flight: a stray request may land after anything its node does
next. A row's age stands for `last_seen` and stops at the window. `db.ts` is the atomicity of
one statement.

### McpServer

State: each call's place and locals, `holds` (the in-memory map), `receipts` (the file),
`payments` (what really moved, a history), `keys` (directories on disk), `live` (sessions at
the node). A step is the code between two awaits. The node answers each exchange with any of
`Challenges`, so the price quoted, the price quoted again for a top-up and the price charged
differ at will. Faults, at most `MaxFaults`: a receipt that cannot be appended, an answer lost
after the money moved, a wait that ends before the node settles, a restart (which forgets the
holds). `Today` is the UTC day of the clock. An opening's receipt holds the amount the node
names in its answer, any of `Reports`, whatever was signed for; a top-up's holds the quote.
`get_session_access` only reads and is left out, as are the audit log and the encoding of
requests.

### WalletPayment and SessionFlow

State: `page` (what React holds; `None` while `SessionFlow` is not mounted), `notice` (the rent
page is open and shows a notice in its place), `stored` and `remembered` (localStorage),
`requests` in flight, and of the node only `slot` and `sessions`. `Merged`, `EndedRemotely` and
the state setters do to `page` and `stored` together what the component's effect does after
every render; the save may fail, which the code swallows. Four kinds of request: an open and a
top-up pass through pricing, the renter's signature and the node; a stop is answered after the
refund; a poll is answered, and its body read later.

A page is opened (`LoadPage`) or opens as a notice (`LoadNotice`), as the registry lists the node
at that moment. It is left in two ways. A reload or a closed tab (`LeavePage`) ends what had not
been sent. A link within the site (`NavigateAway`) unmounts the component and nothing else: a
top-up that waits for its price or the wallet goes on, and so does a poll whose body is
arriving, which may ask for a top-up by the guard of a page that is gone (`PollReadGone`).
A request that nobody waits for has `waits` false.

What is folded: a low balance is a status; a poll is sent and answered in one step; a top-up is
priced, paid and checked in `Signs` and banked in `NodeBanks`; connecting a wallet and
declining are one step; the picker's value is set when Start is pressed. Bounded: the actions
and polls in flight and the faults in a behaviour (`MaxActions`, `MaxPolls`, `MaxFaults`: a page
left, an answer lost, a save that failed), and how many requests that are alike in everything
are told apart (`MaxAlike`). One page: two tabs sharing one entry are not modelled, nor is a
removal from localStorage that fails.

### IdentityRegistry

State: the contract's three mappings and `minted` (who minted each id, a history); per node
its key file, whether its key has an account, and the agent id in its configuration; each run
of the register command; `sent`, transactions the network has not executed. A run asks
(`AskIdentity`), and acts on the answer with a transaction that executes or reverts at any
later time, whether or not the run still waits (`Executes`, `Reverts`, `CommandFails`). The
configuration may be lost, runs of one node may overlap, and outsiders call the contract with
any arguments (`OthersCall`). A call that reverts changes nothing and is no step of the
contract. `cfg.Hedera.Enabled`, which setup turns on with the key, is not a guard of
`Register`: the model allows more runs than the code.

## 3. Runs

Bounds are constants named in the module that uses them: `MaxClock`, `MaxFaults`, `Overlap`
(goroutines at work at once), `MaxTimeouts`, `MaxStray`, `MaxActions`, `MaxPolls`, `MaxAlike`,
and the sets of leases, requests, announcers, calls and session ids.

| Run | Instance | What it shows |
|---|---|---|
| `metering` | price 2, a tick of half a second, sessions of 2-6 s sold 3 s at a time, 20 ticks | with handlers taken whole the money adds up, the meter never runs ahead, the session is never oversold nor frozen before its paid time and the grace are used, and it implements `SessionAccount` |
| `agent_mishaps` | `Overlap = 2`, two leases one after the other, one request beside the provider and the sweep, any one fault of seven (provisioning, publishing, settling, refunding, removal, lost answers), 1 s, symmetric in leases | step by step: every tinybar once, recorded refunds, nobody owed, no container and no tunnel left, for every lease spared the mishaps each names |
| `agent_overlap` | `Overlap = 2`, two requests, two leases, one failed freeze or thaw, 3 s, symmetric in requests and leases | what holds however two goroutines interleave: one live lease, no live lease without a container, no refund before the end, exact books while a session lives, endings are final |
| `agent_liveness` | `Overlap = 3`, one request, one lease, one fault of seven, 3 s, fair | the slot comes back, a dry session is frozen or ends, a frozen one ends |
| `escrow` | two sessions, two parties that may be renter and provider of either or both, prices 0-2, 4 tinybars, 3 instants, payouts three deep, symmetric in sessions and parties | the contract holds exactly what it owes at every instant, a deposit buys its time, a settlement stands, a quote never turns against either party, and it implements `SessionVault` |
| `registry` | two nodes set up under one name, four descriptions from the fixture, a beat each tick, a window of three, one timeout, one stray request, fair | only the owner writes a claimed row, an owner that stays up is listed as itself in the end, a node that stays down leaves, and the four readers agree in every state |
| `mcp` | three calls, prices 1-3 quoted and charged at will, threshold 1, cap 2 per payment and per day, a hold of one tick, a day of two, one fault, symmetric in calls | no payment past its cap or, at the price quoted, past the threshold unasked; a confirmation buys one thing once in time; an ordinary payment stays within the day's cap; keys are kept and discarded |
| `rent_flow` | two sessions of two one-minute chunks, one action and one poll in flight beside the top-ups polls ask for, one fault, three requests alike told apart, fair | the browser keeps the handle of a running session and the flow shows it wherever it is mounted; a page has one top-up in flight; one that shows a session as running ends up right |
| `double_refund` | `Overlap = 2`, no faults | **violated**: see findings |
| `meter_frozen` | `Overlap = 2`, no faults | **violated** |
| `evicted_owed` | `Overlap = 2`, no faults | **violated** |
| `refund_retry` | `Overlap = 3`, one failed refund, fair | **violated** |

*Why the bounds are enough.* `metering`: twenty ticks cover an opening, a freeze, a thaw, an
exhausted session of the full length and both endings, with ticks that fall inside a second;
rounding a 3 s chunk to 2 s minutes makes the provisional expiry differ from the paid one.
`agent_mishaps`: two leases are needed for a lease to follow another through slot and tunnel,
and its second goroutine is the provider or the sweep; with both graces 0 one second is enough
for a session to run dry, be frozen and be ended by the sweep. `agent_overlap`: every
disagreement we found needs two goroutines; a third adds nothing the locks do not already order
in pairs. The proofs of both runs' properties cover any number of either. `agent_liveness`: three seconds let a one-second chunk run dry,
its grace pass, and its grace period end.
`escrow`: three payouts deep, a session is settled from inside another's settlement and a
deferred payout withdrawn from inside both; four tinybars let both sessions be open at once, be
topped up, and split unevenly.
`registry`: two nodes under one name are what ownership is about; one timeout and one stray
request make a beat land after its node's goodbye, its crash, or the other node's claim, and
two first beats race; a third node would meet the same row. Its fairness properties need the
window longer than a beat and no more. `mcp`: three calls are a hold, its confirmation and a
payment beside them; prices 1, 2 and 3 are under the threshold, over it, and over the cap; two
days let a check and its settlement fall on either side of midnight. `rent_flow`: a session
opened after another has ended, with an answer of the first still on its way, is what losing a
handle needs, and so does a poll whose answer comes late; one action beside the top-ups that polls
ask for is enough for two top-ups to overlap, three alike told apart for none of them to be
merged away, and one fault is a page left, a lost answer or a failed save at any point. The
proofs cover any number of each.

*Deadlock* is not checked: clocks stop at their bounds, a node without requests may stay idle,
a page may stay closed, and a model out of ids has nothing left to do.

**Fairness** (`FairSpec`). *NodeAgent.* Each goroutine that has started goes on (`WF` on a request's steps
and on each goroutine's ending steps): Go schedules runnable goroutines, and every call out of
the process has a timeout. The sweep starts again and again (`WF(SweepLeases)`): its ticker
fires every fifteen seconds while the node runs. Time passes (`SF(Tick)`): the sweep's steps
hold the clock up for an instant each, fifteen seconds apart, so strong fairness says no more
than that they do not hold it up for ever. Nothing is assumed of renters or the provider.

*NodeRegistry.* The ticker of a running announcer fires (`WF(TickerFires)`). A request that is
sent again and again is handled again and again (`SF(HandleOf)`, per announcer): weak fairness
would not do, since each request may be given up on before the server reaches it. Time passes
(`SF(Tick)`). Nothing is assumed of when a node starts, stops or crashes.

*SessionFlow.* The polling interval fires while a page polls, the node can be reached and answers
(`WF(PollSent)`), the browser hands over the answers of polls, and the node frees the slot of a
session that is over (`WF(NodeFrees)`, which `SlotFreed` shows of the node). Nothing is assumed
of the renter, the wallet, the meter, or the answers to anything but a poll.

### Findings

Each is a statement of the repository's own comments that the code does not keep; the run
shows the shortest interleaving.

1. *A failed refund is never retried* (`refund_retry`). `settleSession` leaves it pending for
   the sweep, but `StopLease` has released the slot the sweep would find the lease by.
2. *Two endings can refund the same credit* (`double_refund`). `settleSession` checks, reads and
   marks under three locks with the transfer between them.
3. *A frozen container can be charged* (`meter_frozen`). A thaw between the sweep's status
   change and its docker pause leaves the container frozen under an active lease.
4. *A payment in flight when the session ends is kept* (`evicted_owed`). `MarkMetered` and
   `AddCredit` do not look at the status, and settlement has already run.

### Where the properties stop

The properties of the node, of the registry, of the MCP server and of the rent page exclude, by
name, what the code leaves open. Each of these is a behaviour of the model and of the code.

*Node.* The mishaps of `NodeMishaps`, and:
- An eviction can leave a container behind. The provider ends a lease that is still provisioning
  (`server.go:162`): its teardown finds nothing to remove, and then the container is created.
- A slow teardown cuts off the next renter, who goes on being charged. `StopLease` frees the slot
  before the tunnel is cleared, and `Clear` (`tunnel.go:107`) takes down whichever lease is served
  by then. `TunnelServesTheHolder` is about a lease claimed when nobody was busy with another.
- A freeze or a thaw that docker refuses is logged and not tried again: a paused lease then runs
  for nothing, or an active one stays frozen and is charged. No property covers it.
- The sweep charges before it judges; a sweep that did not would be late by one pass, which
  breaks nothing stated here.

*Metering.* With `min_minutes: 1` the opening chunk and the freeze grace together are shorter
than provisioning and settlement may take, so the sweep can freeze a session on its provisional
expiry while its opening payment settles; the default of five minutes rules it out.

*Registry.*
- Two first beats for one id that both read the table before either wrote: the second is an
  upsert and repoints the row, against `registry/src/store.ts:55-58` (`RacingFor`). The token
  stays the first one's, so its next beat takes the row back: `OwnerStaysListed`.
- A beat that lands after its node's goodbye or crash lists it again until the window passes;
  a goodbye that lands after a restart hides a running node until its next beat.

*MCP server* (`Ordinary` names the ways around the day's cap).
- The comment at `packages/mcp-server/src/config.ts:19-20` holds of the price quoted: a node
  that charges more, within the cap per payment, is paid without being asked about.
- The day's cap is checked when a call is priced: not again when a held payment is confirmed,
  and not against calls still in flight. Two calls can both pass it.
- A receipt that cannot be appended, or a restart before it is, leaves a payment uncounted. A
  top-up's receipt names the second quote, not what was charged, and an opening's what the node
  says it charged (`tools/openSession.ts:81`): a node that says less is a way around the cap.
  Midnight forgives the rest.
- An opening that fails leaves its key directory behind; `KeysKept` is about quotes, and about
  sessions the agent was told of.
- The quote is read from the first entry of the challenge; the payer pays the first acceptable.
- "A failure here means nothing was charged" (`vendor/sessionClient.ts:50`) is untrue of an
  answer lost after settlement.

*Rent page.*
- A page reloaded while the registry lists the node as offline, or cannot be asked, shows a notice
  and does not read the stored session (`rent-flow.tsx:24`): until the row is back the renter can
  neither top up nor stop. `HandleKept` says that the handle stays stored, and is shown
  wherever `SessionFlow` is mounted.
- The answer to a top-up or a stop of an earlier session is laid over the one now shown
  (`session-flow.tsx:187,210`): `HandleKept` leaves the handle to that out.
- A page told that its session ended remotely can be told "active" by an answer still on its
  way, and then polls no more: it shows a running session for good. `EventuallyHonest` is
  about pages that were not told.
- The banner that nothing was charged (`session-flow.tsx:459-464`) appears on any error, lost
  answers included.
- After a reload whose wallet could not be restored there is no button to connect one, against
  `wallet-provider.tsx:110-114`; and the minutes picker is back at its preset, so the renter's
  own cap may refuse a top-up.
- A reload during a top-up forgets that one is in flight, a link followed during one leaves it
  going, and a lost answer lowers the guard; another can then overlap it at the node, and both
  are priced before either is banked (`sessions.go:274`). `OneTopUpAtATime` says that these
  are the only ways past a session's length.

*Identity.* An agent may be moved by its holder to any free address (`updateAgent`), a node's
too: that node then finds an id it did not mint, confirms it under its own domain and keeps it.
So `RegistersOnce` is about what a node mints, and "nobody can squat an identity for someone
else's machine" (`IdentityRegistry.sol:52-54`) is true of `newAgent` only.

## 4. Proofs

`LedgerProofs` states what each ledger method preserves: its type, the fields it leaves
alone, and for `Burn` that credit turns into earnings one for one and that a truncated charge
costs no more than the time it was cut from. It assumes `SecondAssumption`,
`MinuteAssumption` and `PriceAssumption` (a price of zero is allowed).

`SumTheorems`. The books of the escrow, of the node and of a day's payments are sums over
sessions, goroutines and calls, and the community modules define a sum by recursion over
subsets. The library's induction theorems take an operator, which no installed prover can
instantiate; `SubsetInduction` takes the set of good subsets in place of it, and follows from
the well-foundedness of the subset ordering. From it: a sum exists and is unique, changing one
value changes it by the difference (`SumUpdate`), and a sum over an interval telescopes.

`MeteringProofs`. Neither `Conservation` nor `MeterNeverAhead` is inductive. `MoneyInv` adds
that an unmetered lease holds no money, that a settled one is over and holds none, and that
what was earned was earned before the last tick (`SinceTick`, the time not charged yet, is
set aside). One lemma per handler shows it preserved; from it follow `MoneyInvHolds`,
`TypeCorrect`, `ConservationHolds`, `MeterNeverAheadHolds` and the refinement
`SessionImplementsAccount`: initial states map to initial states, and each step to a payment,
an earning, a closing or a stutter. `NeverOversoldHolds` is proved beside them: only an opening and
a top-up sell, and each sells no more than is left of the length, so the property is inductive
once the amounts have their types (`SecondsSold`). `NoFreezeBeforePaidTimeUsedHolds` is about
the one step that freezes, but what makes it true happened long before: `PaidTimeInv` says that
a live session's money is whole seconds (payments are, and a charge is whole seconds or all
that is left), that its expiry is what they buy, and that once they are gone the session has
run for all of them and for as long as it is overdue. It needs the expiry of an empty ledger to
stay where the tick that emptied it put it, which is what `exhausted` is for, and holds at a
price of zero too. Assumed of the configuration: `ConfigAssumption`, what `config.validate`
accepts.

`NodeAgentProofs`. `AgentInv` adds to the three safety properties where a goroutine can be:
it works on a lease that exists, and one that is reaping, clearing or settling works on a
lease that is over. `SafeStep` names what a step of one goroutine may do (leave other
goroutines alone, never revive a lease, take away only a finished lease's container or slot),
each handler's steps are shown safe, and safe steps keep the invariant. It holds for any set of
requests and leases, any faults and any overlap: `AgentInvHolds`, `NodeTypeCorrect`,
`OneLiveLeaseHolds`, `LiveLeaseHasContainerHolds`, `RefundOnlyAfterEndHolds`,
`TerminalIsFinalHolds`.

For any overlap also `LiveBooksExactHolds`: `BooksInv` adds that a lease is opened by one
goroutine only, on a blank ledger, and that a top-up under way is for a metered lease, so that no
payment is banked on nothing. Assumed: `GoroutineAssumption`, that requests are finitely many.

The five promises of `NodeMishaps` are proved of `HSpec`, for any number of requests, leases and
faults, any overlap and every fault: nothing is assumed of how handlers take turns, and what a
lease was spared is a hypothesis on that lease alone. The argument begins with a table of what
the step of one goroutine does: where it goes (`Course`), what it writes into a lease
(`Writes`), and what it does to containers (`Builds`), to the tunnel (`Tunnels`) and to money
(`Pays`); `StepKinds` shows every step of `NodeAgent` to be such a step, a start, a claim or a
rest, and the invariants are proved from the table. `Recorded` says what a step adds
to the history. `HistoryInv` is then

- `RoleInv`, true of every lease: one goroutine opens it, on a ledger that stays blank until it
  is metered;
- `EarlyInv`: a lease that is over while it is being opened was ended early;
- `TunnelInv`: only its own goroutines meddle with the tunnel of a lease that was not crowded;
- `OwesInv`: credit left on a settled session came too late;
- `MoneyInv`: whoever settles a session that was not crossed settles it alone and has read what
  is owed (`SettlesAlone`), and unless an answer was lost what was paid is booked or in
  somebody's hands, and what was transferred back is recorded or about to be (`Balanced`).

The last asks that several goroutines' hands be summed up (`HeldFor`), hence `SumTheorems`.
It yields `HistoryInvHolds`, `EveryTinybarOnceHolds`, `RefundedIsReturnedHolds`,
`EndedOwesNothingHolds`, `NothingLeftBehindHolds` and `TunnelServesTheHolderHolds`.

`EscrowProofs`. `DepositBuysTime` is not inductive because a revert restores an older state:
`EscrowInv` (`EscrowInvHolds`) says that every state a frame may restore is as sound as the current one. From it
follow `EscrowTypeCorrect` (amounts never go negative, and no call hands over nothing or more
than there is) and `DepositBuysTimeHolds`. `SettleAlwaysCommitsHolds` needs `CommitInv`: in a
transaction that a settlement began, some session was unsettled before it, is settled now, and
is settled in every state an inner frame, or a failing payout of the outermost one, may
restore. `QuoteIsMonotoneHolds` needs the same of what a transaction began with: `GrowInv` says
that the current state, and every state a revert may restore, has not fallen behind it (each
session is as it was, or new, or open on its old terms with no less time and money), so the step
that ends the transaction shows the outside a quote that has only grown.

`SolventHolds` and `EscrowImplementsVault` are two instances of one argument. A *book* puts a
number on every state of the contract, and a payout takes its *part* out of that number whether
it is handed over or kept. `Chain` says that, from the state a call began in to the one the next
call began in, the book moves by what that call's frame has still to hand over, and that the
state a failed payout restores is booked with that payout still to make. Opening, calling,
accepting, refusing and reverting keep a chain, whatever the book (`ChainPush`, `ChainTop`,
`ChainPop`). With the balance less open deposits and deferred payouts for a book, the chain adds
up to `Solvent`. With what one account has been given, less its shares of the sessions settled
in this transaction, it says at the end of the transaction that every account was given exactly
those shares, which is the vault's step. Any number of sessions and accounts, any depth of
callbacks. Assumed: `AddressAssumption`, `AmountAssumption`, and `FiniteAssumption`: session ids
are 32 bytes and addresses 20, so there are finitely many.

`RegistryProofs`, *listings.* That only the owner writes a row does not follow from the last step
alone: the write acts on what an earlier SELECT found. `RegistryInv` adds `ClaimsHold` to the
types: a request that read a token knows the one its row still has, because no row is deleted and
no token is changed. One lemma per write and one for the requests give `RegistryInvariant`,
`TypeCorrect` and `OwnershipHolds`, for any announcers, names, descriptions and strays.
`ReadersAgreeHolds` is about rows, not steps: `ReadersInv` says that what a row holds, and what a
request past its check is about to write, passed the schema, and `ListingAgrees` compares the
readers' answers on one such listing. Without the schema it is false: a chunk length of 0 is no
value the view's type allows. Assumed: how names are told apart (`AnnouncerAssumption`,
`RowAssumption`, `ModelAssumption`, `AbsentAssumption`), that descriptions are heartbeats, and
positive window and interval.

*Identities.* `IndicesAgree` is inductive by itself but says nothing of nodes.
`IdentityInv` adds that an id a node minted is still at that node's address (`MintedStay`), and
that a run about to confirm an id or to write it down knows an id of its own node
(`RunsKnowTheirOwn`), however stale its question is: nobody but the node moves a node's
identity, and a node only to its own address. `NewAgentStep` and `UpdateAgentStep` prove the
contract's part, for any caller; the rest is one lemma per step of the command. It yields
`LookupsAgree`, `MintsOnce`, `RecordedHolds`, `IdentityKept`, and `IdentityTypeCorrect`, for any
nodes, outsiders, domains and runs, and assumes nothing of the constants. `IdentityRegistry` has
no run: its properties are invariants of finite data that the proof settles for every instance.

`McpProofs`. `IInv` says what a call carries at each of its awaits: a call that is paying has
signed for an amount under the cap (`Signed`), an approval names what it was given for
(`CallsInv`), a payment is as its call signed for it (`PaymentsInv`), and a hold still in the
map has been taken by nobody (`HoldsInv`). A step of one call leaves the others as they were
(`GoOnStep`, `EndType`), so each action disturbs one call. It yields `Invariant`, `TypeCorrect`,
`ApprovalHolds` and `HoldsHold`. `KeysHold` adds which keys a call
has on disk at each of its awaits (`KeysInv`): what the agent was told of was written before.
`DailyCapKept` is a statement about the past of a payment: its approval added up the receipts of
a day, and other calls have written receipts and paid since. `CapInv` keeps what the approval saw
within the cap beside its own price, which no later step can undo because a receipt is written
once and never changed; an ordinary payment costs no more than it was approved for, and what it
came after is part of what its approval saw (`SumAtMost`). Assumed: `ConfigAssumption`, what
`loadConfig` accepts, that a challenge is a list of prices, and `CallsAssumption`, that calls
are finitely many.

`FlowProofs`. `OneTopUpAtATime` speaks of two places at once: the page's guard and the node's
books. `FlowInv` joins them: a page that waits for a top-up has its guard up (`PageOK`), a
session is sold within its length or is one of the doubled (`NodeOK`), a top-up that is paid for
an undoubled session still fits it (`Carries`), and such a session has one on its way at most,
waited for or not (`Alone`). One lemma per action; `FlowInvHolds`, `FlowTypeCorrect`
and `OneTopUpAtATimeHolds` follow for any ids, offer and bounds.
A page that has gone lets its top-ups go on, so a session is doubled as soon as one more is asked
for beside them.
`HandleKeptHolds` follows every session id that goes round between node, requests, page and
localStorage back to the one answer that first named it. `KeptInv`: until that answer is read
nobody has heard of the id, and no other answer names it (`UnheardOK`); an answer is about the
session that was asked about, and tells of an ending only after it (`AnswerOK`); so no late
answer can put the handle of a running session away, or one that is over in its place
(`BrowserOK`). Assumed: `OfferAssumption`, `NameAssumption`, `RecordAssumption` and
`BoundAssumption`, which say that `None` is a name of its own, no record among them, and that
the offer is one a node can make.

**Only model-checked.** Liveness and `ENABLED` are out of the prover's reach: that a
finished lease frees the slot, a dry session is frozen, a frozen one ends, an owner stays listed,
a stopped node leaves and a page ends up honest is checked by TLC only (`SlotFreed`,
`DrySessionFreezes`, `FrozenSessionEnds`, `OwnerStaysListed`, `StoppedNodeLeaves`,
`EventuallyHonest`). So is what a recursive definition computes for every input, but for the
sums above. Every safety invariant, action property and refinement that a run checks has a proof.

## 5. Not modelled

- *Audit trail and receipts log.* Fire-and-forget publishes and an append-only file: nothing
  in the code reads them back to decide anything. Of the hazards listed for them, a model could
  only restate that a lossy log loses.
- *Escrow verifier, `client/src/escrow.ts`, the sidecar's settle command.* They await or submit
  one transaction each; the contract they talk to is `SessionEscrow`.
- *Restarts of the node.* Nothing is persisted: a restart starts from `Init`, and the credit it
  forgets is in no state the code could consult. The start-up orphan sweep removes containers
  of a life the model no longer has.
- *Two browser tabs on one stored entry*; the top-up button of `min_minutes` changing while a
  page is open: the offer is constant.
- Read-only endpoints, the challenge round of the node's own handlers, events and logs; keys,
  certificates and encodings; layout, landing pages, deployment.

`PROJECT.json` lists every component with the reason.

## 6. Plan

1. Done: the ledger, one session, the interleaved node, the escrow contract; the registry with
   its announcers and readers, the MCP server, the rent page, identities; the proofs of their
   safety properties and of both refinements.
2. A repaired node (`settleSession` under one lock, the tunnel cleared before the slot is freed,
   payments refused on a lease that is over) as a variant of `NodeAgent`, and the promises of
   `NodeMishaps` proved of it without their exceptions.
3. `SessionFlow` composed with `NodeAgent` in place of its small node, for one session, to tie
   the page's honesty to the sweep's; two tabs on one entry.
4. `AuditTrail`: burn checkpoints over an unordered, lossy publisher, once something reads them.
