------------------------------ MODULE NodeRegistry ------------------------------
(***************************************************************************)
(* The registry (registry/src) and the announcers that keep its rows       *)
(* alive (agent/internal/registry).                                        *)
(*                                                                         *)
(* A request is two statements on a connection pool, a SELECT of the token *)
(* and then a write, and the statements of different requests interleave.  *)
(* An announcer gives up on a request after a while; the request does not  *)
(* give up with it and may reach the registry later, after whatever its    *)
(* node did next.                                                          *)
(***************************************************************************)
EXTENDS Listings

CONSTANTS
  Announcers,     \* the nodes; each has the listing token minted at its setup
  NodeIds,        \* names they announce themselves under
  IdOf,           \* the name each announces, not necessarily its own
  Descriptions,   \* per announcer, what its node may say of itself
  Nobody,         \* no row, so no token
  Interval,       \* ticks between beats
  MaxTimeouts,    \* bound: beats and goodbyes an announcer gives up on
  MaxStray        \* bound: abandoned requests in flight

ASSUME AnnouncerAssumption ==
  /\ IdOf \in [Announcers -> NodeIds]
  /\ Nobody \notin Announcers /\ "unread" \notin Announcers /\ Nobody # "unread"
ASSUME DescriptionAssumption == \A a \in Announcers : Descriptions[a] \subseteq NodeHeartbeat
ASSUME BoundAssumption == Interval \in Nat \ {0} /\ MaxTimeouts \in Nat /\ MaxStray \in Nat

VARIABLES
  rows,      \* the nodes table: per id, Nobody or its row
  calls,     \* requests in flight, from the client's send to the server's answer
  phase,     \* per announcer: where its Run loop is
  since,     \* per announcer that is up: ticks since it began its last beat
  timeouts   \* how many requests have been given up on

vars == <<rows, calls, phase, since, timeouts>>

\* A row: whose token claimed it, and who wrote what it says.
Row == [token : Announcers, by : Announcers, beat : NodeHeartbeat, withdrawn : BOOLEAN,
        age : 0..OnlineWindow]

\* claim is what the SELECT found: "unread" before it ran, then the token it
\* returned or Nobody.  held is true while the announcer waits for the answer.
Call ==
  [by : Announcers, route : {"heartbeat"}, beat : NodeHeartbeat,
   claim : {"unread", Nobody} \cup Announcers, held : BOOLEAN]
    \cup
  [by : Announcers, route : {"offline"}, beat : {Absent},
   claim : {"unread", Nobody} \cup Announcers, held : BOOLEAN]

\* A query that finds no row returns none.
ASSUME RowAssumption == Nobody \notin Row

TypeOK ==
  /\ rows \in [NodeIds -> Row \cup {Nobody}]
  /\ calls \subseteq Call
  /\ phase \in [Announcers -> {"down", "beating", "waiting", "leaving"}]
  /\ since \in [Announcers -> 0..Interval]
  /\ timeouts \in 0..MaxTimeouts

Init ==
  /\ rows = [i \in NodeIds |-> Nobody]
  /\ calls = {}
  /\ phase = [a \in Announcers |-> "down"]
  /\ since = [a \in Announcers |-> 0]
  /\ timeouts = 0

---------------------------------------------------------------------------
(* The announcer *)

Send(a, route, beat) ==
  [by |-> a, route |-> route, beat |-> beat, claim |-> "unread", held |-> TRUE]

Held(a) == {c \in calls : c.by = a /\ c.held}
Stray == {c \in calls : ~ c.held}

\* The announcer stops waiting: its request goes on without it, or never arrived.
Abandon(a) ==
  \/ /\ Cardinality(Stray) < MaxStray
     /\ calls' = (calls \ Held(a)) \cup {[c EXCEPT !.held = FALSE] : c \in Held(a)}
  \/ calls' = calls \ Held(a)

\* The process starts and beats at once, or the ticker fires.
Beat(a) ==
  /\ \/ phase[a] = "down"
     \/ phase[a] = "waiting" /\ since[a] = Interval
  /\ \E beat \in Descriptions[a] : calls' = calls \cup {Send(a, "heartbeat", beat)}
  /\ phase' = [phase EXCEPT ![a] = "beating"]
  /\ since' = [since EXCEPT ![a] = 0]
  /\ UNCHANGED <<rows, timeouts>>

\* The client's 15 seconds are up.
BeatTimesOut(a) ==
  /\ phase[a] = "beating"
  /\ timeouts < MaxTimeouts
  /\ timeouts' = timeouts + 1
  /\ Abandon(a)
  /\ phase' = [phase EXCEPT ![a] = "waiting"]
  /\ UNCHANGED <<rows, since>>

\* The context is cancelled: between beats, or under one, whose request is
\* dropped.  The goodbye goes out on a context of its own.
Stop(a) ==
  /\ phase[a] \in {"beating", "waiting"}
  /\ \/ Cardinality(Stray) < MaxStray
     \/ Held(a) = {}
  /\ calls' = {IF c \in Held(a) THEN [c EXCEPT !.held = FALSE] ELSE c : c \in calls}
                \cup {Send(a, "offline", Absent)}
  /\ phase' = [phase EXCEPT ![a] = "leaving"]
  /\ since' = [since EXCEPT ![a] = 0]
  /\ UNCHANGED <<rows, timeouts>>

\* The goodbye's five seconds are up and the process exits without an answer.
GoodbyeTimesOut(a) ==
  /\ phase[a] = "leaving"
  /\ timeouts < MaxTimeouts
  /\ timeouts' = timeouts + 1
  /\ Abandon(a)
  /\ phase' = [phase EXCEPT ![a] = "down"]
  /\ UNCHANGED <<rows, since>>

\* The node loses power.
Crash(a) ==
  /\ phase[a] # "down"
  /\ Abandon(a)
  /\ phase' = [phase EXCEPT ![a] = "down"]
  /\ since' = [since EXCEPT ![a] = 0]
  /\ UNCHANGED <<rows, timeouts>>

---------------------------------------------------------------------------
(* The registry.  An answer reaches the announcer only if it still waits. *)

Answered(c) ==
  /\ calls' = calls \ {c}
  /\ phase' = IF c.held
              THEN [phase EXCEPT ![c.by] = IF c.route = "offline" THEN "down" ELSE "waiting"]
              ELSE phase

\* 400: the body does not pass the schema, and nothing is read or written.
RefuseInvalid(c) ==
  /\ c.route = "heartbeat" /\ c.claim = "unread"
  /\ ~ HeartbeatSchema(c.beat)
  /\ Answered(c)
  /\ UNCHANGED <<rows, since, timeouts>>

\* SELECT token_sha256 FROM nodes WHERE node_id = $1
SelectToken(c) ==
  /\ c.claim = "unread"
  /\ c.route = "heartbeat" => HeartbeatSchema(c.beat)
  /\ LET row == rows[IdOf[c.by]] IN
       calls' = (calls \ {c})
                  \cup {[c EXCEPT !.claim = IF row = Nobody THEN Nobody ELSE row.token]}
  /\ UNCHANGED <<rows, phase, since, timeouts>>

\* 403: the SELECT found somebody else's token.  404: a goodbye found no row.
Refuse(c) ==
  /\ c.claim # "unread"
  /\ \/ c.claim \notin {Nobody, c.by}
     \/ c.route = "offline" /\ c.claim = Nobody
  /\ Answered(c)
  /\ UNCHANGED <<rows, since, timeouts>>

\* Mutants of Upsert: a row inserted without its token, a conflict that hands the
\* row over, a beat that leaves the withdrawn mark alone.
UpsertNoToken(row, c) ==
  [token |-> Nobody, by |-> c.by, beat |-> StoredBeat(c.beat), withdrawn |-> FALSE, age |-> 0]
UpsertTakesOver(row, c) ==
  [token |-> c.by, by |-> c.by, beat |-> StoredBeat(c.beat), withdrawn |-> FALSE, age |-> 0]
UpsertStaysWithdrawn(row, c) ==
  [token |-> IF row = Nobody THEN c.by ELSE row.token, by |-> c.by, beat |-> StoredBeat(c.beat),
   withdrawn |-> row # Nobody /\ row.withdrawn, age |-> 0]

\* What the INSERT would store, and what ON CONFLICT makes of a row that is
\* there: everything is replaced but the token and first_seen_at.
Upsert(row, c) ==
  [token |-> IF row = Nobody THEN c.by ELSE row.token,
   by |-> c.by, beat |-> StoredBeat(c.beat), withdrawn |-> FALSE, age |-> 0]

RecordHeartbeat(c) ==
  /\ c.route = "heartbeat" /\ c.claim \in {Nobody, c.by}
  /\ rows' = [rows EXCEPT ![IdOf[c.by]] = Upsert(@, c)]
  /\ Answered(c)
  /\ UNCHANGED <<since, timeouts>>

WithdrawNode(c) ==
  /\ c.route = "offline" /\ c.claim = c.by
  /\ rows' = [rows EXCEPT ![IdOf[c.by]].withdrawn = TRUE]
  /\ Answered(c)
  /\ UNCHANGED <<since, timeouts>>

---------------------------------------------------------------------------
\* Time does not pass an announcer's own deadlines: an answer it waits for comes
\* or is given up within the tick, and the next beat starts at Interval.
Tick ==
  /\ \A a \in Announcers :
       \/ phase[a] = "down"
       \/ phase[a] = "waiting" /\ since[a] < Interval
  /\ since' = [a \in Announcers |-> IF phase[a] = "waiting" THEN since[a] + 1 ELSE since[a]]
  /\ rows' = [i \in NodeIds |->
                IF rows[i] # Nobody /\ rows[i].age < OnlineWindow
                THEN [rows[i] EXCEPT !.age = @ + 1] ELSE rows[i]]
  /\ UNCHANGED <<calls, phase, timeouts>>

Handle(c) ==
  RefuseInvalid(c) \/ SelectToken(c) \/ Refuse(c) \/ RecordHeartbeat(c) \/ WithdrawNode(c)

Next ==
  \/ \E a \in Announcers :
       Beat(a) \/ BeatTimesOut(a) \/ Stop(a) \/ GoodbyeTimesOut(a) \/ Crash(a)
  \/ \E c \in calls : Handle(c)
  \/ Tick

Spec == Init /\ [][Next]_vars

\* The ticker fires on a node that is up, the registry keeps handling the
\* requests of each announcer, and time passes.
TickerFires(a) == phase[a] = "waiting" /\ Beat(a)
HandleOf(a) == \E c \in calls : c.by = a /\ Handle(c)

FairSpec ==
  /\ Spec
  /\ \A a \in Announcers : WF_vars(TickerFires(a)) /\ SF_vars(HandleOf(a))
  /\ SF_vars(Tick)

---------------------------------------------------------------------------
(* Reads: one SELECT each.  The website and the MCP server go through these. *)

ListNodes(onlyOnline) ==
  {n \in {ToListing(rows[i]) : i \in {j \in NodeIds : rows[j] # Nobody}} : onlyOnline => n.online}

GetNode(i) == IF rows[i] = Nobody THEN Absent ELSE ToListing(rows[i])

ListProviders(onlyOnline) == {ToProviderView(n) : n \in ListNodes(onlyOnline)}

GetProvider(i) == IF GetNode(i) = Absent THEN Absent ELSE ToProviderView(GetNode(i))

---------------------------------------------------------------------------
(* Properties *)

\* The readers of one row agree on whom a renter can rent from and on who is
\* identified: the nodes page links exactly the nodes whose rent page shows the
\* form, exactly those the MCP search returns, and exactly those the provider
\* view calls refundable and not offline; the page's tag and the view's status
\* name the same state; the view is one its type allows, and the page shows an
\* identity exactly when it carries an agent id; and a search for a GPU returns no
\* node whose rent page warns that a session cannot use the card.
ReadersAgree ==
  LET nodes == ListNodes(FALSE) IN
  /\ NodesPage(nodes).online = Cardinality(ListNodes(TRUE))
  /\ \A i \in NodeIds : GetNode(i) # Absent =>
       LET node == GetNode(i)
           card == NodeCard(node)
           page == RentPage(node)
           view == GetProvider(i)
           rentable == page.flow = "session form"
       IN /\ node \in nodes
          /\ view \in ListProviders(FALSE) /\ view \in ProviderView
          /\ card.price.rent_link <=> rentable
          /\ node \in SearchComputeNodes(nodes, FALSE, Absent) <=> rentable
          /\ (view.refundable /\ view.status # "offline") <=> rentable
          /\ card.status = "available" <=> view.status = "online"
          /\ card.status = "paused" <=> view.status = "paused"
          /\ card.identity = Absent <=> view.agent_id = Absent
          /\ "cuda" \in view.capabilities <=> card.gpu.card # "no card"
          /\ node \in SearchComputeNodes(nodes, TRUE, Absent) => ~ page.specs.no_cuda

\* A first heartbeat that read the table before the row was there.
RacingFor(i) ==
  \E c \in calls : IdOf[c.by] = i /\ c.route = "heartbeat" /\ c.claim = Nobody

\* One step keeps every row and its token, and whoever writes a row holds that
\* token or raced for it.
RowsKept ==
  \A i \in NodeIds : rows[i] # Nobody =>
    /\ rows'[i] # Nobody
    /\ rows'[i].token = rows[i].token
    /\ \/ RacingFor(i)
       \/ rows'[i].by = rows[i].token
       \/ /\ rows'[i].by = rows[i].by /\ rows'[i].beat = rows[i].beat
          /\ rows'[i].age >= rows[i].age

\* Whoever announces an id first owns it.  Once the row is there and no first
\* heartbeat that missed it is still under way, the row is never refreshed or
\* repointed by anybody but the holder of its token, and the token never changes
\* at all.
OnlyOwnerWrites == [][RowsKept]_vars

\* A row that somebody other than its owner wrote, or withdrew, heals: a node
\* that stays up and holds the token of its id is, in the end, listed online
\* under its own description for good, whatever was lost, abandoned or raced
\* before.
ShowsAsOnline(a) ==
  /\ rows[IdOf[a]] # Nobody
  /\ rows[IdOf[a]].by = a
  /\ IsOnline(rows[IdOf[a]])

OwnerStaysListed ==
  \A a \in Announcers :
    <>[](/\ phase[a] \in {"beating", "waiting"}
         /\ rows[IdOf[a]] # Nobody /\ rows[IdOf[a]].token = a
         /\ \A c \in calls : c.by = a /\ c.route = "heartbeat" => HeartbeatSchema(c.beat))
      => <>[]ShowsAsOnline(a)

\* A node that stays down drops out of the listing, whether it said goodbye,
\* lost power, or had a beat land after its goodbye.
StoppedNodeLeaves ==
  \A a \in Announcers : <>[](phase[a] = "down") => <>[] ~ ShowsAsOnline(a)

=============================================================================
