----------------------------- MODULE RegistryProofs -----------------------------
(***************************************************************************)
(* The two registries a node is found through, the listing service and the *)
(* identity contract; neither knows of the other.                          *)
(*                                                                         *)
(* Listings: for any number of announcers, ids and requests in flight, a   *)
(* row is repointed only by its owner or by a first heartbeat that read    *)
(* the table before the row was there, and every reader of a row says the  *)
(* same of it.                                                             *)
(*                                                                         *)
(* Identities: for any nodes, outsiders, domains and runs of the register  *)
(* command, the contract's three indices agree, a node mints one id and    *)
(* keeps it, and what its configuration records is its own.                *)
(***************************************************************************)
EXTENDS NodeRegistry, IdentityRegistry, TLAPS

---------------------------------------------------------------------------
(* Listings *)

\* What an announcer sends is a request.
LEMMA SendType ==
  ASSUME NEW a \in Announcers
  PROVE  /\ Send(a, "offline", Absent) \in Call
         /\ \A beat \in Descriptions[a] : Send(a, "heartbeat", beat) \in Call
BY DescriptionAssumption DEF Send, Call

\* Storing a heartbeat keeps it a heartbeat.
LEMMA StoredBeatType ==
  ASSUME NEW beat \in NodeHeartbeat
  PROVE  StoredBeat(beat) \in NodeHeartbeat
<1> DEFINE id == [beat.identity EXCEPT !.agent_id = IF @ = 0 THEN Absent ELSE @]
<1>1. beat.identity \in ProviderIdentity
  BY DEF NodeHeartbeat
<1>2. id \in ProviderIdentity
  BY <1>1 DEF ProviderIdentity, Maybe
<1>3. StoredBeat(beat) = [beat EXCEPT !.identity = id]
  BY DEF StoredBeat, NodeHeartbeat
<1> HIDE DEF id
<1> QED
  BY <1>2, <1>3 DEF NodeHeartbeat

\* Abandoned requests are requests, of the same sender and the same claim.
LEMMA AbandonType ==
  ASSUME calls \subseteq Call, NEW a \in Announcers, Abandon(a)
  PROVE  /\ calls' \subseteq Call
         /\ \A d \in calls' : \E c \in calls :
              d.by = c.by /\ d.route = c.route /\ d.claim = c.claim
<1>1. Held(a) \subseteq calls
  BY DEF Held
<1>2. ASSUME NEW c \in calls
      PROVE  /\ [c EXCEPT !.held = FALSE] \in Call
             /\ [c EXCEPT !.held = FALSE].by = c.by
             /\ [c EXCEPT !.held = FALSE].route = c.route
             /\ [c EXCEPT !.held = FALSE].claim = c.claim
  BY DEF Call
<1> QED
  BY <1>1, <1>2 DEF Abandon

\* An answer removes one request and returns its announcer, if it still waits, to
\* its loop.
LEMMA AnsweredType ==
  ASSUME TypeOK, NEW c \in calls, Answered(c)
  PROVE  /\ calls' \subseteq calls
         /\ phase' \in [Announcers -> {"down", "beating", "waiting", "leaving"}]
BY DEF TypeOK, Answered, Call

\* What a heartbeat makes of its row is a row.
LEMMA UpsertType ==
  ASSUME NEW row \in Row \cup {Nobody}, NEW c \in Call, c.route = "heartbeat"
  PROVE  /\ Upsert(row, c) \in Row
         /\ Upsert(row, c).by = c.by
         /\ Upsert(row, c).token = IF row = Nobody THEN c.by ELSE row.token
<1>1. c.beat \in NodeHeartbeat /\ c.by \in Announcers
  BY DEF Call
<1>2. StoredBeat(c.beat) \in NodeHeartbeat
  BY <1>1, StoredBeatType
<1>3. 0 \in 0..OnlineWindow
  BY WindowAssumption
<1>4. row # Nobody => row.token \in Announcers
  BY DEF Row
<1> QED
  BY <1>1, <1>2, <1>3, <1>4 DEF Upsert, Row

\* A request that has read the table knows the token its row still has.
ClaimsHold ==
  \A c \in calls : c.claim \notin {"unread", Nobody} =>
    rows[IdOf[c.by]] # Nobody /\ rows[IdOf[c.by]].token = c.claim

\* The inductive invariant of the listing service.
RegistryInv == TypeOK /\ ClaimsHold

-----------------------------------------------------------------------------
(* The writes.                                                             *)

\* A heartbeat that lands: its writer holds the token, claims the id, or raced.
LEMMA RecordStep ==
  ASSUME RegistryInv, NEW c \in calls, RecordHeartbeat(c)
  PROVE  rows' \in [NodeIds -> Row \cup {Nobody}] /\ RowsKept
<1> DEFINE k == IdOf[c.by]
           new == Upsert(rows[k], c)
<1>1. c \in Call /\ c.by \in Announcers /\ k \in NodeIds /\ c.route = "heartbeat"
  BY AnnouncerAssumption DEF RegistryInv, TypeOK, Call, RecordHeartbeat
<1>2. rows[k] \in Row \cup {Nobody}
  BY <1>1 DEF RegistryInv, TypeOK
<1>3. new \in Row /\ new.by = c.by /\ new.token = IF rows[k] = Nobody THEN c.by ELSE rows[k].token
  BY <1>1, <1>2, UpsertType
<1>4. rows' = [rows EXCEPT ![k] = new]
  BY DEF RecordHeartbeat
<1> HIDE DEF new
<1>5. rows \in [NodeIds -> Row \cup {Nobody}]
  BY DEF RegistryInv, TypeOK
<1>6. rows' \in [NodeIds -> Row \cup {Nobody}]
  BY <1>3, <1>4, <1>5
<1>7. ASSUME NEW i \in NodeIds, rows[i] # Nobody
      PROVE  /\ rows'[i] # Nobody
             /\ rows'[i].token = rows[i].token
             /\ \/ RacingFor(i)
                \/ rows'[i].by = rows[i].token
                \/ rows'[i].by = rows[i].by /\ rows'[i].beat = rows[i].beat /\ rows'[i].age >= rows[i].age
  <2>1. CASE i # k
    <3>1. rows'[i] = rows[i]
      BY <1>4, <1>5, <2>1
    <3>2. rows[i].age \in Nat
      BY <1>5, <1>7, WindowAssumption DEF Row
    <3> QED BY <3>1, <3>2, <1>7
  <2>2. CASE i = k
    <3>1. rows'[i] = new
      BY <1>1, <1>4, <1>5, <2>2
    <3>2. rows'[i].token = rows[i].token /\ rows'[i].by = c.by
      BY <1>3, <1>7, <2>2, <3>1
    <3>3. CASE c.claim = Nobody
      BY <1>1, <1>3, <2>2, <3>1, <3>2, <3>3, RowAssumption DEF RacingFor
    <3>4. CASE c.claim = c.by
      <4>1. rows[k].token = c.claim
        BY <1>1, <3>4, AnnouncerAssumption DEF RegistryInv, ClaimsHold
      <4> QED BY <1>3, <2>2, <3>1, <3>2, <3>4, <4>1, RowAssumption
    <3> QED BY <3>3, <3>4 DEF RecordHeartbeat
  <2> QED BY <2>1, <2>2
<1> QED
  BY <1>6, <1>7 DEF RowsKept

\* A goodbye that lands marks its row and leaves the rest of it alone.
LEMMA WithdrawStep ==
  ASSUME RegistryInv, NEW c \in calls, WithdrawNode(c)
  PROVE  rows' \in [NodeIds -> Row \cup {Nobody}] /\ RowsKept
<1> DEFINE k == IdOf[c.by]
<1>1. c.by \in Announcers /\ k \in NodeIds
  BY AnnouncerAssumption DEF RegistryInv, TypeOK, Call
<1>2. rows[k] # Nobody
  BY <1>1, AnnouncerAssumption DEF WithdrawNode, RegistryInv, ClaimsHold
<1>3. rows \in [NodeIds -> Row \cup {Nobody}] /\ rows[k] \in Row
  BY <1>1, <1>2 DEF RegistryInv, TypeOK
<1>4. rows' = [rows EXCEPT ![k] = [rows[k] EXCEPT !.withdrawn = TRUE]]
  BY DEF WithdrawNode
<1>5. /\ [rows[k] EXCEPT !.withdrawn = TRUE] \in Row
      /\ [rows[k] EXCEPT !.withdrawn = TRUE].token = rows[k].token
      /\ [rows[k] EXCEPT !.withdrawn = TRUE].by = rows[k].by
      /\ [rows[k] EXCEPT !.withdrawn = TRUE].beat = rows[k].beat
      /\ [rows[k] EXCEPT !.withdrawn = TRUE].age = rows[k].age
  BY <1>3 DEF Row
<1>6. \A i \in NodeIds : rows[i] # Nobody => rows[i].age \in Nat
  BY <1>3, WindowAssumption DEF Row
<1> DEFINE marked == [rows[k] EXCEPT !.withdrawn = TRUE]
<1> HIDE DEF marked
<1>7. rows' \in [NodeIds -> Row \cup {Nobody}]
  BY <1>3, <1>4, <1>5 DEF marked
<1>8. ASSUME NEW i \in NodeIds, rows[i] # Nobody
      PROVE  rows'[i] # Nobody /\ rows'[i].token = rows[i].token /\ rows'[i].by = rows[i].by
             /\ rows'[i].beat = rows[i].beat /\ rows'[i].age >= rows[i].age
  <2>1. CASE i = k
    <3>1. rows'[i] = marked
      BY <1>1, <1>3, <1>4, <2>1 DEF marked
    <3>2. marked # Nobody
      BY <1>5, RowAssumption DEF marked
    <3> QED BY <1>5, <1>6, <1>8, <2>1, <3>1, <3>2 DEF marked
  <2>2. CASE i # k
    <3>1. rows'[i] = rows[i]
      BY <1>3, <1>4, <2>2
    <3> QED BY <1>6, <1>8, <3>1
  <2> QED BY <2>1, <2>2
<1> QED
  BY <1>7, <1>8 DEF RowsKept

\* A tick ages rows.
LEMMA TickStep ==
  ASSUME RegistryInv, Tick
  PROVE  rows' \in [NodeIds -> Row \cup {Nobody}] /\ RowsKept
<1> DEFINE older(i) == IF rows[i] # Nobody /\ rows[i].age < OnlineWindow
                       THEN [rows[i] EXCEPT !.age = @ + 1] ELSE rows[i]
<1>1. rows \in [NodeIds -> Row \cup {Nobody}]
  BY DEF RegistryInv, TypeOK
<1>2. rows' = [i \in NodeIds |-> older(i)]
  BY DEF Tick
<1>3. ASSUME NEW i \in NodeIds
      PROVE  /\ older(i) \in Row \cup {Nobody}
             /\ rows[i] # Nobody =>
                  /\ older(i) \in Row
                  /\ older(i).token = rows[i].token /\ older(i).by = rows[i].by
                  /\ older(i).beat = rows[i].beat /\ older(i).age >= rows[i].age
  <2>1. CASE rows[i] = Nobody
    BY <2>1
  <2>2. CASE rows[i] # Nobody
    <3>1. rows[i] \in Row /\ rows[i].age \in 0..OnlineWindow
      BY <1>1, <2>2 DEF Row
    <3>2. rows[i].age < OnlineWindow => rows[i].age + 1 \in 0..OnlineWindow
      BY <3>1, WindowAssumption
    <3> QED BY <2>2, <3>1, <3>2, WindowAssumption DEF Row
  <2> QED BY <2>1, <2>2
<1> HIDE DEF older
<1> QED
  BY <1>2, <1>3, RowAssumption DEF RowsKept

\* Steps that leave the table alone keep the rows.
LEMMA NoWrite ==
  ASSUME RegistryInv, UNCHANGED rows
  PROVE  rows' \in [NodeIds -> Row \cup {Nobody}] /\ RowsKept
<1>1. rows \in [NodeIds -> Row \cup {Nobody}]
  BY DEF RegistryInv, TypeOK
<1>2. \A i \in NodeIds : rows[i] # Nobody => rows[i].age \in Nat
  BY <1>1, WindowAssumption DEF Row
<1> QED
  BY <1>1, <1>2 DEF RowsKept

\* Every step keeps the rows.
LEMMA RowsStep ==
  ASSUME RegistryInv, [Next]_vars
  PROVE  rows' \in [NodeIds -> Row \cup {Nobody}] /\ RowsKept
<1>1. CASE UNCHANGED rows
  BY <1>1, NoWrite
<1>2. ASSUME NEW c \in calls, RecordHeartbeat(c) PROVE rows' \in [NodeIds -> Row \cup {Nobody}] /\ RowsKept
  BY <1>2, RecordStep
<1>3. ASSUME NEW c \in calls, WithdrawNode(c) PROVE rows' \in [NodeIds -> Row \cup {Nobody}] /\ RowsKept
  BY <1>3, WithdrawStep
<1>4. CASE Tick
  BY <1>4, TickStep
<1> QED
  BY <1>1, <1>2, <1>3, <1>4
     DEF Next, vars, Handle, Beat, BeatTimesOut, Stop, GoodbyeTimesOut, Crash,
         RefuseInvalid, SelectToken, Refuse

-----------------------------------------------------------------------------
(* The requests.                                                           *)

\* Every step keeps the other variables typed.
LEMMA CallsStep ==
  ASSUME RegistryInv, [Next]_vars
  PROVE  /\ calls' \subseteq Call
         /\ phase' \in [Announcers -> {"down", "beating", "waiting", "leaving"}]
         /\ since' \in [Announcers -> 0..Interval]
         /\ timeouts' \in 0..MaxTimeouts
<1> DEFINE Goal == /\ calls' \subseteq Call
                   /\ phase' \in [Announcers -> {"down", "beating", "waiting", "leaving"}]
                   /\ since' \in [Announcers -> 0..Interval]
                   /\ timeouts' \in 0..MaxTimeouts
<1> USE BoundAssumption DEF RegistryInv, TypeOK
<1>1. ASSUME NEW a \in Announcers, Beat(a) PROVE Goal
  BY <1>1, SendType DEF Beat
<1>2. ASSUME NEW a \in Announcers, BeatTimesOut(a) PROVE Goal
  BY <1>2, AbandonType DEF BeatTimesOut
<1>3. ASSUME NEW a \in Announcers, Stop(a) PROVE Goal
  <2>1. \A c \in calls : [c EXCEPT !.held = FALSE] \in Call
    BY DEF Call
  <2> QED BY <1>3, <2>1, SendType DEF Stop
<1>4. ASSUME NEW a \in Announcers, GoodbyeTimesOut(a) PROVE Goal
  BY <1>4, AbandonType DEF GoodbyeTimesOut
<1>5. ASSUME NEW a \in Announcers, Crash(a) PROVE Goal
  BY <1>5, AbandonType DEF Crash
<1>6. ASSUME NEW c \in calls, SelectToken(c) PROVE Goal
  <2> DEFINE row == rows[IdOf[c.by]]
             read == [c EXCEPT !.claim = IF row = Nobody THEN Nobody ELSE row.token]
  <2>1. c \in Call /\ row \in Row \cup {Nobody}
    BY AnnouncerAssumption DEF Call
  <2>2. (IF row = Nobody THEN Nobody ELSE row.token) \in {"unread", Nobody} \cup Announcers
    BY <2>1 DEF Row
  <2>3. read \in Call
    BY <2>1, <2>2 DEF Call
  <2>4. calls' = (calls \ {c}) \cup {read} /\ UNCHANGED <<phase, since, timeouts>>
    BY <1>6 DEF SelectToken
  <2> QED BY <2>3, <2>4
<1>7. ASSUME NEW c \in calls, Answered(c), UNCHANGED <<since, timeouts>> PROVE Goal
  BY <1>7, AnsweredType
<1>8. CASE Tick
  BY <1>8 DEF Tick
<1>9. CASE UNCHANGED vars
  BY <1>9 DEF vars
<1> QED
  BY <1>1, <1>2, <1>3, <1>4, <1>5, <1>6, <1>7, <1>8, <1>9
     DEF Next, Handle, RefuseInvalid, Refuse, RecordHeartbeat, WithdrawNode

\* What requests learned stays true: a row keeps its token.
LEMMA ClaimsStep ==
  ASSUME RegistryInv, [Next]_vars, RowsKept
  PROVE  ClaimsHold'
<1> DEFINE Known(c) == c.claim \notin {"unread", Nobody} =>
                         rows[IdOf[c.by]] # Nobody /\ rows[IdOf[c.by]].token = c.claim
           Goal == \A d \in calls' : d.claim \notin {"unread", Nobody} =>
                     rows'[IdOf[d.by]] # Nobody /\ rows'[IdOf[d.by]].token = d.claim
<1>1. \A c \in calls : Known(c) /\ c.by \in Announcers /\ IdOf[c.by] \in NodeIds
  BY AnnouncerAssumption DEF RegistryInv, ClaimsHold, TypeOK, Call
<1>2. ASSUME NEW d, d.claim = "unread" \/ \E c \in calls : d.by = c.by /\ d.claim = c.claim
      PROVE  d.claim \notin {"unread", Nobody} =>
               rows'[IdOf[d.by]] # Nobody /\ rows'[IdOf[d.by]].token = d.claim
  BY <1>1, <1>2 DEF RowsKept
<1>3. ASSUME NEW a \in Announcers, Abandon(a) PROVE Goal
  BY <1>2, <1>3, AbandonType DEF RegistryInv, TypeOK
<1>4. ASSUME NEW a \in Announcers, Beat(a) PROVE Goal
  BY <1>2, <1>4 DEF Beat, Send
<1>5. ASSUME NEW a \in Announcers, Stop(a) PROVE Goal
  <2>1. \A c \in calls : [c EXCEPT !.held = FALSE].by = c.by /\ [c EXCEPT !.held = FALSE].claim = c.claim
    BY DEF RegistryInv, TypeOK, Call
  <2>2. Send(a, "offline", Absent).claim = "unread"
    BY DEF Send
  <2>3. \A d \in calls' : \/ d = Send(a, "offline", Absent)
                        \/ d \in calls
                        \/ \E c \in calls : d = [c EXCEPT !.held = FALSE]
    BY <1>5 DEF Stop, Held
  <2>4. \A d \in calls' : d.claim = "unread" \/ \E c \in calls : d.by = c.by /\ d.claim = c.claim
    BY <2>1, <2>2, <2>3
  <2> QED BY <1>2, <2>4
<1>6. ASSUME NEW c \in calls, SelectToken(c) PROVE Goal
  <2> DEFINE row == rows[IdOf[c.by]]
             read == [c EXCEPT !.claim = IF row = Nobody THEN Nobody ELSE row.token]
  <2>1. c \in Call
    BY DEF RegistryInv, TypeOK
  <2>2. read.by = c.by /\ read.claim = IF row = Nobody THEN Nobody ELSE row.token
    BY <2>1 DEF Call
  <2>3. calls' = (calls \ {c}) \cup {read} /\ UNCHANGED rows
    BY <1>6 DEF SelectToken
  <2> HIDE DEF read
  <2>4. read.claim \notin {"unread", Nobody} =>
          rows'[IdOf[read.by]] # Nobody /\ rows'[IdOf[read.by]].token = read.claim
    BY <2>2, <2>3
  <2> QED BY <1>2, <2>3, <2>4
<1>7. ASSUME NEW c \in calls, Answered(c) PROVE Goal
  BY <1>2, <1>7 DEF Answered
<1>8. ASSUME calls' = calls PROVE Goal
  <2>1. \A d \in calls' : d.claim \notin {"unread", Nobody} =>
          \E c \in calls : d.by = c.by /\ d.claim = c.claim
    BY <1>8
  <2> QED BY <1>2, <2>1
<1>9. Goal
  BY <1>3, <1>4, <1>5, <1>6, <1>7, <1>8
     DEF Next, vars, Handle, BeatTimesOut, GoodbyeTimesOut, Crash, RefuseInvalid, Refuse,
         RecordHeartbeat, WithdrawNode, Tick
<1> QED
  BY <1>9 DEF ClaimsHold

-----------------------------------------------------------------------------
(* The theorems.                                                           *)

\* The invariant holds of every reachable state: rows, requests, phases and
\* timers keep their types, and no request is wrong about the token it read.
THEOREM RegistryInvariant == Spec => []RegistryInv
<1>1. Init => RegistryInv
  BY BoundAssumption DEF Init, RegistryInv, TypeOK, ClaimsHold
<1>2. RegistryInv /\ [Next]_vars => RegistryInv'
  <2> SUFFICES ASSUME RegistryInv, [Next]_vars PROVE RegistryInv'
    OBVIOUS
  <2>1. TypeOK'
    BY RowsStep, CallsStep DEF TypeOK
  <2>2. ClaimsHold'
    BY RowsStep, ClaimsStep
  <2> QED BY <2>1, <2>2 DEF RegistryInv
<1> QED
  BY <1>1, <1>2, PTL DEF Spec

\* Type correctness of the registry.
THEOREM TypeCorrect == Spec => []TypeOK
<1>1. RegistryInv => TypeOK
  BY DEF RegistryInv
<1> QED
  BY <1>1, RegistryInvariant, PTL

\* Whoever announces an id first owns it: only a first heartbeat that read the
\* table before the row was there can ever put somebody else's description in it.
THEOREM OwnershipHolds == Spec => OnlyOwnerWrites
<1>1. RegistryInv /\ [Next]_vars => [RowsKept]_vars
  BY RowsStep
<1>2. Spec => [][RowsKept]_vars
  BY <1>1, RegistryInvariant, PTL DEF Spec
<1> QED
  BY <1>2 DEF OnlyOwnerWrites

(* What readers make of a row.                                             *)

\* A description the registry stores has passed its schema, the sentinel 0 gone.
Stored(beat) == HeartbeatSchema(beat) /\ beat.identity.agent_id \in Maybe(Nat \ {0})

\* A chunk length the schema let through is a positive number of seconds.
LEMMA ChunkPositive ==
  ASSUME NEW seconds, ChunkSchema(seconds)
  PROVE  seconds \in Maybe(Nat \ {0})
<1>1. CASE seconds = Absent
  BY <1>1 DEF Maybe
<1>2. CASE seconds # Absent
  <2>1. seconds \in ChunkLengths
    BY <1>2 DEF ChunkSchema
  <2>2. seconds \in Nat \ {0}
    BY ONLY <2>1, SMT DEF ChunkLengths
  <2> QED
    BY <2>2 DEF Maybe
<1> QED
  BY <1>1, <1>2

\* The view an agent reads of such a description is one its type allows.
LEMMA ViewType ==
  ASSUME NEW node \in NodeListing, Stored(node.beat)
  PROVE  ToProviderView(node) \in ProviderView
<1>1. ASSUME node.beat.leases # Absent
      PROVE  /\ node.beat.leases.chunk_seconds \in Maybe(Nat \ {0})
             /\ node.beat.leases.price_tinybars_per_second \in Maybe(Nat)
  <2>1. node.beat.leases \in LeaseOffer
    BY <1>1 DEF NodeListing, NodeHeartbeat, Maybe
  <2>2. ChunkSchema(node.beat.leases.chunk_seconds)
    BY <1>1, SMT DEF Stored, HeartbeatSchema
  <2>3. node.beat.leases.chunk_seconds \in Maybe(Nat \ {0})
    BY <2>2, ChunkPositive
  <2> QED
    BY <2>1, <2>3 DEF LeaseOffer
<1>2. node.beat.identity.agent_id \in Maybe(Nat \ {0})
  BY DEF Stored
<1>3. GpuVendor(node.beat.gpu.model) \in Maybe({"NVIDIA"})
  BY DEF GpuVendor, Maybe
<1>4. CapabilitiesOf(node.beat) \subseteq
        {"docker", "x402", "cuda", "ssh", "jupyter", "refundable", "hcs-audit"}
  BY DEF CapabilitiesOf
<1>5. StatusOf(node) \in {"online", "paused", "offline"}
  BY DEF StatusOf
<1>6. Metered(node.beat) \in BOOLEAN /\ (Metered(node.beat) => node.beat.leases # Absent)
  BY DEF Metered
<1>7. (IF node.beat.leases = Absent THEN Absent ELSE node.beat.leases.price_tinybars_per_second) \in Maybe(Nat)
  BY <1>1 DEF Maybe
<1>8. (IF Metered(node.beat) THEN node.beat.leases.chunk_seconds ELSE Absent) \in Maybe(Nat \ {0})
  BY <1>1, <1>6 DEF Maybe
<1> QED
  BY <1>2, <1>3, <1>4, <1>5, <1>6, <1>7, <1>8 DEF ToProviderView, ProviderView

\* The pages, the view and the search say the same of one listing.
LEMMA ListingAgrees ==
  ASSUME NEW node \in NodeListing, Stored(node.beat), NEW nodes, node \in nodes
  PROVE  LET card == NodeCard(node)
             page == RentPage(node)
             view == ToProviderView(node)
             rentable == page.flow = "session form"
         IN /\ card.price.rent_link <=> rentable
            /\ node \in SearchComputeNodes(nodes, FALSE, Absent) <=> rentable
            /\ (view.refundable /\ view.status # "offline") <=> rentable
            /\ card.status = "available" <=> view.status = "online"
            /\ card.status = "paused" <=> view.status = "paused"
            /\ card.identity = Absent <=> view.agent_id = Absent
            /\ "cuda" \in view.capabilities <=> card.gpu.card # "no card"
            /\ node \in SearchComputeNodes(nodes, TRUE, Absent) => ~ page.specs.no_cuda
<1>1. /\ node.online \in BOOLEAN /\ node.beat.paused \in BOOLEAN
      /\ node.beat.gpu.available \in BOOLEAN
      /\ node.beat.gpu.model \in Maybe(NvidiaModels \cup OtherModels)
      /\ node.beat.identity.agent_id \in Maybe(Nat \ {0})
      /\ node.beat.identity.identity_registry \in Maybe({"contract"})
  BY DEF NodeListing, NodeHeartbeat, GpuInfo, ProviderIdentity, Stored
<1>2. RentFlow(node) = "session form" <=> Metered(node.beat) /\ node.online
  BY DEF RentFlow, Metered
<1>3. node \in SearchComputeNodes(nodes, FALSE, Absent) <=> Metered(node.beat) /\ node.online
  BY DEF SearchComputeNodes, ListOnlineNodes
<1>4. StatusOf(node) # "offline" <=> node.online
  BY <1>1 DEF StatusOf
<1>5. /\ StatusTag(node) = "available" <=> StatusOf(node) = "online"
      /\ StatusTag(node) = "paused" <=> StatusOf(node) = "paused"
  BY <1>1 DEF StatusTag, StatusOf
<1>6. Identity(node) = Absent <=> node.beat.identity.agent_id = Absent
  <2> DEFINE id == node.beat.identity.agent_id
             shown == [agent |-> id, link |-> node.beat.identity.identity_registry]
  <2>1. CASE id = Absent
    BY <2>1 DEF Identity
  <2>2. CASE id # Absent
    <3>1. id \in Nat \ {0}
      BY <1>1, <2>2 DEF Maybe
    <3>2. shown \in [agent : Nat, link : {Absent, "contract"}]
      BY <1>1, <3>1 DEF Maybe
    <3>3. shown # Absent
      BY <3>2, AbsentAssumption
    <3>4. Identity(node) = shown
      BY <2>2, <3>1 DEF Identity
    <3> QED
      BY <2>2, <3>3, <3>4
  <2> QED
    BY <2>1, <2>2
<1>7. "cuda" \in CapabilitiesOf(node.beat) <=> node.beat.gpu.available
  BY DEF CapabilitiesOf
<1>8. Gpu(node).card # "no card" <=> node.beat.gpu.available
  BY <1>1, AbsentAssumption DEF Gpu, Maybe
<1>9. node \in SearchComputeNodes(nodes, TRUE, Absent) => ~ Specs(node).no_cuda
  BY DEF SearchComputeNodes, ListOnlineNodes, Specs
<1> QED
  BY <1>2, <1>3, <1>4, <1>5, <1>6, <1>7, <1>8, <1>9
     DEF NodeCard, Price, RentPage, ToProviderView

\* Whatever a row says has passed the schema, and so has what a request is about to
\* write into one.
ReadersInv ==
  /\ \A i \in NodeIds : rows[i] # Nobody => Stored(rows[i].beat)
  /\ \A c \in calls : c.route = "heartbeat" /\ c.claim # "unread" => HeartbeatSchema(c.beat)

\* Storing a description that passed keeps it one that passed.
LEMMA StoredBeatStored ==
  ASSUME NEW beat \in NodeHeartbeat, HeartbeatSchema(beat)
  PROVE  Stored(StoredBeat(beat))
<1> DEFINE id == IF beat.identity.agent_id = 0 THEN Absent ELSE beat.identity.agent_id
<1>1. beat.identity.agent_id \in Maybe(Nat)
  BY DEF NodeHeartbeat, ProviderIdentity
<1>2. id \in Maybe(Nat \ {0})
  BY <1>1 DEF Maybe
<1>3. /\ StoredBeat(beat).url = beat.url /\ StoredBeat(beat).gpu = beat.gpu
      /\ StoredBeat(beat).leases = beat.leases /\ StoredBeat(beat).identity.agent_id = id
  BY DEF StoredBeat, NodeHeartbeat, ProviderIdentity
<1> QED
  BY <1>2, <1>3, SMT DEF Stored, HeartbeatSchema

\* What is written was checked, and what is checked is written as it was.
LEMMA ReadersStep ==
  ASSUME RegistryInv, RegistryInv', ReadersInv, [Next]_vars
  PROVE  ReadersInv'
<1> DEFINE Passed(d) == d.route = "heartbeat" /\ d.claim # "unread" => HeartbeatSchema(d.beat)
<1>0. calls \subseteq Call /\ rows \in [NodeIds -> Row \cup {Nobody}]
  BY DEF RegistryInv, TypeOK
<1>1. \A c \in calls : Passed(c)
  BY DEF ReadersInv
<1>2. ASSUME NEW c \in calls
      PROVE  LET d == [c EXCEPT !.held = FALSE]
             IN  Passed(d)
  BY <1>0, <1>1 DEF Call
<1>3. ASSUME UNCHANGED rows, \A d \in calls' : Passed(d) PROVE ReadersInv'
  BY <1>3 DEF ReadersInv
<1>4. ASSUME NEW a \in Announcers, Abandon(a) \/ Stop(a) \/ Beat(a)
      PROVE  \A d \in calls' : Passed(d)
  <2>1. ASSUME NEW d \in calls'
        PROVE  \/ d \in calls \/ \E c \in calls : d = [c EXCEPT !.held = FALSE]
               \/ \E route, beat : d = Send(a, route, beat)
    BY <1>4, <2>1 DEF Abandon, Stop, Beat, Held
  <2>2. ASSUME NEW d \in calls' PROVE Passed(d)
    <3>1. CASE d \in calls
      BY <1>1, <3>1
    <3>2. CASE \E c \in calls : d = [c EXCEPT !.held = FALSE]
      BY <1>2, <3>2
    <3>3. CASE \E route, beat : d = Send(a, route, beat)
      BY ONLY <3>3 DEF Send
    <3> QED
      BY <2>1, <3>1, <3>2, <3>3
  <2> QED
    BY <2>2
<1>5. ASSUME NEW c \in calls, SelectToken(c) PROVE ReadersInv'
  <2>1. PICK claim : calls' = (calls \ {c}) \cup {[c EXCEPT !.claim = claim]}
    BY <1>5 DEF SelectToken
  <2>2. [c EXCEPT !.claim = claim].route = c.route /\ [c EXCEPT !.claim = claim].beat = c.beat
    BY <1>0 DEF Call
  <2>3. \A d \in calls' : Passed(d)
    BY <1>1, <1>5, <2>1, <2>2 DEF SelectToken
  <2> QED
    BY <1>3, <1>5, <2>3 DEF SelectToken
<1>6. ASSUME NEW c \in calls, RecordHeartbeat(c) PROVE ReadersInv'
  <2>1. c \in Call /\ c.route = "heartbeat" /\ c.beat \in NodeHeartbeat /\ c.by \in Announcers
        /\ IdOf[c.by] \in NodeIds
    BY <1>0, <1>6, AnnouncerAssumption DEF RecordHeartbeat, Call
  <2>2. HeartbeatSchema(c.beat)
    BY <1>1, <1>6, <2>1, AnnouncerAssumption DEF RecordHeartbeat
  <2>3. Stored(Upsert(rows[IdOf[c.by]], c).beat)
    BY <2>1, <2>2, StoredBeatStored DEF Upsert
  <2>4. \A i \in NodeIds : rows'[i] = IF i = IdOf[c.by] THEN Upsert(rows[i], c) ELSE rows[i]
    BY <1>0, <1>6, <2>1 DEF RecordHeartbeat
  <2>5. calls' \subseteq calls
    BY <1>6 DEF RecordHeartbeat, Answered
  <2> QED
    BY <1>1, <2>3, <2>4, <2>5 DEF ReadersInv
<1>7. ASSUME NEW c \in calls, WithdrawNode(c) PROVE ReadersInv'
  <2>1. IdOf[c.by] \in NodeIds /\ c.by \in Announcers
    BY <1>0, AnnouncerAssumption DEF Call
  <2>2. rows[IdOf[c.by]] \in Row
    BY <1>0, <1>7, <2>1, AnnouncerAssumption DEF WithdrawNode, RegistryInv, ClaimsHold
  <2>3. \A i \in NodeIds : rows'[i] = IF i = IdOf[c.by] THEN [rows[i] EXCEPT !.withdrawn = TRUE] ELSE rows[i]
    BY <1>0, <1>7, <2>1 DEF WithdrawNode
  <2>4. [rows[IdOf[c.by]] EXCEPT !.withdrawn = TRUE].beat = rows[IdOf[c.by]].beat
    BY <2>2 DEF Row
  <2>5. rows[IdOf[c.by]] # Nobody
    BY <2>2, RowAssumption
  <2>6. calls' \subseteq calls
    BY <1>7 DEF WithdrawNode, Answered
  <2> QED
    BY <1>1, <2>1, <2>3, <2>4, <2>5, <2>6 DEF ReadersInv
<1>8. CASE Tick
  <2>1. \A i \in NodeIds : rows[i] # Nobody => rows[i] \in Row
    BY <1>0
  <2>2. \A i \in NodeIds : rows[i] # Nobody => [rows[i] EXCEPT !.age = @ + 1].beat = rows[i].beat
    BY <2>1 DEF Row
  <2>3. ASSUME NEW i \in NodeIds, rows'[i] # Nobody PROVE Stored(rows'[i].beat)
    <3>1. rows[i] # Nobody
      BY <1>8, <2>3 DEF Tick
    <3>2. rows'[i].beat = rows[i].beat
      BY <1>8, <2>2, <3>1 DEF Tick
    <3> QED
      BY <3>1, <3>2 DEF ReadersInv
  <2> QED
    BY <1>1, <1>8, <2>3 DEF Tick, ReadersInv
<1>9. ASSUME NEW c \in calls, RefuseInvalid(c) \/ Refuse(c) PROVE ReadersInv'
  BY <1>1, <1>3, <1>9 DEF RefuseInvalid, Refuse, Answered
<1>10. CASE UNCHANGED vars
  BY <1>1, <1>3, <1>10 DEF vars
<1> QED
  BY <1>3, <1>4, <1>5, <1>6, <1>7, <1>8, <1>9, <1>10
     DEF Next, Handle, Beat, BeatTimesOut, Stop, GoodbyeTimesOut, Crash

\* The readers of a row agree on whom a renter can rent from, on who is paused and on
\* who is identified, for any descriptions announcers send, in any order
\* (registry.ts, nodes-page.tsx, rent-page.tsx, providers.ts, searchComputeNodes.ts).
THEOREM ReadersAgreeHolds == Spec => []ReadersAgree
<1>1. Init => ReadersInv
  BY DEF Init, ReadersInv
<1>2. RegistryInv /\ RegistryInv' /\ ReadersInv /\ [Next]_vars => ReadersInv'
  BY ReadersStep
<1>3. RegistryInv /\ ReadersInv => ReadersAgree
  <2> SUFFICES ASSUME RegistryInv, ReadersInv PROVE ReadersAgree
    OBVIOUS
  <2>1. NodesPage(ListNodes(FALSE)).online = Cardinality(ListNodes(TRUE))
    <3>1. {n \in ListNodes(FALSE) : n.online} = ListNodes(TRUE)
      BY DEF ListNodes
    <3> QED
      BY <3>1 DEF NodesPage
  <2>2. ASSUME NEW i \in NodeIds, GetNode(i) # Absent
        PROVE  LET node == GetNode(i)
               IN  /\ node \in ListNodes(FALSE) /\ node \in NodeListing /\ Stored(node.beat)
                   /\ GetProvider(i) = ToProviderView(node)
    <3>1. rows[i] # Nobody /\ rows[i] \in Row
      BY <2>2 DEF GetNode, RegistryInv, TypeOK
    <3>2. GetNode(i) = ToListing(rows[i])
      BY <3>1 DEF GetNode
    <3>3. ToListing(rows[i]) \in NodeListing /\ ToListing(rows[i]).beat = rows[i].beat
      BY <3>1 DEF ToListing, NodeListing, IsOnline, Row
    <3>4. ToListing(rows[i]) \in ListNodes(FALSE)
      BY <3>1 DEF ListNodes
    <3> QED
      BY <2>2, <3>1, <3>2, <3>3, <3>4 DEF ReadersInv, GetProvider
  <2>3. ASSUME NEW i \in NodeIds, GetNode(i) # Absent
        PROVE  GetProvider(i) \in ListProviders(FALSE) /\ GetProvider(i) \in ProviderView
    BY <2>2, <2>3, ViewType DEF ListProviders
  <2> QED
    BY <2>1, <2>2, <2>3, ListingAgrees DEF ReadersAgree
<1> QED
  BY <1>1, <1>2, <1>3, RegistryInvariant, PTL DEF Spec

---------------------------------------------------------------------------
(* Identities *)


\* The contract's part of the type invariant.
ContractOK ==
  /\ agents \in Seq(AgentInfo)
  /\ idByDomain \in [Domains -> Nat]
  /\ idByAddress \in [Addresses -> Nat]
  /\ minted \in Seq(Addresses)

\* An id a node minted is still at that node's address.
MintedStay ==
  /\ Len(minted) = Len(agents)
  /\ \A i \in DOMAIN minted : minted[i] \in Nodes => agents[i].agentAddress = minted[i]

ContractInv == ContractOK /\ IndicesAgree /\ MintedStay

\* The id a run is about to confirm, or to write down, is its node's.
OwnId(c) ==
  /\ commands[c].agentId \in DOMAIN agents
  /\ agents[commands[c].agentId].agentAddress = commands[c].node

RunsKnowTheirOwn ==
  \A c \in Commands : commands[c].pc \in {"updating", "saving"} => OwnId(c)

\* The inductive invariant of identities.
IdentityInv == IdentityTypeOK /\ IndicesAgree /\ MintedStay /\ RunsKnowTheirOwn /\ RecordedIsOwn

-----------------------------------------------------------------------------
(* The contract.                                                           *)

\* A new id is one more record, under keys nobody had.
LEMMA NewAgentStep ==
  ASSUME ContractInv, NEW from \in Addresses, NEW domain \in Domains, NEW address \in Addresses,
         NewAgent(from, domain, address)
  PROVE  ContractInv' /\ KeepsIdentity
<1> DEFINE k == Len(agents) + 1
           a == [agentDomain |-> domain, agentAddress |-> address]
<1>1. /\ agents' = Append(agents, a)
      /\ idByDomain' = [idByDomain EXCEPT ![domain] = k]
      /\ idByAddress' = [idByAddress EXCEPT ![address] = k]
      /\ minted' = Append(minted, from)
      /\ address = from /\ idByDomain[domain] = 0 /\ idByAddress[address] = 0
  BY DEF NewAgent
<1>2. a \in AgentInfo /\ a.agentDomain = domain /\ a.agentAddress = address
  BY DEF AgentInfo
<1>3. agents \in Seq(AgentInfo) /\ minted \in Seq(Addresses) /\ Len(minted) = Len(agents)
  BY DEF ContractInv, ContractOK, MintedStay
<1>4. k \in Nat /\ k # 0 /\ k = Len(minted) + 1 /\ k \notin DOMAIN agents
      /\ DOMAIN agents = 1..Len(agents) /\ DOMAIN minted = DOMAIN agents
  BY <1>3
<1> HIDE DEF a, k
<1>5. /\ DOMAIN agents' = DOMAIN agents \cup {k} /\ Len(agents') = k
      /\ agents'[k] = a
      /\ \A i \in DOMAIN agents : agents'[i] = agents[i]
  BY <1>1, <1>2, <1>3, <1>4 DEF k
<1>6. /\ DOMAIN minted' = DOMAIN agents \cup {k} /\ Len(minted') = k
      /\ minted'[k] = from
      /\ \A i \in DOMAIN agents : minted'[i] = minted[i]
  BY <1>1, <1>3, <1>4
<1>7. ContractOK'
  BY <1>1, <1>2, <1>3, <1>4 DEF ContractInv, ContractOK
<1>8. \A i \in DOMAIN agents : agents[i] \in AgentInfo
  BY <1>3
<1>9. IndicesAgree'
  <2>1. ASSUME NEW i \in DOMAIN agents
        PROVE  /\ idByDomain'[agents[i].agentDomain] = i
               /\ idByAddress'[agents[i].agentAddress] = i
    <3>1. idByDomain[agents[i].agentDomain] = i /\ idByAddress[agents[i].agentAddress] = i /\ i # 0
      BY <1>4 DEF ContractInv, IndicesAgree, GetAgent
    <3>2. agents[i].agentDomain # domain /\ agents[i].agentAddress # address
      BY <1>1, <3>1
    <3> QED
      BY <1>1, <1>8, <3>1, <3>2 DEF ContractInv, ContractOK, AgentInfo
  <2>2. idByDomain'[domain] = k /\ idByAddress'[address] = k
    BY <1>1 DEF ContractInv, ContractOK
  <2>3. \A d \in Domains : idByDomain'[d] # 0 =>
          idByDomain'[d] \in DOMAIN agents' /\ agents'[idByDomain'[d]].agentDomain = d
    BY <1>1, <1>2, <1>5, <2>2 DEF ContractInv, ContractOK, IndicesAgree, ResolveByDomain
  <2>4. \A x \in Addresses : idByAddress'[x] # 0 =>
          idByAddress'[x] \in DOMAIN agents' /\ agents'[idByAddress'[x]].agentAddress = x
    BY <1>1, <1>2, <1>5, <2>2 DEF ContractInv, ContractOK, IndicesAgree, ResolveByAddress
  <2>5. \A i \in DOMAIN agents' :
          /\ idByDomain'[agents'[i].agentDomain] = i
          /\ idByAddress'[agents'[i].agentAddress] = i
    BY <1>2, <1>5, <2>1, <2>2
  <2> QED
    BY <2>3, <2>4, <2>5 DEF IndicesAgree, GetAgent, ResolveByDomain, ResolveByAddress
<1>10. MintedStay'
  BY <1>1, <1>2, <1>4, <1>5, <1>6 DEF ContractInv, MintedStay
<1>11. KeepsIdentity
  BY <1>5 DEF KeepsIdentity
<1> QED
  BY <1>7, <1>9, <1>10, <1>11 DEF ContractInv

\* An update rewrites one record and moves its two keys; a node's record is moved
\* by that node only, to its own address.
LEMMA UpdateAgentStep ==
  ASSUME ContractInv, NEW from \in Addresses, NEW domain \in Domains, NEW address \in Addresses,
         NEW id, UpdateAgent(from, id, domain, address),
         from \in Nodes => address = from
  PROVE  ContractInv' /\ KeepsIdentity
<1> DEFINE old == agents[id]
           a == [agentDomain |-> domain, agentAddress |-> address]
<1>1. /\ id \in DOMAIN agents
      /\ old.agentAddress = from
      /\ domain # old.agentDomain => idByDomain[domain] = 0
      /\ address # old.agentAddress => idByAddress[address] = 0
      /\ idByDomain' = Moved(idByDomain, old.agentDomain, domain, id)
      /\ idByAddress' = Moved(idByAddress, old.agentAddress, address, id)
      /\ agents' = [agents EXCEPT ![id] = a]
      /\ minted' = minted
  BY DEF UpdateAgent
<1>2. a \in AgentInfo /\ a.agentDomain = domain /\ a.agentAddress = address
  BY DEF AgentInfo
<1>3. /\ agents \in Seq(AgentInfo)
      /\ idByDomain \in [Domains -> Nat] /\ idByAddress \in [Addresses -> Nat]
      /\ DOMAIN minted = DOMAIN agents
  BY DEF ContractInv, ContractOK, MintedStay
<1>4. /\ id \in Nat /\ id # 0
      /\ \A i \in DOMAIN agents : i # 0 /\ agents[i] \in AgentInfo
  BY <1>1, <1>3
<1>5. /\ \A i \in DOMAIN agents : agents[i].agentDomain \in Domains
                                  /\ agents[i].agentAddress \in Addresses
      /\ old.agentDomain \in Domains /\ old.agentAddress \in Addresses
  BY <1>1, <1>4 DEF AgentInfo
<1>6. /\ agents' \in Seq(AgentInfo) /\ DOMAIN agents' = DOMAIN agents /\ Len(agents') = Len(agents)
      /\ agents'[id] = a
      /\ \A i \in DOMAIN agents \ {id} : agents'[i] = agents[i]
  BY <1>1, <1>2, <1>3
<1>7. idByDomain[old.agentDomain] = id /\ idByAddress[old.agentAddress] = id
  BY <1>1 DEF ContractInv, IndicesAgree, GetAgent
<1>8. /\ idByDomain' \in [Domains -> Nat] /\ idByDomain'[domain] = id
      /\ old.agentDomain # domain => idByDomain'[old.agentDomain] = 0
      /\ \A x \in Domains \ {old.agentDomain, domain} : idByDomain'[x] = idByDomain[x]
  <2>1. idByDomain' = Moved(idByDomain, old.agentDomain, domain, id)
    BY <1>1
  <2> HIDE DEF old
  <2> QED
    BY <1>3, <1>4, <1>5, <1>7, <2>1 DEF Moved
<1>9. /\ idByAddress' \in [Addresses -> Nat] /\ idByAddress'[address] = id
      /\ old.agentAddress # address => idByAddress'[old.agentAddress] = 0
      /\ \A x \in Addresses \ {old.agentAddress, address} : idByAddress'[x] = idByAddress[x]
  <2>1. idByAddress' = Moved(idByAddress, old.agentAddress, address, id)
    BY <1>1
  <2> HIDE DEF old
  <2> QED
    BY <1>3, <1>4, <1>5, <1>7, <2>1 DEF Moved
<1> HIDE DEF a, old
<1>10. ContractOK'
  BY <1>1, <1>6, <1>8, <1>9 DEF ContractInv, ContractOK
<1>11. ASSUME NEW i \in DOMAIN agents, i # id
       PROVE  /\ idByDomain[agents[i].agentDomain] = i /\ idByAddress[agents[i].agentAddress] = i
              /\ agents[i].agentDomain \notin {old.agentDomain, domain}
              /\ agents[i].agentAddress \notin {old.agentAddress, address}
  <2>1. idByDomain[agents[i].agentDomain] = i /\ idByAddress[agents[i].agentAddress] = i
    BY DEF ContractInv, IndicesAgree, GetAgent
  <2> QED
    BY <1>1, <1>4, <1>7, <1>11, <2>1
<1>12. IndicesAgree'
  <2>1. \A i \in DOMAIN agents' :
          /\ idByDomain'[agents'[i].agentDomain] = i
          /\ idByAddress'[agents'[i].agentAddress] = i
    <3>1. ASSUME NEW i \in DOMAIN agents, i # id
          PROVE  /\ idByDomain'[agents[i].agentDomain] = i
                 /\ idByAddress'[agents[i].agentAddress] = i
      BY <1>5, <1>8, <1>9, <1>11, <3>1
    <3> QED
      BY <1>2, <1>6, <1>8, <1>9, <3>1
  <2>2. \A d \in Domains : idByDomain'[d] # 0 =>
          idByDomain'[d] \in DOMAIN agents' /\ agents'[idByDomain'[d]].agentDomain = d
    <3> SUFFICES ASSUME NEW d \in Domains, idByDomain'[d] # 0
                 PROVE  idByDomain'[d] \in DOMAIN agents' /\ agents'[idByDomain'[d]].agentDomain = d
      OBVIOUS
    <3>1. CASE d = domain
      BY <1>1, <1>2, <1>6, <1>8, <3>1
    <3>2. CASE d # domain
      <4>1. d # old.agentDomain /\ idByDomain'[d] = idByDomain[d]
        BY <1>8, <3>2
      <4>2. idByDomain[d] \in DOMAIN agents /\ agents[idByDomain[d]].agentDomain = d
        BY <4>1 DEF ContractInv, IndicesAgree, ResolveByDomain
      <4>3. idByDomain[d] # id
        BY <4>1, <4>2 DEF old
      <4> QED
        BY <1>6, <4>1, <4>2, <4>3
    <3> QED
      BY <3>1, <3>2
  <2>3. \A x \in Addresses : idByAddress'[x] # 0 =>
          idByAddress'[x] \in DOMAIN agents' /\ agents'[idByAddress'[x]].agentAddress = x
    <3> SUFFICES ASSUME NEW x \in Addresses, idByAddress'[x] # 0
                 PROVE  /\ idByAddress'[x] \in DOMAIN agents'
                        /\ agents'[idByAddress'[x]].agentAddress = x
      OBVIOUS
    <3>1. CASE x = address
      BY <1>1, <1>2, <1>6, <1>9, <3>1
    <3>2. CASE x # address
      <4>1. x # old.agentAddress /\ idByAddress'[x] = idByAddress[x]
        BY <1>9, <3>2
      <4>2. idByAddress[x] \in DOMAIN agents /\ agents[idByAddress[x]].agentAddress = x
        BY <4>1 DEF ContractInv, IndicesAgree, ResolveByAddress
      <4>3. idByAddress[x] # id
        BY <4>1, <4>2 DEF old
      <4> QED
        BY <1>6, <4>1, <4>2, <4>3
    <3> QED
      BY <3>1, <3>2
  <2> QED
    BY <2>1, <2>2, <2>3 DEF IndicesAgree, GetAgent, ResolveByDomain, ResolveByAddress
<1>13. KeepsIdentity
  <2>1. agents[id].agentAddress \in Nodes => agents'[id].agentAddress = agents[id].agentAddress
    BY <1>1, <1>2, <1>6 DEF old
  <2> QED
    BY <1>6, <2>1 DEF KeepsIdentity
<1>14. MintedStay'
  <2>1. \A i \in DOMAIN minted : minted[i] \in Nodes => agents[i].agentAddress = minted[i]
    BY DEF ContractInv, MintedStay
  <2> QED
    BY <1>1, <1>3, <1>6, <1>13, <2>1 DEF ContractInv, MintedStay, KeepsIdentity
<1> QED
  BY <1>10, <1>12, <1>13, <1>14 DEF ContractInv

\* Where the contract does not move, neither do its invariant nor its identities.
LEMMA ContractStays ==
  ASSUME ContractInv, UNCHANGED contract
  PROVE  ContractInv' /\ KeepsIdentity
BY DEF contract, ContractInv, ContractOK, IndicesAgree, GetAgent, ResolveByDomain, ResolveByAddress,
       MintedStay, KeepsIdentity

-----------------------------------------------------------------------------
(* Who knows an id keeps knowing it.                                       *)

\* Where identities are kept, an unchanged configuration stays true.
LEMMA RecordKept ==
  ASSUME RecordedIsOwn, KeepsIdentity, UNCHANGED config
  PROVE  RecordedIsOwn'
BY DEF RecordedIsOwn, KeepsIdentity, GetAgent

\* Where identities are kept, so is what a run knows.
LEMMA OwnIdKept ==
  ASSUME IdentityTypeOK, KeepsIdentity, NEW c \in Commands,
         commands[c].pc \notin AtRest, OwnId(c),
         commands'[c].agentId = commands[c].agentId, commands'[c].node = commands[c].node
  PROVE  OwnId(c)'
<1>1. commands[c].node \in Nodes
  BY DEF IdentityTypeOK, Run, AtRest
<1> QED
  BY <1>1 DEF OwnId, KeepsIdentity

\* A run the step does not touch.
LEMMA OtherRunKept ==
  ASSUME IdentityInv, KeepsIdentity, NEW c \in Commands, commands'[c] = commands[c],
         commands'[c].pc \in {"updating", "saving"}
  PROVE  OwnId(c)'
<1>1. OwnId(c) /\ commands[c].pc \notin AtRest
  BY DEF IdentityInv, RunsKnowTheirOwn, AtRest
<1> QED
  BY <1>1, OwnIdKept DEF IdentityInv

\* The id the contract gives a node's key is that node's.
LEMMA AskedIsOwn ==
  ASSUME IndicesAgree, NEW n \in Nodes, AgentIdOf(n) # 0
  PROVE  AgentIdOf(n) \in DOMAIN agents /\ agents[AgentIdOf(n)].agentAddress = n
BY DEF IndicesAgree, AgentIdOf, ResolveByAddress, Addresses

\* A run that is under way has a node, a domain and an id.
LEMMA RunType ==
  ASSUME IdentityTypeOK, NEW c \in Commands, commands[c].pc \notin AtRest
  PROVE  /\ commands[c] \in Run
         /\ commands[c].node \in Nodes /\ commands[c].domain \in Domains
         /\ commands[c].agentId \in Nat
BY DEF IdentityTypeOK, Run, AtRest

\* A run that ends.
LEMMA EndsKeeps ==
  ASSUME IdentityInv, KeepsIdentity, NEW c \in Commands, Ends(c)
  PROVE  RunsKnowTheirOwn' /\ commands' \in [Commands -> Run \cup [pc : AtRest]]
<1>1. /\ commands' = [commands EXCEPT ![c] = [pc |-> "done"]]
      /\ commands \in [Commands -> Run \cup [pc : AtRest]]
  BY DEF Ends, IdentityInv, IdentityTypeOK
<1>2. [pc |-> "done"] \in [pc : AtRest] /\ [pc |-> "done"].pc \notin {"updating", "saving"}
  BY DEF AtRest
<1>3. \A d \in Commands : d # c => commands'[d] = commands[d]
  BY <1>1
<1>4. commands'[c] = [pc |-> "done"]
  BY <1>1
<1>5. commands' \in [Commands -> Run \cup [pc : AtRest]]
  BY <1>1, <1>2
<1> QED
  BY <1>2, <1>3, <1>4, <1>5, OtherRunKept DEF RunsKnowTheirOwn

\* A run that goes on, with what it knows true after the step.
LEMMA RunGoesOn ==
  ASSUME IdentityInv, KeepsIdentity, NEW c \in Commands, NEW run \in Run,
         commands' = [commands EXCEPT ![c] = run],
         run.pc \in {"updating", "saving"} =>
           run.agentId \in DOMAIN agents' /\ agents'[run.agentId].agentAddress = run.node
  PROVE  RunsKnowTheirOwn' /\ commands' \in [Commands -> Run \cup [pc : AtRest]]
<1>1. commands \in [Commands -> Run \cup [pc : AtRest]]
  BY DEF IdentityInv, IdentityTypeOK
<1>2. \A d \in Commands : d # c => commands'[d] = commands[d]
  BY <1>1
<1>3. commands'[c] = run
  BY <1>1
<1>4. commands'[c].pc \in {"updating", "saving"} => OwnId(c)'
  BY <1>3 DEF OwnId
<1>5. commands' \in [Commands -> Run \cup [pc : AtRest]]
  BY <1>1
<1> QED
  BY <1>2, <1>4, <1>5, OtherRunKept DEF RunsKnowTheirOwn

\* Runs the step does not touch at all.
LEMMA RunsKept ==
  ASSUME IdentityInv, KeepsIdentity, UNCHANGED commands
  PROVE  RunsKnowTheirOwn' /\ commands' \in [Commands -> Run \cup [pc : AtRest]]
BY OtherRunKept DEF RunsKnowTheirOwn, IdentityInv, IdentityTypeOK

\* What is left of the type invariant beside the contract's part of it.
LEMMA TypeParts ==
  IdentityTypeOK <=> /\ ContractOK
             /\ keyFile \in [Nodes -> {"absent", "key", "account"}]
             /\ funded \subseteq Nodes
             /\ config \in [Nodes -> Nat]
             /\ commands \in [Commands -> Run \cup [pc : AtRest]]
             /\ sent \subseteq Transaction
BY DEF IdentityTypeOK, ContractOK

-----------------------------------------------------------------------------
(* The steps.                                                              *)

LEMMA InvParts ==
  IdentityInv => ContractInv
BY TypeParts DEF IdentityInv, ContractInv

\* A call from outside cannot touch a node's identity.
LEMMA OthersStep ==
  ASSUME IdentityInv, OthersCall
  PROVE  IdentityInv' /\ KeepsIdentity
<1>1. ContractInv' /\ KeepsIdentity
  <2>1. PICK from \in Others \ Nodes, domain \in Domains, address \in Addresses :
          \/ NewAgent(from, domain, address)
          \/ \E agentId \in DOMAIN agents : UpdateAgent(from, agentId, domain, address)
    BY DEF OthersCall
  <2>2. from \in Addresses /\ from \notin Nodes
    BY DEF Addresses
  <2>3. CASE NewAgent(from, domain, address)
    BY <2>2, <2>3, InvParts, NewAgentStep
  <2>4. ASSUME NEW agentId \in DOMAIN agents, UpdateAgent(from, agentId, domain, address)
        PROVE  ContractInv' /\ KeepsIdentity
    BY <2>2, <2>4, InvParts, UpdateAgentStep
  <2> QED
    BY <2>1, <2>3, <2>4
<1>2. UNCHANGED <<keyFile, funded, config, commands, sent>>
  BY DEF OthersCall, disk
<1>3. IdentityTypeOK'
  BY <1>1, <1>2 DEF IdentityInv, IdentityTypeOK, ContractInv, ContractOK
<1> QED
  BY <1>1, <1>2, <1>3, RunsKept, RecordKept DEF IdentityInv, ContractInv

\* A node's own files.
LEMMA NodeStep ==
  ASSUME IdentityInv, NEW n \in Nodes, Setup(n) \/ Fund(n) \/ LoseConfig(n)
  PROVE  IdentityInv' /\ KeepsIdentity
<1>1. UNCHANGED contract /\ UNCHANGED <<commands, sent>>
  BY DEF Setup, Fund, LoseConfig, contract
<1>2. ContractInv' /\ KeepsIdentity
  BY <1>1, InvParts, ContractStays
<1>3. RunsKnowTheirOwn'
  BY <1>1, <1>2, RunsKept
<1>4. /\ keyFile' \in [Nodes -> {"absent", "key", "account"}]
      /\ funded' \subseteq Nodes
      /\ config' \in [Nodes -> Nat]
  <2>1. CASE Setup(n)
    BY <2>1 DEF IdentityInv, IdentityTypeOK, Setup, EnsureOperator
  <2>2. CASE Fund(n)
    BY <2>2 DEF IdentityInv, IdentityTypeOK, Fund
  <2>3. CASE LoseConfig(n)
    BY <2>3 DEF IdentityInv, IdentityTypeOK, LoseConfig
  <2> QED
    BY <2>1, <2>2, <2>3
<1>5. RecordedIsOwn'
  <2>1. CASE UNCHANGED config
    BY <1>2, <2>1, RecordKept DEF IdentityInv
  <2>2. CASE LoseConfig(n)
    BY <1>1, <2>2 DEF LoseConfig, contract, IdentityInv, IdentityTypeOK, RecordedIsOwn, GetAgent
  <2> QED
    BY <2>1, <2>2 DEF Setup, Fund
<1>6. IdentityTypeOK'
  BY <1>1, <1>2, <1>4 DEF IdentityInv, IdentityTypeOK, ContractInv, ContractOK
<1> QED
  BY <1>2, <1>3, <1>5, <1>6 DEF IdentityInv, ContractInv

\* The command starts, or ends for want of an account.
LEMMA RegisterStep ==
  ASSUME IdentityInv, NEW c \in Commands, NEW n \in Nodes, NEW domain \in Domains,
         Register(c, n, domain)
  PROVE  IdentityInv' /\ KeepsIdentity
<1> DEFINE run == [pc |-> "asking", node |-> n, domain |-> domain, agentId |-> 0]
<1>1. UNCHANGED contract /\ UNCHANGED <<funded, config, sent>> /\ EnsureOperator(n)
  BY DEF Register, contract
<1>2. ContractInv' /\ KeepsIdentity
  BY <1>1, InvParts, ContractStays
<1>3. run \in Run /\ run.pc \notin {"updating", "saving"}
  BY DEF Run
<1>4. Ends(c) \/ commands' = [commands EXCEPT ![c] = run]
  BY DEF Register
<1> HIDE DEF run
<1>5. RunsKnowTheirOwn' /\ commands' \in [Commands -> Run \cup [pc : AtRest]]
  BY <1>2, <1>3, <1>4, EndsKeeps, RunGoesOn
<1>6. IdentityTypeOK'
  BY <1>1, <1>2, <1>5 DEF IdentityInv, IdentityTypeOK, ContractInv, ContractOK, EnsureOperator
<1> QED
  BY <1>1, <1>2, <1>5, <1>6, RecordKept DEF IdentityInv, ContractInv

\* A run that asks learns its node's id, or that there is none.
LEMMA AskStep ==
  ASSUME IdentityInv, NEW c \in Commands, AskIdentity(c)
  PROVE  IdentityInv' /\ KeepsIdentity
<1> DEFINE n == commands[c].node
           existing == AgentIdOf(n)
<1>1. /\ UNCHANGED contract /\ UNCHANGED <<funded, config>>
      /\ keyFile' = [keyFile EXCEPT ![n] = "account"]
      /\ commands[c].pc = "asking"
      /\ \/ /\ existing > 0
            /\ Submit(c, "updateAgent", existing)
            /\ commands' = [commands EXCEPT ![c].pc = "updating", ![c].agentId = existing]
         \/ /\ existing = 0
            /\ Submit(c, "newAgent", 0)
            /\ commands' = [commands EXCEPT ![c].pc = "minting"]
  BY DEF AskIdentity, ResolveOperator, contract
<1>2. ContractInv' /\ KeepsIdentity
  BY <1>1, InvParts, ContractStays
<1>3. commands[c] \in Run /\ n \in Nodes /\ commands[c].domain \in Domains
  BY <1>1, RunType DEF IdentityInv, AtRest
<1>4. existing \in Nat
  BY <1>3 DEF IdentityInv, IdentityTypeOK, AgentIdOf, Addresses
<1>5. sent' \subseteq Transaction
  BY <1>1, <1>3, <1>4 DEF Submit, IdentityInv, IdentityTypeOK, Transaction
<1>6. RunsKnowTheirOwn' /\ commands' \in [Commands -> Run \cup [pc : AtRest]]
  <2>1. CASE existing > 0 /\ commands' = [commands EXCEPT ![c].pc = "updating", ![c].agentId = existing]
    <3> DEFINE run == [commands[c] EXCEPT !.pc = "updating", !.agentId = existing]
    <3>1. commands' = [commands EXCEPT ![c] = run]
      BY <2>1 DEF IdentityInv, IdentityTypeOK
    <3>2. run \in Run /\ run.agentId = existing /\ run.node = n
      BY <1>3, <1>4 DEF Run
    <3>3. existing \in DOMAIN agents /\ agents[existing].agentAddress = n
      BY <1>3, <2>1, AskedIsOwn DEF IdentityInv
    <3>4. existing \in DOMAIN agents' /\ agents'[existing].agentAddress = n
      BY <1>1, <3>3 DEF contract
    <3> HIDE DEF run
    <3> QED
      BY <1>2, <3>1, <3>2, <3>4, RunGoesOn
  <2>2. CASE commands' = [commands EXCEPT ![c].pc = "minting"]
    <3> DEFINE run == [commands[c] EXCEPT !.pc = "minting"]
    <3>1. commands' = [commands EXCEPT ![c] = run]
      BY <2>2 DEF IdentityInv, IdentityTypeOK
    <3>2. run \in Run /\ run.pc = "minting"
      BY <1>3 DEF Run
    <3> HIDE DEF run
    <3> QED
      BY <1>2, <3>1, <3>2, RunGoesOn
  <2> QED
    BY <1>1, <2>1, <2>2
<1>7. IdentityTypeOK'
  BY <1>1, <1>2, <1>5, <1>6 DEF IdentityInv, IdentityTypeOK, ContractInv, ContractOK
<1> QED
  BY <1>1, <1>2, <1>6, <1>7, RecordKept DEF IdentityInv, ContractInv

\* A minted id is read back by the key that minted it.
LEMMA ReadBackStep ==
  ASSUME IdentityInv, NEW c \in Commands, ReadBack(c)
  PROVE  IdentityInv' /\ KeepsIdentity
<1> DEFINE n == commands[c].node
           agentId == AgentIdOf(n)
<1>1. /\ UNCHANGED contract /\ UNCHANGED <<keyFile, funded, config, sent>>
      /\ commands[c].pc = "reading"
      /\ \/ /\ agentId # 0
            /\ commands' = [commands EXCEPT ![c].pc = "saving", ![c].agentId = agentId]
         \/ Ends(c)
  BY DEF ReadBack, contract, disk
<1>2. ContractInv' /\ KeepsIdentity
  BY <1>1, InvParts, ContractStays
<1>3. commands[c] \in Run /\ n \in Nodes
  BY <1>1, RunType DEF IdentityInv, AtRest
<1>4. agentId \in Nat
  BY <1>3 DEF IdentityInv, IdentityTypeOK, AgentIdOf, Addresses
<1>5. RunsKnowTheirOwn' /\ commands' \in [Commands -> Run \cup [pc : AtRest]]
  <2>1. CASE agentId # 0 /\ commands' = [commands EXCEPT ![c].pc = "saving", ![c].agentId = agentId]
    <3> DEFINE run == [commands[c] EXCEPT !.pc = "saving", !.agentId = agentId]
    <3>1. commands' = [commands EXCEPT ![c] = run]
      BY <2>1 DEF IdentityInv, IdentityTypeOK
    <3>2. run \in Run /\ run.agentId = agentId /\ run.node = n
      BY <1>3, <1>4 DEF Run
    <3>3. agentId \in DOMAIN agents /\ agents[agentId].agentAddress = n
      BY <1>3, <2>1, AskedIsOwn DEF IdentityInv
    <3>4. agentId \in DOMAIN agents' /\ agents'[agentId].agentAddress = n
      BY <1>1, <3>3 DEF contract
    <3> HIDE DEF run
    <3> QED
      BY <1>2, <3>1, <3>2, <3>4, RunGoesOn
  <2> QED
    BY <1>1, <1>2, <2>1, EndsKeeps
<1>6. IdentityTypeOK'
  BY <1>1, <1>2, <1>5 DEF IdentityInv, IdentityTypeOK, ContractInv, ContractOK
<1> QED
  BY <1>1, <1>2, <1>5, <1>6, RecordKept DEF IdentityInv, ContractInv

\* What is written down is what the run knows.
LEMMA SaveStep ==
  ASSUME IdentityInv, NEW c \in Commands, Save(c)
  PROVE  IdentityInv' /\ KeepsIdentity
<1>1. /\ UNCHANGED contract /\ UNCHANGED <<keyFile, funded, sent>>
      /\ commands[c].pc = "saving" /\ Ends(c)
      /\ config' = [config EXCEPT ![commands[c].node] = commands[c].agentId]
  BY DEF Save, contract
<1>2. ContractInv' /\ KeepsIdentity
  BY <1>1, InvParts, ContractStays
<1>3. commands[c].node \in Nodes /\ commands[c].agentId \in Nat
  BY <1>1, RunType DEF IdentityInv, AtRest
<1>4. RunsKnowTheirOwn' /\ commands' \in [Commands -> Run \cup [pc : AtRest]]
  BY <1>1, <1>2, EndsKeeps
<1>5. IdentityTypeOK'
  BY <1>1, <1>2, <1>3, <1>4 DEF IdentityInv, IdentityTypeOK, ContractInv, ContractOK
<1>6. OwnId(c)
  BY <1>1 DEF IdentityInv, RunsKnowTheirOwn
<1>7. RecordedIsOwn'
  BY <1>1, <1>3, <1>6 DEF RecordedIsOwn, OwnId, GetAgent, IdentityInv, IdentityTypeOK, contract
<1> QED
  BY <1>2, <1>4, <1>5, <1>7 DEF IdentityInv, ContractInv

\* A run that fails leaves its transaction behind.
LEMMA FailStep ==
  ASSUME IdentityInv, NEW c \in Commands, CommandFails(c)
  PROVE  IdentityInv' /\ KeepsIdentity
<1>1. UNCHANGED contract /\ UNCHANGED <<keyFile, funded, config, sent>> /\ Ends(c)
  BY DEF CommandFails, contract, disk
<1>2. ContractInv' /\ KeepsIdentity
  BY <1>1, InvParts, ContractStays
<1>3. RunsKnowTheirOwn' /\ commands' \in [Commands -> Run \cup [pc : AtRest]]
  BY <1>1, <1>2, EndsKeeps
<1>4. IdentityTypeOK'
  BY <1>1, <1>2, <1>3 DEF IdentityInv, IdentityTypeOK, ContractInv, ContractOK
<1> QED
  BY <1>1, <1>2, <1>3, <1>4, RecordKept DEF IdentityInv, ContractInv

\* The receipt moves a run along without changing what it knows.
LEMMA ReceiptKeeps ==
  ASSUME IdentityInv, KeepsIdentity, NEW t \in Transaction, Receipt(t)
  PROVE  RunsKnowTheirOwn' /\ commands' \in [Commands -> Run \cup [pc : AtRest]]
<1> DEFINE c == t.by
<1>1. c \in Commands
  BY DEF Transaction
<1>2. CASE commands[c].pc = "minting"
  <2> DEFINE run == [commands[c] EXCEPT !.pc = "reading"]
  <2>1. commands' = [commands EXCEPT ![c] = run]
    BY <1>2 DEF Receipt
  <2>2. commands[c] \in Run
    BY <1>1, <1>2, RunType DEF IdentityInv, AtRest
  <2>3. run \in Run /\ run.pc = "reading"
    BY <2>2 DEF Run
  <2> HIDE DEF run
  <2> QED
    BY <1>1, <2>1, <2>3, RunGoesOn
<1>3. CASE commands[c].pc = "updating"
  <2> DEFINE run == [commands[c] EXCEPT !.pc = "saving"]
  <2>1. commands' = [commands EXCEPT ![c] = run]
    BY <1>3 DEF Receipt
  <2>2. commands[c] \in Run /\ commands[c].node \in Nodes
    BY <1>1, <1>3, RunType DEF IdentityInv, AtRest
  <2>3. run \in Run /\ run.agentId = commands[c].agentId /\ run.node = commands[c].node
    BY <2>2 DEF Run
  <2>4. OwnId(c)
    BY <1>1, <1>3 DEF IdentityInv, RunsKnowTheirOwn
  <2>5. run.agentId \in DOMAIN agents' /\ agents'[run.agentId].agentAddress = run.node
    BY <2>2, <2>3, <2>4 DEF OwnId, KeepsIdentity
  <2> HIDE DEF run
  <2> QED
    BY <1>1, <2>1, <2>3, <2>5, RunGoesOn
<1>4. CASE commands[c].pc \notin {"minting", "updating"}
  BY <1>4, RunsKept DEF Receipt
<1> QED
  BY <1>2, <1>3, <1>4

\* A node's transaction touches its own identity only.
LEMMA ExecutesStep ==
  ASSUME IdentityInv, NEW t \in sent, Executes(t)
  PROVE  IdentityInv' /\ KeepsIdentity
<1>1. t \in Transaction /\ t.from \in Nodes /\ t.from \in Addresses /\ t.domain \in Domains
  BY DEF IdentityInv, IdentityTypeOK, Transaction, Addresses
<1>2. ContractInv' /\ KeepsIdentity
  <2>1. CASE NewAgent(t.from, t.domain, t.from)
    BY <1>1, <2>1, InvParts, NewAgentStep
  <2>2. CASE UpdateAgent(t.from, t.agentId, t.domain, t.from)
    BY <1>1, <2>2, InvParts, UpdateAgentStep
  <2> QED
    BY <2>1, <2>2 DEF Executes
<1>3. /\ UNCHANGED <<keyFile, funded, config>>
      /\ sent' \subseteq sent /\ Receipt(t)
  BY DEF Executes, disk
<1>4. RunsKnowTheirOwn' /\ commands' \in [Commands -> Run \cup [pc : AtRest]]
  BY <1>1, <1>2, <1>3, ReceiptKeeps
<1>5. IdentityTypeOK'
  BY <1>2, <1>3, <1>4 DEF IdentityInv, IdentityTypeOK, ContractInv, ContractOK
<1> QED
  BY <1>2, <1>3, <1>4, <1>5, RecordKept DEF IdentityInv, ContractInv

\* A transaction that comes to nothing.
LEMMA RevertsStep ==
  ASSUME IdentityInv, NEW t \in sent, Reverts(t)
  PROVE  IdentityInv' /\ KeepsIdentity
<1>1. /\ UNCHANGED contract /\ UNCHANGED <<keyFile, funded, config>> /\ sent' \subseteq sent
      /\ Ends(t.by) \/ UNCHANGED commands
  BY DEF Reverts, contract, disk
<1>2. t.by \in Commands
  BY DEF IdentityInv, IdentityTypeOK, Transaction
<1>3. ContractInv' /\ KeepsIdentity
  BY <1>1, InvParts, ContractStays
<1>4. RunsKnowTheirOwn' /\ commands' \in [Commands -> Run \cup [pc : AtRest]]
  BY <1>1, <1>2, <1>3, EndsKeeps, RunsKept
<1>5. IdentityTypeOK'
  BY <1>1, <1>3, <1>4 DEF IdentityInv, IdentityTypeOK, ContractInv, ContractOK
<1> QED
  BY <1>1, <1>3, <1>4, <1>5, RecordKept DEF IdentityInv, ContractInv

LEMMA StepKeeps ==
  ASSUME IdentityInv, [IdentityNext]_identityVars
  PROVE  IdentityInv' /\ KeepsIdentity
<1>1. CASE UNCHANGED identityVars
  <2>1. UNCHANGED contract /\ UNCHANGED <<keyFile, funded, config, commands, sent>>
    BY <1>1 DEF identityVars, disk
  <2>2. ContractInv' /\ KeepsIdentity
    BY <2>1, InvParts, ContractStays
  <2>3. IdentityTypeOK'
    BY <2>1, <2>2 DEF IdentityInv, IdentityTypeOK, ContractInv, ContractOK
  <2> QED
    BY <2>1, <2>2, <2>3, RunsKept, RecordKept DEF IdentityInv, ContractInv
<1>2. CASE IdentityNext
  BY <1>2, OthersStep, NodeStep, RegisterStep, AskStep, ReadBackStep, SaveStep, FailStep,
     ExecutesStep, RevertsStep DEF IdentityNext
<1> QED
  BY <1>1, <1>2

LEMMA InitHolds ==
  IdentityInit => IdentityInv
<1> SUFFICES ASSUME IdentityInit PROVE IdentityInv
  OBVIOUS
<1>1. DOMAIN agents = {} /\ DOMAIN minted = {} /\ Len(minted) = Len(agents)
  BY DEF IdentityInit
<1>2. IdentityTypeOK
  BY DEF IdentityInit, IdentityTypeOK, AtRest
<1> QED
  BY <1>1, <1>2 DEF IdentityInit, IdentityInv, IndicesAgree, MintedStay, RunsKnowTheirOwn, RecordedIsOwn

-----------------------------------------------------------------------------
(* The theorems.                                                           *)

\* The invariant under all of them: the indices agree, what a node minted is still
\* its own, and so is the id its runs know and the one its configuration holds.
THEOREM IdentityInvariant == IdentitySpec => []IdentityInv
<1>1. IdentityInit => IdentityInv
  BY InitHolds
<1>2. IdentityInv /\ [IdentityNext]_identityVars => IdentityInv'
  BY StepKeeps
<1> QED
  BY <1>1, <1>2, PTL DEF IdentitySpec

\* Every variable keeps its type, transactions in flight included.
THEOREM IdentityTypeCorrect == IdentitySpec => []IdentityTypeOK
<1>1. IdentityInv => IdentityTypeOK
  BY DEF IdentityInv
<1> QED
  BY <1>1, IdentityInvariant, PTL

\* getAgent, resolveByDomain and resolveByAddress lead to one record.
THEOREM LookupsAgree == IdentitySpec => []IndicesAgree
<1>1. IdentityInv => IndicesAgree
  BY DEF IdentityInv
<1> QED
  BY <1>1, IdentityInvariant, PTL

\* A node mints one id at most: two it minted are both at its address, and the index
\* of addresses has room for one.
THEOREM MintsOnce == IdentitySpec => []RegistersOnce
<1>1. IdentityInv => RegistersOnce
  <2> SUFFICES ASSUME IdentityInv, NEW i \in DOMAIN minted, NEW j \in DOMAIN minted,
                      minted[i] = minted[j], minted[i] \in Nodes
               PROVE  i = j
    BY DEF RegistersOnce
  <2>1. i \in DOMAIN agents /\ j \in DOMAIN agents
    BY DEF IdentityInv, IdentityTypeOK, MintedStay
  <2>2. agents[i].agentAddress = agents[j].agentAddress
    BY DEF IdentityInv, MintedStay
  <2>3. idByAddress[agents[i].agentAddress] = i /\ idByAddress[agents[j].agentAddress] = j
    BY <2>1 DEF IdentityInv, IndicesAgree, GetAgent
  <2> QED
    BY <2>2, <2>3
<1> QED
  BY <1>1, IdentityInvariant, PTL

\* What config.yaml records is the id the contract gives the node's key.
THEOREM RecordedHolds == IdentitySpec => []RecordedIsOwn
<1>1. IdentityInv => RecordedIsOwn
  BY DEF IdentityInv
<1> QED
  BY <1>1, IdentityInvariant, PTL

\* No step of anybody takes a node's identity away.
THEOREM IdentityKept == IdentitySpec => NodesKeepIdentity
<1>1. IdentityInv /\ [IdentityNext]_identityVars => [KeepsIdentity]_identityVars
  BY StepKeeps
<1> QED
  BY <1>1, IdentityInvariant, PTL DEF IdentitySpec, NodesKeepIdentity
=============================================================================
