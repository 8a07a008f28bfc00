-------------------------------- MODULE Listings --------------------------------
(***************************************************************************)
(* What a node says of itself and what its readers make of it: the         *)
(* heartbeat the registry accepts and stores, the listing it hands back,   *)
(* the provider view an agent reads, the pages a person reads, and the     *)
(* search an MCP client runs.  All of it is derived on every read, by      *)
(* four programs that share one row.                                       *)
(*                                                                         *)
(* A field nobody sent, a JSON null and an SQL NULL are all Absent.        *)
(***************************************************************************)
EXTENDS Integers, FiniteSets

CONSTANTS
  Absent,         \* an optional field left out
  NvidiaModels,   \* card names the vendor pattern recognises
  OtherModels,    \* card names it does not
  OnlineWindow    \* ONLINE_WINDOW_SECONDS, in clock ticks

ASSUME WindowAssumption == OnlineWindow \in Nat \ {0}
ASSUME ModelAssumption == NvidiaModels \cap OtherModels = {} /\ Absent \notin NvidiaModels \cup OtherModels

\* What is shown for no card is no card's name, and a field left out is no value of it.
ASSUME AbsentAssumption ==
  /\ "no card" \notin {Absent} \cup NvidiaModels \cup OtherModels
  /\ Absent \notin [agent : Nat, link : {Absent, "contract"}]

---------------------------------------------------------------------------
(* The shared types *)

Maybe(S) == S \cup {Absent}

GpuInfo ==
  [available : BOOLEAN, model : Maybe(NvidiaModels \cup OtherModels), vram_mb : Maybe(Nat)]

LeaseOffer ==
  [payment_mode : Maybe({"session", "direct"}), price_tinybars_per_minute : Nat,
   price_tinybars_per_second : Maybe(Nat), chunk_seconds : Maybe(Nat),
   min_minutes : Nat, max_minutes : Nat, max_total_minutes : Nat,
   ssh : BOOLEAN, jupyter : BOOLEAN, gpu : BOOLEAN,
   memory_mb : Nat, cpu_cores : Nat, workspace_gb : Nat]

\* The identity fields an unregistered node leaves out, and 0 for "unregistered".
ProviderIdentity == [agent_id : Maybe(Nat), identity_registry : Maybe({"contract"})]

\* The description a node sends, url being the scheme of its public_url.
NodeHeartbeat ==
  [url : {"http", "https", "javascript"}, paused : BOOLEAN, gpu : GpuInfo,
   leases : Maybe(LeaseOffer), identity : ProviderIdentity, audit_topic : Maybe({"topic"})]

NodeListing == [beat : NodeHeartbeat, online : BOOLEAN]

---------------------------------------------------------------------------
(* The registry's boundary, and its one derived column *)

LeasesSchema(offer) ==
  /\ offer.min_minutes \in 1..10080 /\ offer.max_minutes \in 1..10080
  /\ offer.max_total_minutes \in 1..525600
  /\ offer.memory_mb \in 1..10000000 /\ offer.cpu_cores \in 1..1024
  /\ offer.workspace_gb \in 0..1000000

\* The lengths of a chunk: up to a day. An older node's offer names no chunk.
ChunkLengths == 1..86400

ChunkSchema(seconds) == seconds # Absent => seconds \in ChunkLengths

HeartbeatSchema(beat) ==
  /\ beat.url \in {"http", "https"}
  /\ beat.gpu.vram_mb # Absent => beat.gpu.vram_mb <= 1000000
  /\ beat.leases # Absent => LeasesSchema(beat.leases) /\ ChunkSchema(beat.leases.chunk_seconds)

\* Mutant of StoredBeat: the sentinel stored like an id.
StoredBeatWithZero(beat) == beat

\* 0 is the contract's "unregistered" sentinel and is kept as NULL.
StoredBeat(beat) == [beat EXCEPT !.identity.agent_id = IF @ = 0 THEN Absent ELSE @]

\* Mutant of IsOnline: only a goodbye takes a node off.
IsOnlineUntilWithdrawn(row) == ~ row.withdrawn

\* age is the time since last_seen_at.
IsOnline(row) == ~ row.withdrawn /\ row.age < OnlineWindow

ToListing(row) == [beat |-> row.beat, online |-> IsOnline(row)]

---------------------------------------------------------------------------
(* The agent-facing view *)

GpuVendor(model) == IF model \in NvidiaModels THEN "NVIDIA" ELSE Absent

Metered(beat) == beat.leases # Absent /\ beat.leases.payment_mode = "session"

CapabilitiesOf(beat) ==
  {"docker", "x402"}
    \cup {c \in {"cuda"} : beat.gpu.available}
    \cup {c \in {"ssh"} : beat.leases # Absent /\ beat.leases.ssh}
    \cup {c \in {"jupyter"} : beat.leases # Absent /\ beat.leases.jupyter}
    \cup {c \in {"refundable"} : Metered(beat)}
    \cup {c \in {"hcs-audit"} : beat.audit_topic # Absent}

StatusOf(node) ==
  IF ~ node.online THEN "offline" ELSE IF node.beat.paused THEN "paused" ELSE "online"

\* What a provider view says; an id of 0 is nobody's.
ProviderView ==
  [agent_id : Maybe(Nat \ {0}), vendor : Maybe({"NVIDIA"}),
   capabilities : SUBSET {"docker", "x402", "cuda", "ssh", "jupyter", "refundable", "hcs-audit"},
   per_second : Maybe(Nat), refundable : BOOLEAN, chunk_seconds : Maybe(Nat \ {0}),
   status : {"online", "paused", "offline"}]

ToProviderView(node) ==
  [agent_id |-> node.beat.identity.agent_id,
   vendor |-> GpuVendor(node.beat.gpu.model),
   capabilities |-> CapabilitiesOf(node.beat),
   per_second |-> IF node.beat.leases = Absent THEN Absent
                  ELSE node.beat.leases.price_tinybars_per_second,
   refundable |-> Metered(node.beat),
   chunk_seconds |-> IF Metered(node.beat) THEN node.beat.leases.chunk_seconds ELSE Absent,
   status |-> StatusOf(node)]

---------------------------------------------------------------------------
(* The website *)

StatusTag(node) ==
  CASE ~ node.online                       -> "offline"
    [] node.online /\ node.beat.paused     -> "paused"
    [] node.online /\ ~ node.beat.paused   -> "available"

\* The price cell: what it says, and whether it links to the rent page.
Price(node) ==
  [terms |-> CASE node.beat.leases = Absent -> "not selling"
               [] Metered(node.beat) -> "metered"
               [] OTHER -> "older build",
   rent_link |-> Metered(node.beat) /\ node.online]

\* The card, as both pages name it; a memory size that was not sent is Absent,
\* and what a page calls a node without a card is wording.
Gpu(node) ==
  IF node.beat.gpu.available
  THEN [card |-> node.beat.gpu.model, vram_mb |-> node.beat.gpu.vram_mb]
  ELSE [card |-> "no card", vram_mb |-> Absent]

\* The registry contract to look the agent id up in; nothing for an
\* unregistered node.
Identity(node) ==
  IF node.beat.identity.agent_id \in {Absent, 0} THEN Absent
  ELSE [agent |-> node.beat.identity.agent_id, link |-> node.beat.identity.identity_registry]

Container(node) ==
  IF node.beat.leases = Absent THEN Absent
  ELSE [cpu_cores |-> node.beat.leases.cpu_cores, memory_mb |-> node.beat.leases.memory_mb,
        workspace_gb |-> node.beat.leases.workspace_gb]

NodeRow(node) ==
  [status |-> StatusTag(node), price |-> Price(node), gpu |-> Gpu(node), container |-> Container(node)]

NodeCard(node) ==
  [status |-> StatusTag(node), price |-> Price(node), gpu |-> Gpu(node), container |-> Container(node),
   identity |-> Identity(node)]

\* The eyebrow's counts and the rows and cards under it.
NodesPage(nodes) ==
  [listed |-> Cardinality(nodes), online |-> Cardinality({n \in nodes : n.online}),
   rows |-> {NodeRow(n) : n \in nodes}, cards |-> {NodeCard(n) : n \in nodes}]

\* Which of its four faces the rent flow shows, tried in the code's order.
RentFlow(node) ==
  IF node.beat.leases = Absent THEN "not selling"
  ELSE IF ~ node.online THEN "offline"
  ELSE IF node.beat.leases.payment_mode # "session" THEN "older build"
  ELSE "session form"

\* The specification list beside the flow: it warns that a lease cannot compute
\* on the host's card, and names the rate and the chunk of an offer.
Specs(node) ==
  [gpu |-> Gpu(node),
   no_cuda |-> node.beat.leases # Absent /\ node.beat.gpu.available /\ ~ node.beat.leases.gpu,
   rate |-> IF node.beat.leases = Absent THEN Absent ELSE node.beat.leases.price_tinybars_per_second,
   container |-> Container(node)]

RentPage(node) ==
  [eyebrow |-> IF node.online THEN "Online" ELSE "Offline", specs |-> Specs(node), flow |-> RentFlow(node)]

---------------------------------------------------------------------------
(* The MCP search tool, over the registry's online nodes *)

ListOnlineNodes(nodes) == {n \in nodes : n.online}

SearchComputeNodes(nodes, requireGpu, maxPrice) ==
  {n \in ListOnlineNodes(nodes) :
     /\ Metered(n.beat)
     /\ requireGpu => n.beat.leases.gpu
     /\ maxPrice # Absent =>
          /\ n.beat.leases.price_tinybars_per_second # Absent
          /\ n.beat.leases.price_tinybars_per_second <= maxPrice}

=============================================================================
