----------------------------- MODULE SampleRegistry -----------------------------
(***************************************************************************)
(* The fixture the website is styled against (scripts/sample-registry.mjs):*)
(* one node for every state its pages have to render.                      *)
(***************************************************************************)
EXTENDS Listings

\* What the fixture's offers have in common: metered, five-minute chunks, a
\* notebook and no SSH.
SampleOffer(price, perSecond, minutes, total, gpu, memory, cores, workspace) ==
  [payment_mode |-> "session", price_tinybars_per_minute |-> price,
   price_tinybars_per_second |-> perSecond, chunk_seconds |-> 300,
   min_minutes |-> minutes[1], max_minutes |-> minutes[2], max_total_minutes |-> total,
   ssh |-> FALSE, jupyter |-> TRUE, gpu |-> gpu,
   memory_mb |-> memory, cpu_cores |-> cores, workspace_gb |-> workspace]

SampleNode(url, model, vram, offer, paused, online) ==
  [beat |-> [url |-> url, paused |-> paused,
             gpu |-> [available |-> model # Absent, model |-> model, vram_mb |-> vram],
             leases |-> offer,
             identity |-> [agent_id |-> Absent, identity_registry |-> Absent],
             audit_topic |-> Absent],
   online |-> online]

AvailableNode ==
  SampleNode("http", "RTX 4090", 24564,
             SampleOffer(200000, 3334, <<15, 240>>, 1440, TRUE, 32768, 8, 64), FALSE, TRUE)

\* A card that a session cannot use.
NoCudaNode ==
  SampleNode("http", "RTX 3050", 4096,
             SampleOffer(60000, 1000, <<10, 120>>, 480, FALSE, 4096, 2, 16), FALSE, TRUE)

DataCenterNode ==
  SampleNode("https", "A100", 40960,
             SampleOffer(1500000, 25000, <<5, 120>>, 1440, TRUE, 131072, 16, 200), FALSE, TRUE)

\* A card that is advertised as none.
CpuNode ==
  SampleNode("http", Absent, Absent,
             SampleOffer(40000, 667, <<5, 120>>, 1440, FALSE, 8192, 4, 32), FALSE, TRUE)

PausedNode ==
  SampleNode("http", "RTX 3090", 24576,
             SampleOffer(750000, 12500, <<5, 120>>, 1440, TRUE, 16384, 8, 64), TRUE, TRUE)

OfflineNode ==
  SampleNode("http", "RTX 4070", 12282,
             SampleOffer(150000, 2500, <<5, 120>>, 1440, TRUE, 16384, 6, 64), FALSE, FALSE)

NODES == {AvailableNode, NoCudaNode, DataCenterNode, CpuNode, PausedNode, OfflineNode}

\* What the fixture is for: between them its nodes show every tag the listing can
\* carry, with and without a card and with one a session cannot use, and each of them
\* is a beat the real registry would accept.
ASSUME FixtureAssumption ==
  /\ {StatusTag(n) : n \in NODES} = {"available", "paused", "offline"}
  /\ {n.beat.gpu.available : n \in NODES} = BOOLEAN
  /\ {RentPage(n).specs.no_cuda : n \in NODES} = BOOLEAN
  /\ \A n \in NODES : HeartbeatSchema(n.beat)

=============================================================================
