----------------------------- MODULE MCNodeRegistry -----------------------------
(* Two nodes set up under one name.  A tick is the thirty seconds between     *)
(* beats, and a node is online for three.  What they say of                   *)
(* themselves is taken from the sample registry's nodes: a card for rent,     *)
(* with an agent id; a paused one that sends the id 0; one that sells by the  *)
(* old terms; and one whose public_url the schema refuses.                    *)
EXTENDS NodeRegistry, SampleRegistry

MCIdOf == [a \in Announcers |-> CHOOSE i \in NodeIds : TRUE]

MCDescriptions ==
  [a \in Announcers |->
     IF a = CHOOSE b \in Announcers : TRUE
     THEN {[AvailableNode.beat EXCEPT !.identity.agent_id = 7],
           [PausedNode.beat EXCEPT !.identity.agent_id = 0]}
     ELSE {[CpuNode.beat EXCEPT !.leases.payment_mode = "direct"],
           [NoCudaNode.beat EXCEPT !.url = "javascript"]}]
=============================================================================
