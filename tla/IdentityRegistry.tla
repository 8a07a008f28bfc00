--------------------------- MODULE IdentityRegistry ---------------------------
(***************************************************************************)
(* A provider's identity: the contract that records it                     *)
(* (contracts/IdentityRegistry.sol), the signing sidecar that asks for it  *)
(* (hederakit) and the register command that writes it down                *)
(* (agent/cmd/cleargate-node).                                             *)
(*                                                                         *)
(* A command asks the contract whether its key has an id, and mints one or *)
(* confirms the one there is.  The answer may be stale by the time the     *)
(* transaction it leads to is executed, and a command that has given up    *)
(* does not take its transaction with it.  Commands of one node may        *)
(* overlap, its configuration may be lost, and the contract is open to     *)
(* anyone.                                                                 *)
(*                                                                         *)
(* A key is as good as the node that holds it: no other node has it, and a *)
(* node has one.                                                           *)
(***************************************************************************)
EXTENDS Integers, Sequences

CONSTANTS
  Nodes,      \* nodes, by the address of their operator key
  Others,     \* other addresses that call the contract
  Domains,    \* hosts a public_url may have
  Commands    \* runs of the register command, and the transaction each may send

Addresses == Nodes \cup Others

VARIABLES
  agents,       \* _agents: what the contract holds of ids 1, 2, ...
  idByDomain,   \* _idByDomainHash
  idByAddress,  \* _idByAddress
  minted,       \* who minted each id (history)
  keyFile,      \* per node, its key file: none, a key, or a key and its account
  funded,       \* nodes whose key has an account
  config,       \* per node, the agent id in its config.yaml, 0 for none
  commands,     \* where each run is, and its local variables
  sent          \* transactions the network has not executed

contract == <<agents, idByDomain, idByAddress, minted>>
disk == <<keyFile, funded, config>>
identityVars == <<contract, disk, commands, sent>>

AgentInfo == [agentDomain : Domains, agentAddress : Addresses]

\* agentId is 0 until the run knows one.
Run == [pc : {"asking", "minting", "updating", "reading", "saving"},
        node : Nodes, domain : Domains, agentId : Nat]

Transaction ==
  [by : Commands, from : Nodes, domain : Domains, call : {"newAgent", "updateAgent"}, agentId : Nat]

AtRest == {"unused", "done"}

IdentityTypeOK ==
  /\ agents \in Seq(AgentInfo)
  /\ idByDomain \in [Domains -> Nat]
  /\ idByAddress \in [Addresses -> Nat]
  /\ minted \in Seq(Addresses)
  /\ keyFile \in [Nodes -> {"absent", "key", "account"}]
  /\ funded \subseteq Nodes
  /\ config \in [Nodes -> Nat]
  /\ commands \in [Commands -> Run \cup [pc : AtRest]]
  /\ sent \subseteq Transaction

IdentityInit ==
  /\ agents = <<>>
  /\ idByDomain = [d \in Domains |-> 0]
  /\ idByAddress = [a \in Addresses |-> 0]
  /\ minted = <<>>
  /\ keyFile = [n \in Nodes |-> "absent"]
  /\ funded = {}
  /\ config = [n \in Nodes |-> 0]
  /\ commands = [c \in Commands |-> [pc |-> "unused"]]
  /\ sent = {}

---------------------------------------------------------------------------
(* The contract.  A call that reverts changes nothing and is no step of it. *)

NewAgent(from, domain, address) ==
  /\ address = from
  /\ domain # ""
  /\ idByDomain[domain] = 0
  /\ idByAddress[address] = 0
  /\ LET agentId == Len(agents) + 1 IN
       /\ agents' = Append(agents, [agentDomain |-> domain, agentAddress |-> address])
       /\ idByDomain' = [idByDomain EXCEPT ![domain] = agentId]
       /\ idByAddress' = [idByAddress EXCEPT ![address] = agentId]
  /\ minted' = Append(minted, from)

\* An index with an id moved from one key of it to another.
Moved(index, old, new, agentId) ==
  IF new = old THEN index ELSE [index EXCEPT ![old] = 0, ![new] = agentId]

UpdateAgent(from, agentId, domain, address) ==
  /\ agentId \in DOMAIN agents
  /\ LET a == agents[agentId] IN
       /\ a.agentAddress = from
       /\ domain # "" /\ address # "0x0"
       /\ domain # a.agentDomain => idByDomain[domain] = 0
       /\ address # a.agentAddress => idByAddress[address] = 0
       /\ idByDomain' = Moved(idByDomain, a.agentDomain, domain, agentId)
       /\ idByAddress' = Moved(idByAddress, a.agentAddress, address, agentId)
  /\ agents' = [agents EXCEPT ![agentId] = [agentDomain |-> domain, agentAddress |-> address]]
  /\ UNCHANGED minted

AgentIdOf(address) == idByAddress[address]

\* getAgent, resolveByDomain and resolveByAddress, where they do not revert.
GetAgent(agentId) == agents[agentId]
ResolveByDomain(domain) == agents[idByDomain[domain]]
ResolveByAddress(address) == agents[idByAddress[address]]

\* Anybody else, whatever they ask for.
OthersCall ==
  /\ \E from \in Others \ Nodes, domain \in Domains, address \in Addresses :
       \/ NewAgent(from, domain, address)
       \/ \E agentId \in DOMAIN agents : UpdateAgent(from, agentId, domain, address)
  /\ UNCHANGED <<disk, commands, sent>>

---------------------------------------------------------------------------
(* A node *)

\* A key that is not there is generated; one that is there is kept.
EnsureOperator(n) ==
  keyFile' = [keyFile EXCEPT ![n] = IF @ = "absent" THEN "key" ELSE @]

\* Setup makes the key, and may be run again.
Setup(n) ==
  /\ EnsureOperator(n)
  /\ UNCHANGED <<contract, funded, config, commands, sent>>

\* Somebody sends the key's address some HBAR.
Fund(n) ==
  /\ keyFile[n] # "absent"
  /\ funded' = funded \cup {n}
  /\ UNCHANGED <<contract, keyFile, config, commands, sent>>

LoseConfig(n) ==
  /\ config' = [config EXCEPT ![n] = 0]
  /\ UNCHANGED <<contract, keyFile, funded, commands, sent>>

Ends(c) == commands' = [commands EXCEPT ![c] = [pc |-> "done"]]

\* The register command: the host of public_url, then keygen, which also looks
\* the account up.  Without one the command ends.
Register(c, n, domain) ==
  /\ commands[c].pc = "unused"
  /\ domain # ""
  /\ EnsureOperator(n)
  /\ \/ /\ n \in funded
        /\ commands' = [commands EXCEPT ![c] =
             [pc |-> "asking", node |-> n, domain |-> domain, agentId |-> 0]]
     \/ /\ n \notin funded
        /\ Ends(c)
  /\ UNCHANGED <<contract, funded, config, sent>>

\* The account a signing client needs: remembered beside the key, or looked up
\* and then remembered.
ResolveOperator(n) ==
  /\ keyFile[n] = "account" \/ n \in funded
  /\ keyFile' = [keyFile EXCEPT ![n] = "account"]

Submit(c, call, agentId) ==
  sent' = sent \cup {[by |-> c, from |-> commands[c].node, domain |-> commands[c].domain,
                      call |-> call, agentId |-> agentId]}

\* identity-register up to its transaction: connect, ask, then mint or confirm.
AskIdentity(c) ==
  /\ commands[c].pc = "asking"
  /\ ResolveOperator(commands[c].node)
  /\ LET existing == AgentIdOf(commands[c].node) IN
       \/ /\ existing > 0
          /\ Submit(c, "updateAgent", existing)
          /\ commands' = [commands EXCEPT ![c].pc = "updating", ![c].agentId = existing]
       \/ /\ existing = 0
          /\ Submit(c, "newAgent", 0)
          /\ commands' = [commands EXCEPT ![c].pc = "minting"]
  /\ UNCHANGED <<contract, funded, config>>

\* The receipt reaches the command, if it still waits: a mint is read back, an
\* update needs no more.
Receipt(t) ==
  commands' =
    CASE commands[t.by].pc = "minting"  -> [commands EXCEPT ![t.by].pc = "reading"]
      [] commands[t.by].pc = "updating" -> [commands EXCEPT ![t.by].pc = "saving"]
      [] OTHER -> commands

Executes(t) ==
  /\ \/ t.call = "newAgent" /\ NewAgent(t.from, t.domain, t.from)
     \/ t.call = "updateAgent" /\ UpdateAgent(t.from, t.agentId, t.domain, t.from)
  /\ Receipt(t)
  /\ sent' = sent \ {t}
  /\ UNCHANGED disk

\* It reverts, or the network never takes it.
Reverts(t) ==
  /\ \/ commands[t.by].pc \in {"minting", "updating"} /\ Ends(t.by)
     \/ commands[t.by].pc \notin {"minting", "updating"} /\ UNCHANGED commands
  /\ sent' = sent \ {t}
  /\ UNCHANGED <<contract, disk>>

\* newAgent asks for the id its transaction minted; 0 is no answer.
ReadBack(c) ==
  /\ commands[c].pc = "reading"
  /\ LET agentId == AgentIdOf(commands[c].node) IN
       \/ /\ agentId # 0
          /\ commands' = [commands EXCEPT ![c].pc = "saving", ![c].agentId = agentId]
       \/ agentId = 0 /\ Ends(c)
  /\ UNCHANGED <<contract, disk, sent>>

Save(c) ==
  /\ commands[c].pc = "saving"
  /\ config' = [config EXCEPT ![commands[c].node] = commands[c].agentId]
  /\ Ends(c)
  /\ UNCHANGED <<contract, keyFile, funded, sent>>

\* A timeout, a network error, a disk that is full, or the provider's ctrl-c.
CommandFails(c) ==
  /\ commands[c].pc \notin AtRest
  /\ Ends(c)
  /\ UNCHANGED <<contract, disk, sent>>

IdentityNext ==
  \/ OthersCall
  \/ \E n \in Nodes : Setup(n) \/ Fund(n) \/ LoseConfig(n)
  \/ \E c \in Commands :
       \/ \E n \in Nodes, domain \in Domains : Register(c, n, domain)
       \/ AskIdentity(c) \/ ReadBack(c) \/ Save(c) \/ CommandFails(c)
  \/ \E t \in sent : Executes(t) \/ Reverts(t)

IdentitySpec == IdentityInit /\ [][IdentityNext]_identityVars

---------------------------------------------------------------------------
(* Properties *)

\* The three lookups lead to one record: by its id, by its domain and by its
\* address, however agents have moved over each other's old names since.
IndicesAgree ==
  /\ \A i \in DOMAIN agents :
       /\ idByDomain[GetAgent(i).agentDomain] = i
       /\ idByAddress[GetAgent(i).agentAddress] = i
  /\ \A d \in Domains : idByDomain[d] # 0 =>
       idByDomain[d] \in DOMAIN agents /\ ResolveByDomain(d).agentDomain = d
  /\ \A a \in Addresses : idByAddress[a] # 0 =>
       idByAddress[a] \in DOMAIN agents /\ ResolveByAddress(a).agentAddress = a

\* A node mints one id at most, however many runs of the command overlap, time out
\* or start over without the configuration (register.go:97).
RegistersOnce ==
  \A i, j \in DOMAIN minted : minted[i] = minted[j] /\ minted[i] \in Nodes => i = j

\* The id in a node's configuration is the one the contract gives its key
\* (register.go:121).
RecordedIsOwn ==
  \A n \in Nodes : config[n] # 0 =>
    config[n] \in DOMAIN agents /\ GetAgent(config[n]).agentAddress = n

\* Nobody revokes a node's identity or takes it over: an id that is a node's stays
\* that node's (IdentityRegistry.sol:13).
KeepsIdentity ==
  \A i \in DOMAIN agents : agents[i].agentAddress \in Nodes =>
    i \in DOMAIN agents' /\ agents'[i].agentAddress = agents[i].agentAddress

NodesKeepIdentity == [][KeepsIdentity]_identityVars
=============================================================================
