--------------------------- MODULE AgentRegistry ----------------------------
(***************************************************************************)
(* The registry of a user's agents and of the peers they met               *)
(* (agent_registry.py), with the commands that write it (cli.py): fast     *)
(* generation, agent-remove, agent-register, agent-discover.  Every        *)
(* command opens the same database, so two of them interleave; one         *)
(* agent-register is followed from its read to its last write.             *)
(*                                                                         *)
(* An agent's id is its number: generation draws a new one each time, also *)
(* for a directory that has been generated before.  The contract and the   *)
(* OWS library are external.                                               *)
(***************************************************************************)
EXTENDS Integers, FiniteSets

CONSTANTS
  Directories,   \* directories that agents are generated in
  Holders,       \* addresses that hold agents on chain
  Minted,        \* numbers the contract has minted; others revert
  PublicRpcs,    \* BASE_RPCS
  PrivateRpc,    \* an endpoint the user names
  MaxAgents,     \* bound: ids drawn
  MaxMints       \* bound: registrations of one agent that reach the chain

ASSUME RegistryAssumption ==
  /\ PrivateRpc \notin PublicRpcs
  /\ Minted \subseteq Nat
  /\ MaxAgents \in Nat /\ MaxMints \in Nat

VARIABLES
  agentRows,   \* the table agents: status and output_dir of each id
  walletOf,    \* wallet.json of each directory: none, simulated or ows
  lastId,      \* the last id drawn
  onchain,     \* the agent-register under way: what it read, and where it is
  peerRows,    \* the table agent_peers: capabilities known, scored, name
  mints,       \* ghost: registrations of each id that were broadcast
  hashes,      \* ghost: ids whose submission was answered with a hash
  removed,     \* ghost: ids agent-remove archived
  scored       \* ghost: peers that were given a trust score

agentVars == <<agentRows, walletOf, lastId, onchain, mints, hashes, removed>>
peerVars  == <<peerRows, scored>>
registryVars == <<agentVars, peerVars>>

Ids == 1 .. MaxAgents
NoRow == [status |-> "none", dir |-> "none"]
NoCommand == [at |-> "idle", id |-> 0, dir |-> "none"]
NoHolder == "unknown"   \* the empty address agent_info puts for a lookup that failed
Peers == Holders \union {NoHolder}
NoPeer == [met |-> FALSE, name |-> 0, capable |-> FALSE, score |-> FALSE]

RegistryTypeOK ==
  /\ agentRows \in [Ids -> [status : {"none", "active", "registered", "archived"},
                            dir : Directories \union {"none"}]]
  /\ walletOf \in [Directories -> {"none", "simulated", "ows"}]
  /\ lastId \in 0 .. MaxAgents
  /\ onchain \in [at : {"idle", "send", "mark"}, id : 0 .. MaxAgents, dir : Directories \union {"none"}]
  /\ peerRows \in [Peers -> [met : BOOLEAN, name : Nat, capable : BOOLEAN, score : BOOLEAN]]
  /\ mints \in [Ids -> 0 .. MaxMints] /\ hashes \subseteq Ids /\ removed \subseteq Ids
  /\ scored \subseteq Peers

\* The tables are created empty.
RegistryInit ==
  /\ agentRows = [a \in Ids |-> NoRow]
  /\ walletOf = [d \in Directories |-> "none"]
  /\ lastId = 0
  /\ onchain = NoCommand
  /\ peerRows = [h \in Peers |-> NoPeer]
  /\ mints = [a \in Ids |-> 0] /\ hashes = {} /\ removed = {} /\ scored = {}

-----------------------------------------------------------------------------
(* The table agents *)

Listed(id) == agentRows[id].status # "none"

\* register: a new row is active, an existing one keeps its status.
Registered(id, dir) ==
  [agentRows EXCEPT ![id] = [status |-> IF Listed(id) THEN @.status ELSE "active", dir |-> dir]]

\* update_status: no row, no change.
WithStatus(id, status) ==
  [agentRows EXCEPT ![id].status = IF Listed(id) THEN status ELSE @]

\* generate-fast: a new id, with or without a wallet.  It is not registered with --no-registry
\* or when the registry fails; the row of an agent that was there before stays.
Generate(dir) ==
  /\ lastId < MaxAgents
  /\ lastId' = lastId + 1
  /\ \E wallet \in {walletOf[dir], "simulated", "ows"} : walletOf' = [walletOf EXCEPT ![dir] = wallet]
  /\ agentRows' \in {agentRows, Registered(lastId + 1, dir)}
  /\ UNCHANGED <<onchain, mints, hashes, removed>>

\* A host that registers a known id again, from where the directory is now.
RegisterAgain(id, dir) ==
  /\ Listed(id)
  /\ agentRows' = Registered(id, dir)
  /\ UNCHANGED <<walletOf, lastId, onchain, mints, hashes, removed>>

\* agent-remove archives, in whatever state the agent is.
RemoveAgent(id) ==
  /\ Listed(id)
  /\ agentRows' = WithStatus(id, "archived")
  /\ removed' = removed \union {id}
  /\ UNCHANGED <<walletOf, lastId, onchain, mints, hashes>>

-----------------------------------------------------------------------------
(* agent-register *)

\* The row is read, archived or not; a directory without a wallet ends the command.
ReadForChain(id) ==
  /\ onchain = NoCommand
  /\ Listed(id) /\ walletOf[agentRows[id].dir] # "none"
  /\ onchain' = [at |-> "send", id |-> id, dir |-> agentRows[id].dir]
  /\ UNCHANGED <<agentRows, walletOf, lastId, mints, hashes, removed>>

\* sign_and_send with the wallet the directory has by now.  A simulated one answers with a hash
\* and sends nothing; an answer without a hash, or an error, ends the command, whether or not
\* the transaction went out.
Submit ==
  /\ onchain.at = "send"
  /\ \/ walletOf[onchain.dir] = "simulated" /\ UNCHANGED mints
        /\ onchain' = [onchain EXCEPT !.at = "mark"] /\ hashes' = hashes \union {onchain.id}
     \/ walletOf[onchain.dir] = "ows" /\ mints[onchain.id] < MaxMints
        /\ mints' = [mints EXCEPT ![onchain.id] = @ + 1]
        /\ \/ onchain' = [onchain EXCEPT !.at = "mark"] /\ hashes' = hashes \union {onchain.id}
           \/ onchain' = NoCommand /\ UNCHANGED hashes
     \/ walletOf[onchain.dir] = "ows" /\ onchain' = NoCommand /\ UNCHANGED <<mints, hashes>>
  /\ UNCHANGED <<agentRows, walletOf, lastId, removed>>

\* The status is set without another look at the row; a failure to is passed over.
MarkRegistered ==
  /\ onchain.at = "mark"
  /\ agentRows' \in {agentRows, WithStatus(onchain.id, "registered")}
  /\ onchain' = NoCommand
  /\ UNCHANGED <<walletOf, lastId, mints, hashes, removed>>

-----------------------------------------------------------------------------
(* The table agent_peers and agent-discover *)

\* _eth_call: a public endpoint is followed by the other public ones, a private one by none.
RpcAnswers(rpc, up) == rpc \in up \/ (rpc \in PublicRpcs /\ PublicRpcs \intersect up # {})

\* agent_info: whoever holds the number now, as it can be transferred; a lookup that reverts or
\* fails leaves the empty address.
HoldersSeen(n, rpc, up) == IF n \in Minted /\ RpcAnswers(rpc, up) THEN Holders ELSE {NoHolder}

\* upsert_peer: a name or score that is not given keeps the old one (COALESCE), the
\* capabilities are always overwritten.
PeerRow(h, name, capable, score) ==
  [met |-> TRUE, name |-> IF name = 0 THEN peerRows[h].name ELSE name,
   capable |-> capable, score |-> score \/ peerRows[h].score]

\* The contract's name is asked first, and without an answer the command ends.  The holder is
\* then recorded with no capabilities and no score.
Discover(n) ==
  \E rpc \in PublicRpcs \union {PrivateRpc}, upFirst, up \in SUBSET (PublicRpcs \union {PrivateRpc}) :
    /\ RpcAnswers(rpc, upFirst)
    /\ \E h \in HoldersSeen(n, rpc, up) : peerRows' = [peerRows EXCEPT ![h] = PeerRow(h, n, FALSE, FALSE)]
    /\ UNCHANGED scored

\* A host that records a peer it met over A2A.
MeetPeer(h) ==
  \E name \in {0} \union Minted, capable, score \in BOOLEAN :
    /\ peerRows' = [peerRows EXCEPT ![h] = PeerRow(h, name, capable, score)]
    /\ scored' = IF score THEN scored \union {h} ELSE scored

AgentsNext ==
  /\ \/ \E d \in Directories : Generate(d)
     \/ \E id \in Ids, d \in Directories : RegisterAgain(id, d)
     \/ \E id \in Ids : RemoveAgent(id) \/ ReadForChain(id)
     \/ Submit
     \/ MarkRegistered
  /\ UNCHANGED peerVars

PeersNext ==
  /\ \/ \E n \in Minted \union {0} : Discover(n)
     \/ \E h \in Holders : MeetPeer(h)
  /\ UNCHANGED agentVars

-----------------------------------------------------------------------------
(* Properties *)

\* A row says "registered" only of an agent whose submission was answered with a hash, an agent
\* that was removed is never active again, by generation or by a second register(), and
\* nothing is sent for an agent that has no row.
RegistryExact ==
  /\ \A a \in Ids : agentRows[a].status = "registered" => a \in hashes
  /\ \A a \in removed : agentRows[a].status # "active"
  /\ \A a \in Ids : agentRows[a].status = "none" => mints[a] = 0 /\ a \notin hashes

\* A trust score is never lost to a later discovery of the same peer.
ScoresKept == \A h \in scored : peerRows[h].score
=============================================================================
