----------------------------- MODULE MCServing ------------------------------
(***************************************************************************)
(* Instances for TLC of the parts of an agent that stand between it and    *)
(* others: what it serves (A2A tasks, the payment gate), what it asks for  *)
(* (data, MCP tools, models) and what it trades through (orders, spending  *)
(* controls, the routers of the crypto package).                           *)
(*                                                                         *)
(* They share no state, so a behaviour is one part's, chosen at the start, *)
(* and every other part stays in one of its initial states.                *)
(***************************************************************************)
EXTENDS A2ATaskStore, X402Gate, LiveOrders, SpendControls,
        DataRouting, McpStdio, ModelCalls, CryptoRouting, AgentRegistry

VARIABLE part

controlPart == {"budget", "bucket", "key"}
dataPart    == {"fetch", "stream"}
registryPart == {"agents", "peers"}
Parts == {"tasks", "gate", "orders", "mcp", "models", "routers"} \union controlPart \union dataPart
         \union registryPart

servingVars ==
  <<part, vars, gateVars, orderVars, controlVars, dataVars, mcpVars, modelVars, cryptoVars, registryVars>>

\* The second half of a conjunct: the initial state of a part that does not move.
ServingInit ==
  /\ part \in Parts
  /\ Init
  /\ GateInit     /\ (part # "gate" => verifier = "onchain" /\ purse = "ows")
  /\ OrdersInit   /\ (part # "orders" => routerMode = "paper" /\ dryRun)
  /\ ControlsInit /\ (part # "budget" => level = "paper") /\ (part # "key" => key.chains = {})
  /\ DataInit     /\ (part # "fetch" => chain = (CHOOSE s \in Orders : TRUE) /\ spent = 0
                                         /\ \A s \in Sources : offers[s] = {})
  /\ McpInit
  /\ ModelInit    /\ (part # "models" => toolMode = "off" /\ ~recalled /\ ~spiking
                                          /\ declared = (CHOOSE m \in Manifests : TRUE) /\ inputs = {})
  /\ CryptoInit   /\ (part # "routers" => top = 1)
  /\ RegistryInit

TasksMove ==
  /\ part = "tasks" /\ Next
  /\ UNCHANGED <<part, gateVars, orderVars, controlVars, dataVars, mcpVars, modelVars, cryptoVars, registryVars>>
GateMoves ==
  /\ part = "gate" /\ GateNext
  /\ UNCHANGED <<part, vars, orderVars, controlVars, dataVars, mcpVars, modelVars, cryptoVars, registryVars>>
OrdersMove ==
  /\ part = "orders" /\ OrdersNext
  /\ UNCHANGED <<part, vars, gateVars, controlVars, dataVars, mcpVars, modelVars, cryptoVars, registryVars>>
McpMoves ==
  /\ part = "mcp" /\ McpNext
  /\ UNCHANGED <<part, vars, gateVars, orderVars, controlVars, dataVars, modelVars, cryptoVars, registryVars>>
ModelMoves ==
  /\ part = "models" /\ ModelNext
  /\ UNCHANGED <<part, vars, gateVars, orderVars, controlVars, dataVars, mcpVars, cryptoVars, registryVars>>
CryptoMoves ==
  /\ part = "routers" /\ CryptoNext
  /\ UNCHANGED <<part, vars, gateVars, orderVars, controlVars, dataVars, mcpVars, modelVars, registryVars>>

ControlsMove ==
  /\ \/ part = "budget" /\ BudgetNext
     \/ part = "bucket" /\ BucketNext
     \/ part = "key"    /\ KeyNext
  /\ UNCHANGED <<part, vars, gateVars, orderVars, dataVars, mcpVars, modelVars, cryptoVars, registryVars>>

DataMoves ==
  /\ \/ part = "fetch"  /\ (FetchNext \/ Restart)
     \/ part = "stream" /\ StreamNext
  /\ UNCHANGED <<part, vars, gateVars, orderVars, controlVars, mcpVars, modelVars, cryptoVars, registryVars>>

RegistryMoves ==
  /\ \/ part = "agents" /\ AgentsNext
     \/ part = "peers"  /\ PeersNext
  /\ UNCHANGED <<part, vars, gateVars, orderVars, controlVars, dataVars, mcpVars, modelVars, cryptoVars>>

ServingNext ==
  TasksMove \/ GateMoves \/ OrdersMove \/ McpMoves \/ ModelMoves \/ CryptoMoves \/ ControlsMove \/ DataMoves
  \/ RegistryMoves

ServingSpec == ServingInit /\ [][ServingNext]_servingVars

\* Each part's variables have their types, and each of the parts that bounds something
\* keeps its bound: the task store (_TaskStore.is_full), the token bucket (RateLimiter), the
\* retries of a request (_request_with_retry, _with_retry); the paper exchange's books agree; the
\* registry says of agents and peers what happened to them.
ServingInv ==
  /\ TypeOK /\ GateTypeOK /\ OrdersTypeOK /\ ControlsTypeOK
  /\ DataTypeOK /\ McpTypeOK /\ ModelTypeOK /\ CryptoTypeOK /\ RegistryTypeOK
  /\ StoreBounded /\ BurstBounded /\ RetriesBounded /\ PaperBooksAgree
  /\ RegistryExact /\ ScoresKept
=============================================================================
