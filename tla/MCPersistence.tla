--------------------------- MODULE MCPersistence ----------------------------
(***************************************************************************)
(* Instances for TLC of the parts of an agent that live in its directory   *)
(* and outlive its process: the runner with its replays, the memory store  *)
(* and its migration, the evolving strategy, the wallet, and the artifacts.*)
(*                                                                         *)
(* A behaviour is one part's, chosen at the start, and every other part    *)
(* stays in one of its initial states.                                     *)
(***************************************************************************)
EXTENDS AgentRunner, MemoryStore, Migration, Evolution, WalletVault, ArtifactSet

VARIABLE part

Parts == {"runner", "memory", "migration", "strategy", "wallet", "artifacts"}

persistVars ==
  <<part, vars, memoryVars, migrationVars, evolutionVars, vaultVars, artifactVars>>

\* `part # ...` says where a part that does not move starts.
PersistInit ==
  /\ part \in Parts
  /\ Init
  /\ MemoryInit    /\ (part # "memory" => backend = "memory")
  /\ MigrationInit
  /\ part # "migration" => /\ mainFile = table /\ \A r \in Rows : table[r] # NoRow
                           /\ contract = (CHOOSE c \in Contracts : TRUE)
  /\ EvolutionInit
  /\ VaultInit     /\ (part # "wallet" => ~installed)
  /\ ArtifactInit

OthersThanRunner == UNCHANGED <<part, memoryVars, migrationVars, evolutionVars, vaultVars, artifactVars>>

RunnerMoves    == part = "runner"    /\ Next          /\ OthersThanRunner
MemoryMoves    == part = "memory"    /\ MemoryNext    /\ UNCHANGED <<part, vars, migrationVars, evolutionVars, vaultVars, artifactVars>>
MigrationMoves == part = "migration" /\ MigrationNext /\ UNCHANGED <<part, vars, memoryVars, evolutionVars, vaultVars, artifactVars>>
StrategyMoves  == part = "strategy"  /\ EvolutionNext /\ UNCHANGED <<part, vars, memoryVars, migrationVars, vaultVars, artifactVars>>
WalletMoves    == part = "wallet"    /\ VaultNext     /\ UNCHANGED <<part, vars, memoryVars, migrationVars, evolutionVars, artifactVars>>
ArtifactsMove  == part = "artifacts" /\ ArtifactNext  /\ UNCHANGED <<part, vars, memoryVars, migrationVars, evolutionVars, vaultVars>>

PersistNext ==
  RunnerMoves \/ MemoryMoves \/ MigrationMoves \/ StrategyMoves \/ WalletMoves \/ ArtifactsMove

\* The fairness is the runner's.
PersistSpec ==
  /\ PersistInit /\ [][PersistNext]_persistVars
  /\ WF_persistVars(part = "runner" /\ RunnerStep /\ OthersThanRunner)

\* Each part's variables have their types, and run() makes no tick too many.
PersistInv ==
  /\ TypeOK /\ MemoryTypeOK /\ MigrationTypeOK
  /\ EvolutionTypeOK /\ VaultTypeOK /\ ArtifactTypeOK
  /\ TicksBounded
=============================================================================
