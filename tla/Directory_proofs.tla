-------------------------- MODULE Directory_proofs --------------------------
(***************************************************************************)
(* Theorems about the rest of an agent's directory, WalletVault and        *)
(* ArtifactSet, and about all of its parts together, as MCPersistence      *)
(* composes them.                                                          *)
(*                                                                         *)
(* A wallet that was named can be had again; the artifacts that are left   *)
(* behind load, and are the best so far; and a behaviour of the            *)
(* composition is one of every part, so that what is proved of a part      *)
(* holds in it.                                                            *)
(***************************************************************************)
EXTENDS AgentRunner_proofs, Records_proofs, MCPersistence

-----------------------------------------------------------------------------
(* WalletVault *)

Provisioning == {"import", "clear", "retry", "key", "env", "chmod", "ignore", "harden", "show"}
JobPlaces == Provisioning \union {"idle", "save", "lock", "seal"}

Jobs == [at : JobPlaces, wallet : 0 .. MaxWallets, key : BOOLEAN, file : SUBSET Backups]

VaultTypes ==
  /\ vault \in 0 .. MaxWallets /\ made \in 0 .. MaxWallets
  /\ job \in Jobs
  /\ job.at \in Provisioning => job.wallet # 0
  /\ exports \subseteq Backups
  /\ shown \subseteq Wallets /\ named \subseteq Wallets /\ cut \subseteq Wallets

\* The words of a wallet that wallet.json has named were shown, or will be, or the command
\* that would have was cut short: the vault and the backups are not needed to have it again.
NamedAreShown ==
  named \subseteq shown \union cut \union
    (IF job.at \in {"env", "chmod", "ignore", "harden", "show"} THEN {job.wallet} ELSE {})

VaultInv == VaultTypes /\ NamedAreShown

LEMMA JobAt ==
  ASSUME NEW at \in JobPlaces, NEW j \in Jobs
  PROVE  [j EXCEPT !.at = at] \in Jobs /\ [j EXCEPT !.at = at].at = at /\ [j EXCEPT !.at = at].wallet = j.wallet
  BY DEF Jobs

LEMMA JobAtKey ==
  ASSUME NEW at \in JobPlaces, NEW key \in BOOLEAN, NEW j \in Jobs
  PROVE  [j EXCEPT !.at = at, !.key = key] \in Jobs /\ [j EXCEPT !.at = at, !.key = key].at = at
  BY DEF Jobs

LEMMA JobAtFile ==
  ASSUME NEW at \in JobPlaces, NEW file \in SUBSET Backups, NEW j \in Jobs
  PROVE  [j EXCEPT !.at = at, !.file = file] \in Jobs /\ [j EXCEPT !.at = at, !.file = file].at = at
  BY DEF Jobs

LEMMA BackupsTyped ==
  ASSUME NEW b \in Backups
  PROVE  [b EXCEPT !.open = FALSE] \in Backups /\ [b EXCEPT !.sealed = TRUE] \in Backups
  BY DEF Backups

LEMMA LockedTyped == exports \subseteq Backups => Locked(exports) \subseteq Backups
  BY BackupsTyped DEF Locked

LEMMA NoJobTyped == NoJob \in Jobs /\ NoJob.at = "idle" /\ NoJob.wallet = 0
  BY VaultAssumption DEF NoJob, Jobs, JobPlaces

LEMMA VaultInitially == VaultInit => VaultInv
<1> SUFFICES ASSUME VaultInit PROVE VaultInv
  OBVIOUS
<1>1. job \in Jobs /\ job.at = "idle"
  BY NoJobTyped DEF VaultInit
<1> QED
  BY <1>1, VaultAssumption DEF VaultInit, VaultInv, VaultTypes, NamedAreShown, Provisioning, Wallets
\* A step of provisioning that moves on, within the part of it where wallet.json has named
\* the wallet.
LEMMA MovesOn ==
  ASSUME VaultInv, NEW at \in {"chmod", "ignore", "harden", "show"}, job.at \in {"env", "chmod", "ignore", "harden"},
         job' = [job EXCEPT !.at = at], UNCHANGED <<vault, made, shown, named, cut>>, exports' \subseteq Backups
  PROVE  VaultInv'
<1>1. job' \in Jobs /\ job'.at = at /\ job'.wallet = job.wallet
  BY JobAt DEF VaultInv, VaultTypes, JobPlaces, Provisioning
<1> QED
  BY <1>1 DEF VaultInv, VaultTypes, NamedAreShown, Provisioning, JobPlaces

LEMMA VaultStep == VaultInv /\ [VaultNext]_vaultVars => VaultInv'
<1> SUFFICES ASSUME VaultInv, [VaultNext]_vaultVars PROVE VaultInv'
  OBVIOUS
<1>1. VaultTypes /\ NamedAreShown /\ job \in Jobs
  BY DEF VaultInv, VaultTypes
<1>2. CASE UNCHANGED vaultVars \/ SecurityCheck
  <2>1. UNCHANGED <<vault, made, job, shown, named, cut>> /\ exports' \subseteq Backups
    BY <1>1, <1>2, LockedTyped DEF vaultVars, fileVars, SecurityCheck, VaultTypes
  <2> QED
    BY <1>1, <2>1 DEF VaultInv, VaultTypes, NamedAreShown
<1>3. CASE Provision
  <2>1. CASE installed
    <3>1. /\ made < MaxWallets /\ made' = made + 1 /\ made + 1 \in 1 .. MaxWallets
          /\ job' = [NoJob EXCEPT !.at = "import", !.wallet = made + 1]
      BY <1>1, <1>3, <2>1, VaultAssumption DEF Provision, VaultTypes
    <3>2. job' \in Jobs /\ job'.at = "import" /\ job'.wallet = made + 1
      <4> DEFINE w == made + 1
      <4>1. w \in 0 .. MaxWallets /\ "import" \in JobPlaces /\ job' = [NoJob EXCEPT !.at = "import", !.wallet = w]
        BY <3>1 DEF JobPlaces, Provisioning
      <4> HIDE DEF w
      <4>2. job' \in Jobs /\ job'.at = "import" /\ job'.wallet = w
        BY <4>1, NoJobTyped DEF Jobs
      <4> QED
        BY <4>2 DEF w
    <3>3. UNCHANGED <<vault, exports, shown, named, cut>> /\ job.at = "idle"
      BY <1>3 DEF Provision, fileVars, At
    <3> QED
      BY <1>1, <3>1, <3>2, <3>3 DEF VaultInv, VaultTypes, NamedAreShown
  <2>2. CASE ~installed
    <3>1. job' = [NoJob EXCEPT !.at = "save"] /\ made' = made
      BY <1>3, <2>2 DEF Provision
    <3>2. job' \in Jobs /\ job'.at = "save"
      BY <3>1, JobAt, NoJobTyped DEF JobPlaces, Provisioning
    <3>3. UNCHANGED <<vault, exports, shown, named, cut>> /\ job.at = "idle"
      BY <1>3 DEF Provision, fileVars, At
    <3> QED
      BY <1>1, <3>1, <3>2, <3>3 DEF VaultInv, VaultTypes, NamedAreShown, Provisioning
  <2> QED
    BY <2>1, <2>2
<1>4. CASE ImportMnemonic \/ ClearName
  <2>1. /\ job.at \in {"import", "clear"} /\ vault' \in {0, vault, job.wallet}
        /\ \E at \in {"key", "clear", "retry"} : job' = [job EXCEPT !.at = at]
        /\ UNCHANGED <<made, exports, shown, named, cut>>
    BY <1>4 DEF ImportMnemonic, ClearName, At, GoTo, fileVars
  <2>2. job' \in Jobs /\ job'.at \in {"key", "clear", "retry"} /\ job'.wallet = job.wallet
    BY <1>1, <2>1, JobAt DEF JobPlaces, Provisioning
  <2> QED
    BY <1>1, <2>1, <2>2, VaultAssumption DEF VaultInv, VaultTypes, NamedAreShown, Provisioning, Jobs
<1>5. CASE RetryImport
  <2>1. job.at = "retry" /\ job.wallet \in Wallets /\ UNCHANGED <<made, exports, shown, named>>
    BY <1>1, <1>5 DEF RetryImport, At, fileVars, VaultTypes, Provisioning, Jobs, Wallets
  <2>2. CASE vault = 0 /\ vault' = job.wallet /\ GoTo("key") /\ UNCHANGED cut
    <3>1. job' \in Jobs /\ job'.at = "key" /\ job'.wallet = job.wallet
      BY <1>1, <2>2, JobAt DEF GoTo, JobPlaces, Provisioning
    <3> QED
      BY <1>1, <2>1, <2>2, <3>1 DEF VaultInv, VaultTypes, NamedAreShown, Wallets
  <2>3. CASE UNCHANGED vault /\ job' = [NoJob EXCEPT !.at = "save"] /\ UNCHANGED cut
    <3>1. job' \in Jobs /\ job'.at = "save"
      BY <2>3, JobAt, NoJobTyped DEF JobPlaces, Provisioning
    <3> QED
      BY <1>1, <2>1, <2>3, <3>1 DEF VaultInv, VaultTypes, NamedAreShown, Provisioning
  <2>4. CASE UNCHANGED vault /\ job' = NoJob /\ cut' = cut \union {job.wallet}
    BY <1>1, <2>1, <2>4, NoJobTyped DEF VaultInv, VaultTypes, NamedAreShown, Provisioning
  <2> QED
    BY <1>5, <2>2, <2>3, <2>4 DEF RetryImport
<1>6. CASE MakeKey
  <2>1. PICK key \in BOOLEAN : job' = [job EXCEPT !.at = "save", !.key = key]
    BY <1>6 DEF MakeKey
  <2>2. job' \in Jobs /\ job'.at = "save" /\ job.at = "key"
    BY <1>1, <1>6, <2>1, JobAtKey DEF MakeKey, At, JobPlaces
  <2>3. UNCHANGED <<vault, made, exports, shown, named, cut>>
    BY <1>6 DEF MakeKey, fileVars
  <2> QED
    BY <1>1, <2>2, <2>3 DEF VaultInv, VaultTypes, NamedAreShown, Provisioning
<1>7. CASE SaveConfig
  <2>1. /\ job.at = "save" /\ named' = named \union ({job.wallet} \ {0})
        /\ UNCHANGED <<vault, exports, made, shown, cut>>
    BY <1>7 DEF SaveConfig, At
  <2>2. CASE job.wallet = 0
    <3>1. job' = NoJob
      BY <1>7, <2>2 DEF SaveConfig
    <3> QED
      BY <1>1, <2>1, <2>2, <3>1, NoJobTyped DEF VaultInv, VaultTypes, NamedAreShown, Provisioning
  <2>3. CASE job.wallet # 0
    <3>1. \E at \in {"env", "harden"} : job' = [job EXCEPT !.at = at]
      BY <1>7, <2>3 DEF SaveConfig, GoTo
    <3>2. job' \in Jobs /\ job'.at \in {"env", "harden"} /\ job'.wallet = job.wallet
      BY <1>1, <3>1, JobAt DEF JobPlaces, Provisioning
    <3>3. job.wallet \in Wallets
      BY <1>1, <2>3 DEF Jobs, Wallets
    <3> QED
      BY <1>1, <2>1, <2>3, <3>2, <3>3 DEF VaultInv, VaultTypes, NamedAreShown
  <2> QED
    BY <2>2, <2>3
<1>8. CASE SaveKey \/ LockKey \/ IgnoreSecrets \/ Harden
  <2>1. /\ job.at \in {"env", "chmod", "ignore", "harden"}
        /\ \E at \in {"chmod", "ignore", "harden", "show"} : job' = [job EXCEPT !.at = at]
        /\ UNCHANGED <<vault, made, shown, named, cut>>
    BY <1>8 DEF SaveKey, LockKey, IgnoreSecrets, Harden, At, GoTo
  <2>2. exports' \subseteq Backups
    BY <1>1, <1>8, LockedTyped DEF SaveKey, LockKey, IgnoreSecrets, Harden, VaultTypes
  <2> QED
    BY <2>1, <2>2, MovesOn
<1>9. CASE ShowCredentials
  <2>1. /\ job.at = "show" /\ shown' = shown \union {job.wallet} /\ job' = NoJob
        /\ UNCHANGED <<vault, made, exports, named, cut>>
    BY <1>9 DEF ShowCredentials, At, fileVars
  <2>2. job.wallet \in Wallets
    BY <1>1, <2>1 DEF VaultTypes, Provisioning, Jobs, Wallets
  <2> QED
    BY <1>1, <2>1, <2>2, NoJobTyped DEF VaultInv, VaultTypes, NamedAreShown, Provisioning
<1>10. CASE WriteBackup
  <2>1. PICK where \in {"default", "chosen"}, open \in BOOLEAN :
          LET file == [where |-> where, wallet |-> vault, sealed |-> FALSE, open |-> open]
          IN  /\ exports' \subseteq exports \union {file}
              /\ job' = [NoJob EXCEPT !.at = "lock", !.file = {file}]
    BY <1>10 DEF WriteBackup
  <2> DEFINE file == [where |-> where, wallet |-> vault, sealed |-> FALSE, open |-> open]
  <2>2. file \in Backups
    BY <1>1, <1>10 DEF WriteBackup, VaultTypes, Backups, Wallets
  <2>3. exports' \subseteq exports \union {file} /\ job' = [NoJob EXCEPT !.at = "lock", !.file = {file}]
    BY <2>1
  <2>4. job.at = "idle" /\ UNCHANGED <<vault, made, shown, named, cut>>
    BY <1>10 DEF WriteBackup, At
  <2> HIDE DEF file
  <2>5. job' \in Jobs /\ job'.at = "lock"
    BY <2>2, <2>3, JobAtFile, NoJobTyped DEF JobPlaces
  <2> QED
    BY <1>1, <2>2, <2>3, <2>4, <2>5 DEF VaultInv, VaultTypes, NamedAreShown, Provisioning
<1>11. CASE LockBackup
  <2>1. PICK b \in job.file :
          /\ Rewrite([b EXCEPT !.open = FALSE])
          /\ \E next \in {"seal", "idle"} :
               job' = IF next = "idle" THEN NoJob ELSE [job EXCEPT !.at = next, !.file = {[b EXCEPT !.open = FALSE]}]
    BY <1>11 DEF LockBackup
  <2> DEFINE c == [b EXCEPT !.open = FALSE]
  <2>2. c \in Backups
    BY <1>1, BackupsTyped DEF Jobs
  <2>3. exports' \subseteq exports \union {c}
    BY <2>1 DEF Rewrite
  <2>4. job.at = "lock" /\ UNCHANGED <<vault, made, shown, named, cut>>
    BY <1>11 DEF LockBackup, At
  <2>5. job' = NoJob \/ job' = [job EXCEPT !.at = "seal", !.file = {c}]
    BY <2>1
  <2> HIDE DEF c
  <2>6. job' \in Jobs /\ job'.at \in {"idle", "seal"}
    <3>1. CASE job' = NoJob
      BY <3>1, NoJobTyped
    <3>2. CASE job' = [job EXCEPT !.at = "seal", !.file = {c}]
      <4> DEFINE file == {c}
      <4>1. file \in SUBSET Backups /\ "seal" \in JobPlaces /\ job' = [job EXCEPT !.at = "seal", !.file = file]
        BY <2>2, <3>2 DEF JobPlaces
      <4> HIDE DEF file
      <4> QED
        BY <1>1, <4>1, JobAtFile
    <3> QED
      BY <2>5, <3>1, <3>2
  <2> QED
    BY <1>1, <2>2, <2>3, <2>4, <2>6 DEF VaultInv, VaultTypes, NamedAreShown, Provisioning
<1>12. CASE SealBackup
  <2>1. exports' \subseteq Backups
    BY <1>1, <1>12, BackupsTyped DEF SealBackup, Rewrite, VaultTypes, Jobs
  <2>2. job.at = "seal" /\ job' = NoJob /\ UNCHANGED <<vault, made, shown, named, cut>>
    BY <1>12 DEF SealBackup, At
  <2> QED
    BY <1>1, <2>1, <2>2, NoJobTyped DEF VaultInv, VaultTypes, NamedAreShown, Provisioning
<1>13. CASE Restore
  <2>1. vault' \in Wallets /\ UNCHANGED <<made, exports, job, shown, named, cut>>
    BY <1>1, <1>13 DEF Restore, fileVars, VaultTypes, Backups
  <2> QED
    BY <1>1, <2>1 DEF VaultInv, VaultTypes, NamedAreShown, Wallets
<1>14. CASE CutShort
  <2>1. /\ cut' = IF job.at \in {"lock", "seal"} THEN cut ELSE cut \union ({job.wallet} \ {0})
        /\ job' = NoJob /\ UNCHANGED <<vault, made, exports, shown, named>>
    BY <1>14 DEF CutShort, fileVars
  <2>2. ({job.wallet} \ {0}) \subseteq Wallets
    BY <1>1 DEF Jobs, Wallets
  <2>3. named \subseteq shown \union cut'
    BY <1>1, <2>1 DEF VaultTypes, NamedAreShown, Provisioning
  <2> QED
    BY <1>1, <2>1, <2>2, <2>3, NoJobTyped DEF VaultInv, VaultTypes, NamedAreShown, Provisioning
<1> QED
  BY <1>2, <1>3, <1>4, <1>5, <1>6, <1>7, <1>8, <1>9, <1>10, <1>11, <1>12, <1>13, <1>14 DEF VaultNext

\* A wallet that wallet.json has named can be had again, over any order of provisioning,
\* backups and restores, unless its provisioning was cut short: its words were shown, so the
\* proof needs neither the vault nor a backup (_provision_ows_wallet, _print_credentials).
THEOREM NamedWalletsKept == VaultSpec => []MnemonicSomewhere
<1>1. VaultInv => MnemonicSomewhere
  BY DEF VaultInv, NamedAreShown, MnemonicSomewhere, At
<1> QED
  BY <1>1, VaultInitially, VaultStep, PTL DEF VaultSpec
-----------------------------------------------------------------------------
(* Types of WalletVault *)

VaultFilesTyped ==
  /\ installed \in BOOLEAN /\ token \in 0 .. MaxWallets
  /\ config \in [provider : {"none", "ows", "simulated"}, wallet : 0 .. MaxWallets]
  /\ envOpen \in BOOLEAN /\ ignored \in BOOLEAN /\ passed \in BOOLEAN

LEMMA VaultFilesStep == VaultInv /\ VaultFilesTyped /\ [VaultNext]_vaultVars => VaultFilesTyped'
<1> SUFFICES ASSUME VaultInv, VaultFilesTyped, [VaultNext]_vaultVars PROVE VaultFilesTyped'
  OBVIOUS
<1>1. job.wallet \in 0 .. MaxWallets
  BY DEF VaultInv, VaultTypes, Jobs
<1>2. CASE SaveConfig
  <2>1. config' \in [provider : {"none", "ows", "simulated"}, wallet : 0 .. MaxWallets]
    BY <1>1, <1>2 DEF SaveConfig
  <2> QED
    BY <1>2, <2>1 DEF SaveConfig, VaultFilesTyped
<1>3. CASE SaveKey
  BY <1>1, <1>3 DEF SaveKey, VaultFilesTyped
<1>4. CASE LockKey \/ IgnoreSecrets \/ Harden
  BY <1>4 DEF LockKey, IgnoreSecrets, Harden, VaultFilesTyped
<1>5. CASE SecurityCheck
  <2>1. passed' \in BOOLEAN
    BY <1>5 DEF SecurityCheck, PreflightPasses
  <2> QED
    BY <1>5, <2>1 DEF SecurityCheck, VaultFilesTyped
<1>6. CASE UNCHANGED <<installed, token, config, envOpen, ignored, passed>>
  BY <1>6 DEF VaultFilesTyped
<1> QED
  BY <1>2, <1>3, <1>4, <1>5, <1>6
  DEF VaultNext, vaultVars, fileVars, Provision, ImportMnemonic, ClearName, RetryImport, MakeKey, ShowCredentials,
      WriteBackup, LockBackup, SealBackup, Restore, CutShort

LEMMA VaultTyped == VaultSpec => []VaultTypeOK
<1>1. ASSUME VaultInit PROVE VaultFilesTyped
  <2>1. config \in [provider : {"none", "ows", "simulated"}, wallet : 0 .. MaxWallets]
    <3>1. 0 \in 0 .. MaxWallets /\ "none" \in {"none", "ows", "simulated"}
      BY VaultAssumption
    <3> QED
      BY <1>1, <3>1 DEF VaultInit
  <2>2. token \in 0 .. MaxWallets
    BY <1>1, VaultAssumption DEF VaultInit
  <2> QED
    BY <1>1, <2>1, <2>2 DEF VaultInit, VaultFilesTyped
<1>2. VaultInv /\ VaultFilesTyped => VaultTypeOK
  BY DEF VaultInv, VaultTypes, VaultFilesTyped, VaultTypeOK, Jobs, JobPlaces, Provisioning
<1> QED
  BY <1>1, <1>2, VaultInitially, VaultStep, VaultFilesStep, PTL DEF VaultSpec

-----------------------------------------------------------------------------
(* ArtifactSet *)

Five == Pinned \union {"scaffold"}

LEMMA TypesAre ==
  /\ ToSet(Templates) = Five /\ Types = Five \union {"promotion", "research"}
  /\ Len(Templates) = 5 /\ \A i \in 1 .. 5 : Templates[i] \in Five
  /\ \A t \in Five : \E i \in 1 .. 5 : Templates[i] = t
<1>1. /\ Len(Templates) = 5 /\ Templates[1] = "spec" /\ Templates[2] = "manifest" /\ Templates[3] = "bundle"
      /\ Templates[4] = "pack" /\ Templates[5] = "scaffold" /\ DOMAIN Templates = 1 .. 5
  BY DEF Templates
<1>2. \A i \in 1 .. 5 : i = 1 \/ i = 2 \/ i = 3 \/ i = 4 \/ i = 5
  OBVIOUS
<1>3. \A i \in 1 .. 5 : Templates[i] \in Five
  BY <1>1, <1>2 DEF Five, Pinned
<1>4. \A t \in Five : \E i \in 1 .. 5 : Templates[i] = t
  <2>1. 1 \in 1 .. 5 /\ 2 \in 1 .. 5 /\ 3 \in 1 .. 5 /\ 4 \in 1 .. 5 /\ 5 \in 1 .. 5
    OBVIOUS
  <2> QED
    BY <1>1, <2>1 DEF Five, Pinned
<1>5. ToSet(Templates) = Five
  BY <1>1, <1>3, <1>4 DEF ToSet
<1> QED
  BY <1>1, <1>3, <1>4, <1>5 DEF Types

Pinnings == UNION {[P -> 0 .. MaxBump] : P \in SUBSET Pinned}
Artifacts ==
  [set : 1 .. MaxSets, version : 0 .. MaxBump, names : SUBSET {"core", "skill", "wild"},
   pins : Pinnings, body : Bodies]
Directories == [Types -> Artifacts \union {Missing, TornFile}]

LEMMA Parsed == \A f \in Artifacts : f # Missing /\ f # TornFile
  BY DEF Artifacts, Missing, TornFile

LEMMA PinningsAre == \A p \in Pinnings : DOMAIN p \subseteq Pinned
  BY DEF Pinnings

\* What the validation comes to where every template is an artifact.
Coherent(d) ==
  /\ \A t \in {"promotion", "research"} :
       d[t] # Missing => d[t] \in Artifacts /\ d[t].set = d["spec"].set /\ d[t].body # "refused"
  /\ \A t \in Five : d[t] \in Artifacts /\ d[t].set = d["spec"].set /\ d[t].body # "refused"
  /\ d["spec"].names \subseteq d["manifest"].names
  /\ \A u \in DOMAIN d["spec"].pins : d[u].version = d["spec"].pins[u]
  /\ d["promotion"] # Missing => \A u \in DOMAIN d["promotion"].pins : d[u].version = d["promotion"].pins[u]

LEMMA ValidIsCoherent ==
  ASSUME NEW d \in Directories
  PROVE  Valid(d) <=> Coherent(d)
<1>1. Types = Five \union {"promotion", "research"} /\ ToSet(Templates) = Five /\ {"spec", "manifest"} \subseteq Five
  BY TypesAre DEF Five, Pinned
<1>2. \A t \in Types : d[t] \in Artifacts \union {Missing, TornFile}
  BY DEF Directories
<1>3. Missing # TornFile
  BY DEF Missing, TornFile
<1>4. ASSUME Valid(d) PROVE Coherent(d)
  <2>1. \A t \in Five : d[t] \in Artifacts /\ d[t] # Missing
    BY <1>1, <1>2, <1>4 DEF Valid
  <2>2. \A t \in Types : d[t] # Missing => d[t] \in Artifacts /\ d[t].set = d["spec"].set /\ d[t].body # "refused"
    <3>1. \A t \in Types : d[t] # TornFile /\ ~Refused(d[t])
      BY <1>4 DEF Valid
    <3>2. \A t \in Types : d[t] # Missing => d[t] \in Artifacts /\ d[t].set = d["spec"].set
      BY <1>1, <1>2, <1>4, <2>1 DEF Valid
    <3> QED
      BY <3>1, <3>2 DEF Refused
  <2>3. PinsResolve(d, "spec") /\ (d["promotion"] # Missing => PinsResolve(d, "promotion"))
    BY <1>1, <1>4, <2>1 DEF Valid
  <2> QED
    BY <1>1, <1>4, <2>1, <2>2, <2>3 DEF Valid, Coherent, PinsResolve
<1>5. ASSUME Coherent(d) PROVE Valid(d)
  <2>1. \A t \in Five : d[t] \in Artifacts /\ d[t] # Missing /\ d[t] # TornFile
    BY <1>5, Parsed DEF Coherent
  <2>2. \A t \in Types : d[t] # Missing => d[t] \in Artifacts /\ d[t].set = d["spec"].set /\ d[t].body # "refused"
    BY <1>1, <1>5 DEF Coherent
  <2>3. \A t \in Types : d[t] # TornFile /\ ~Refused(d[t])
    BY <1>3, <2>2, Parsed DEF Refused
  <2>4. \A t \in {"spec", "promotion"} : d[t] # Missing => PinsResolve(d, t)
    <3>1. \A t \in {"spec", "promotion"} : d[t] # Missing => DOMAIN d[t].pins \subseteq Five
      BY <1>1, <2>2, PinningsAre DEF Artifacts, Five
    <3> QED
      BY <1>5, <2>1, <3>1 DEF Coherent, PinsResolve
  <2>5. d["spec"].names \subseteq d["manifest"].names
    BY <1>5 DEF Coherent
  <2> QED
    BY <1>1, <2>1, <2>2, <2>3, <2>4, <2>5 DEF Valid
<1> QED
  BY <1>4, <1>5

\* Nothing is wrong with the research record of a directory that loads.
LEMMA NothingButFor ==
  ASSUME NEW d \in Directories, Coherent(d)
  PROVE  ButForTheRecord(d) = d
<1>1. "research" \in Types /\ d["research"] \in Artifacts \union {Missing, TornFile}
  BY DEF Directories, Types
<1> QED
  BY <1>1 DEF Coherent, ButForTheRecord, Refused
-----------------------------------------------------------------------------

Steps == {"idle", "write", "capabilities", "refs", "baseline", "propose", "evaluate", "record"}
Works == [mode : {"none", "fast", "slow"}, step : Steps, written : 0 .. 5]

\* What a generation writes.
Fresh(t) ==
  Artifact(lastSet, IF t \in {"spec", "manifest"} THEN {"core"} ELSE {},
           IF t = "spec" THEN [u \in {"pack"} |-> 0] ELSE NoPins)

ArtifactTypes ==
  /\ files \in Directories
  /\ lastSet \in 0 .. MaxSets
  /\ work \in Works /\ (work.step = "idle" => work = NoWork)
  /\ best \in Metrics /\ kept \in {NothingKept} \union [Pinned -> Artifacts]

\* The templates are of the set that is generated, from the last that is written on.
OfOneSet ==
  work.step \notin {"idle", "write"} => \A t \in Five : files[t] \in Artifacts /\ files[t].set = lastSet

NoLeftover == "leftover" \notin disturbed => files["promotion"] = Missing /\ files["research"] = Missing

WhileWritten ==
  work.step = "write" =>
    /\ lastSet > 0 /\ work.written \in 0 .. 4 /\ NoLeftover
    /\ \A i \in 1 .. work.written : files[Templates[i]] = Fresh(Templates[i])

WhileExtended ==
  work.step \in {"capabilities", "refs", "baseline"} =>
    /\ "leftover" \notin disturbed => Coherent(files)
    /\ work.step = "refs" => "skill" \in files["manifest"].names

Restored == [files EXCEPT ![original.type] = original.file]

\* What BestOnDisk needs at the next decision: what would be restored is what was kept.
WhileEvaluated ==
  work.step = "evaluate" =>
    /\ original.type \in Pinned /\ original.file \in Artifacts /\ original.file.set = lastSet
    /\ Coherent(Restored) /\ \A t \in Pinned : Restored[t] = kept[t]

WhileProposed ==
  work.step \in {"propose", "record"} => Coherent(files) /\ \A t \in Pinned : files[t] = kept[t]

AtRest == work.step = "idle" /\ lastSet > 0 /\ disturbed = {} => Coherent(ButForTheRecord(files))

ArtifactInv ==
  ArtifactTypes /\ OfOneSet /\ WhileWritten /\ WhileExtended /\ WhileEvaluated /\ WhileProposed /\ AtRest

LEMMA ArtifactInitially == ArtifactInit => ArtifactInv
<1> SUFFICES ASSUME ArtifactInit PROVE ArtifactInv
  OBVIOUS
<1>1. NoWork \in Works /\ NoWork.step = "idle" /\ NoMetrics \in Metrics
  BY DEF NoWork, Works, Steps, NoMetrics, Metrics
<1>2. ArtifactTypes
  BY <1>1, ArtifactAssumption DEF ArtifactInit, ArtifactTypes, Directories
<1> QED
  BY <1>1, <1>2 DEF ArtifactInit, ArtifactInv, OfOneSet, WhileWritten, WhileExtended, WhileEvaluated,
                     WhileProposed, AtRest

LEMMA WorkTyped ==
  ASSUME NEW w \in Works, NEW step \in Steps
  PROVE  [w EXCEPT !.step = step] \in Works /\ [w EXCEPT !.step = step].step = step
  BY DEF Works

LEMMA IdleIs == NoWork \in Works /\ NoWork.step = "idle" /\ NoMetrics \in Metrics
  BY DEF NoWork, Works, Steps, NoMetrics, Metrics

LEMMA ArtifactTyped ==
  ASSUME NEW set \in 1 .. MaxSets, NEW names \in SUBSET {"core", "skill", "wild"}, NEW pins \in Pinnings
  PROVE  /\ Artifact(set, names, pins) \in Artifacts
         /\ Artifact(set, names, pins).set = set /\ Artifact(set, names, pins).version = 0
         /\ Artifact(set, names, pins).names = names /\ Artifact(set, names, pins).pins = pins
         /\ Artifact(set, names, pins).body = "generated"
  BY ArtifactAssumption DEF Artifact, Artifacts, Bodies

LEMMA FreshTyped ==
  ASSUME ArtifactTypes, lastSet > 0, NEW t \in Five
  PROVE  /\ Fresh(t) \in Artifacts /\ Fresh(t).set = lastSet /\ Fresh(t).version = 0
         /\ Fresh(t).body = "generated"
         /\ (t \in {"spec", "manifest"} => Fresh(t).names = {"core"})
         /\ (t = "spec" => DOMAIN Fresh(t).pins = {"pack"} /\ Fresh(t).pins["pack"] = 0)
<1>1. NoPins \in Pinnings /\ [u \in {"pack"} |-> 0] \in Pinnings
  <2>1. NoPins \in [{} -> 0 .. MaxBump] /\ [u \in {"pack"} |-> 0] \in [{"pack"} -> 0 .. MaxBump]
    BY ArtifactAssumption DEF NoPins
  <2>2. {} \in SUBSET Pinned /\ {"pack"} \in SUBSET Pinned
    BY DEF Pinned
  <2> QED
    BY <2>1, <2>2 DEF Pinnings
<1>2. lastSet \in 1 .. MaxSets /\ 0 \in 0 .. MaxBump
  BY ArtifactAssumption DEF ArtifactTypes
<1> DEFINE n == IF t \in {"spec", "manifest"} THEN {"core"} ELSE {}
           p == IF t = "spec" THEN [u \in {"pack"} |-> 0] ELSE NoPins
<1>3. n \in SUBSET {"core", "skill", "wild"} /\ p \in Pinnings
  BY <1>1
<1>4. Fresh(t) = Artifact(lastSet, n, p)
  BY DEF Fresh
<1>5. t = "spec" => DOMAIN p = {"pack"} /\ p["pack"] = 0
  OBVIOUS
<1>6. t \in {"spec", "manifest"} => n = {"core"}
  OBVIOUS
<1> HIDE DEF n, p
<1>7. /\ Artifact(lastSet, n, p) \in Artifacts
      /\ Artifact(lastSet, n, p).set = lastSet /\ Artifact(lastSet, n, p).version = 0
      /\ Artifact(lastSet, n, p).names = n /\ Artifact(lastSet, n, p).pins = p
  BY <1>2, <1>3, ArtifactTyped
<1>8. Artifact(lastSet, n, p).body = "generated"
  BY DEF Artifact
<1> QED
  BY <1>4, <1>5, <1>6, <1>7, <1>8

LEMMA GenerateKeeps ==
  ASSUME ArtifactInv, NEW mode \in {"fast", "slow"}, Generate(mode)
  PROVE  ArtifactInv'
<1>1. work' \in Works /\ work'.step = "write" /\ work'.written = 0
  BY DEF Generate, Works, Steps
<1>2. lastSet' \in 1 .. MaxSets
  BY ArtifactAssumption DEF ArtifactInv, ArtifactTypes, Generate
<1>3. NoLeftover'
  BY DEF Generate, NoLeftover, Present
<1>4. ArtifactTypes'
  BY <1>1, <1>2 DEF ArtifactInv, ArtifactTypes, Generate
<1> QED
  BY <1>1, <1>2, <1>3, <1>4 DEF ArtifactInv, OfOneSet, WhileWritten, WhileExtended, WhileEvaluated, WhileProposed, AtRest

LEMMA WriteTemplateKeeps ==
  ASSUME ArtifactInv, WriteTemplate
  PROVE  ArtifactInv'
<1> DEFINE k == work.written + 1
           t == Templates[k]
<1>1. /\ work.step = "write" /\ k \in 1 .. 5 /\ t \in Five /\ lastSet > 0 /\ NoLeftover
      /\ \A i \in 1 .. work.written : files[Templates[i]] = Fresh(Templates[i])
      /\ work \in Works /\ work.written \in 0 .. 4
  BY TypesAre DEF WriteTemplate, ArtifactInv, ArtifactTypes, WhileWritten
<1>2. /\ files' = [files EXCEPT ![t] = Fresh(t)]
      /\ UNCHANGED <<lastSet, best, original, kept, disturbed>>
  BY DEF WriteTemplate, Fresh
<1>3. /\ work' = [work EXCEPT !.written = @ + 1,
                              !.step = IF work.written + 1 < Len(Templates) THEN "write" ELSE "capabilities"]
  BY DEF WriteTemplate
<1>4. /\ work' \in Works /\ work'.written = k
      /\ work'.step = (IF k < 5 THEN "write" ELSE "capabilities")
  <2> DEFINE next == IF k < 5 THEN "write" ELSE "capabilities"
  <2>1. next \in Steps /\ k \in 0 .. 5 /\ work' = [work EXCEPT !.written = k, !.step = next]
    BY <1>1, <1>3, TypesAre DEF Steps
  <2> HIDE DEF next, k
  <2>2. work' \in Works /\ work'.written = k /\ work'.step = next
    BY <1>1, <2>1 DEF Works
  <2> QED
    BY <2>2 DEF next
<1> HIDE DEF t
<1>5. files \in Directories /\ \A u \in Types : files'[u] = IF u = t THEN Fresh(t) ELSE files[u]
  BY <1>2 DEF ArtifactInv, ArtifactTypes, Directories
<1>6. files' \in Directories
  BY <1>1, <1>2, <1>5, FreshTyped, TypesAre DEF ArtifactInv, Directories
<1>7. ArtifactTypes'
  BY <1>2, <1>4, <1>6 DEF ArtifactInv, ArtifactTypes
<1>8. NoLeftover'
  BY <1>1, <1>2, <1>5, TypesAre DEF NoLeftover, Five, Pinned
<1>9. \A i \in 1 .. k : files'[Templates[i]] = Fresh(Templates[i])
  <2>1. \A i \in 1 .. k : i = k \/ i \in 1 .. work.written
    BY <1>1
  <2>2. \A i \in 1 .. k : Templates[i] \in Types
    BY <1>1, TypesAre
  <2> QED
    BY <1>1, <1>5, <2>1, <2>2 DEF t
<1>10. \A u \in Five : Fresh(u)' = Fresh(u)
  BY <1>2 DEF Fresh
<1>11. CASE k < 5
  <2>1. WhileWritten'
    <3>1. \A i \in 1 .. k : Templates[i] \in Five
      BY <1>1, TypesAre
    <3>2. \A i \in 1 .. k : files'[Templates[i]] = Fresh(Templates[i])'
      BY <1>9, <1>10, <3>1
    <3> QED
      BY <1>1, <1>2, <1>4, <1>8, <1>11, <3>2 DEF WhileWritten
  <2> QED
    BY <1>4, <1>7, <1>11, <2>1 DEF ArtifactInv, OfOneSet, WhileExtended, WhileEvaluated, WhileProposed, AtRest
<1>12. CASE ~(k < 5)
  <2>1. \A u \in Five : files'[u] = Fresh(u)
    BY <1>1, <1>9, <1>12, TypesAre
  <2>2. \A u \in Five : /\ files'[u] \in Artifacts /\ files'[u].set = lastSet /\ files'[u].version = 0
                         /\ files'[u].body = "generated"
    BY <1>1, <2>1, FreshTyped DEF ArtifactInv
  <2>3. /\ files'["spec"].names = {"core"} /\ files'["manifest"].names = {"core"}
        /\ DOMAIN files'["spec"].pins = {"pack"} /\ files'["spec"].pins["pack"] = 0
    BY <1>1, <2>1, FreshTyped DEF ArtifactInv, Five, Pinned
  <2>4. "leftover" \notin disturbed' => Coherent(files')
    BY <1>8, <2>2, <2>3 DEF Coherent, NoLeftover, Five, Pinned
  <2> QED
    BY <1>2, <1>4, <1>7, <1>12, <2>2, <2>4 DEF ArtifactInv, OfOneSet, WhileWritten, WhileExtended, WhileEvaluated,
                                          WhileProposed, AtRest
<1> QED
  BY <1>11, <1>12
\* A name more, for one of the two artifacts whose names are compared.
LEMMA NameAdded ==
  ASSUME files \in Directories, NEW t \in {"spec", "manifest"}, files[t] \in Artifacts, AddCapabilities(t)
  PROVE  /\ files' \in Directories
         /\ \A u \in Types \ {t} : files'[u] = files[u]
         /\ files'[t] \in Artifacts /\ files'[t].set = files[t].set /\ files'[t].version = files[t].version
         /\ files'[t].pins = files[t].pins /\ files'[t].body = files[t].body
         /\ files'[t].names = files[t].names \union {"skill"}
<1> DEFINE f == files[t]
           g == [f EXCEPT !.names = @ \union {"skill"}]
<1>1. t \in Types
  BY TypesAre DEF Five, Pinned
<1>2. files' = [files EXCEPT ![t] = g]
  BY DEF AddCapabilities
<1> HIDE DEF f
<1>3. f \in Artifacts
  BY DEF f
<1>4. /\ g \in Artifacts /\ g.set = f.set /\ g.version = f.version /\ g.pins = f.pins /\ g.body = f.body
      /\ g.names = f.names \union {"skill"}
  BY <1>3 DEF Artifacts
<1> HIDE DEF g
<1> QED
  BY <1>1, <1>2, <1>4 DEF f, Directories

LEMMA NameAddedCoherent ==
  ASSUME files \in Directories, NEW t \in {"spec", "manifest"}, files[t] \in Artifacts, AddCapabilities(t),
         t = "spec" => "skill" \in files["manifest"].names, Coherent(files)
  PROVE  Coherent(files')
<1>1. {"spec", "manifest"} \subseteq Five /\ Types = Five \union {"promotion", "research"}
  BY TypesAre DEF Five, Pinned
<1>2. \A u \in Types : u # t => files'[u] = files[u]
  BY NameAdded
<1>3. /\ files'[t] \in Artifacts /\ files'[t].set = files[t].set /\ files'[t].version = files[t].version
      /\ files'[t].pins = files[t].pins /\ files'[t].body = files[t].body
      /\ files'[t].names = files[t].names \union {"skill"}
  BY NameAdded
<1>4. \A u \in Five : files'[u] \in Artifacts /\ files'[u].set = files[u].set /\ files'[u].version = files[u].version
                      /\ files'[u].pins = files[u].pins /\ files'[u].body = files[u].body
  BY <1>1, <1>2, <1>3 DEF Coherent
<1>5. \A u \in {"promotion", "research"} : files'[u] = files[u]
  BY <1>1, <1>2 DEF Five, Pinned
<1>6. files'["spec"].names \subseteq files'["manifest"].names
  BY <1>1, <1>2, <1>3 DEF Coherent
<1>7. /\ DOMAIN files["spec"].pins \subseteq Five
      /\ files["promotion"] # Missing => DOMAIN files["promotion"].pins \subseteq Five
  BY <1>1, PinningsAre DEF Coherent, Artifacts, Five
<1> QED
  BY <1>1, <1>4, <1>5, <1>6, <1>7 DEF Coherent

LEMMA InstallSkillsKeeps ==
  ASSUME ArtifactInv, InstallSkills
  PROVE  ArtifactInv'
<1>1. /\ files \in Directories /\ work \in Works /\ work.step \in {"capabilities", "refs"}
      /\ UNCHANGED <<lastSet, best, original, kept, disturbed>>
      /\ \A t \in Five : files[t] \in Artifacts /\ files[t].set = lastSet
      /\ "leftover" \notin disturbed => Coherent(files)
      /\ work.step = "refs" => "skill" \in files["manifest"].names
  BY DEF InstallSkills, ArtifactInv, ArtifactTypes, OfOneSet, WhileExtended
<1>2. {"spec", "manifest"} \subseteq Five /\ Types = Five \union {"promotion", "research"}
  BY TypesAre DEF Five, Pinned
<1>3. ASSUME NEW t \in {"spec", "manifest"}, AddCapabilities(t), t = "spec" => work.step = "refs"
      PROVE  /\ files' \in Directories /\ \A u \in Five : files'[u] \in Artifacts /\ files'[u].set = lastSet
             /\ "leftover" \notin disturbed => Coherent(files')
             /\ "skill" \in files'[t].names
  <2>1. files[t] \in Artifacts
    BY <1>1, <1>2
  <2>2. files' \in Directories /\ \A u \in Five : files'[u] \in Artifacts /\ files'[u].set = lastSet
    BY <1>1, <1>2, <1>3, <2>1, NameAdded
  <2>3. "leftover" \notin disturbed => Coherent(files')
    BY <1>1, <1>3, <2>1, NameAddedCoherent
  <2> QED
    BY <1>1, <1>3, <2>1, <2>2, <2>3, NameAdded
<1>4. AfterFast => work' \in Works /\ (work' = NoWork \/ work'.step = "baseline")
  <2>1. ASSUME GoOn("baseline") PROVE work' \in Works /\ work'.step = "baseline"
    <3>1. work \in Works /\ "baseline" \in Steps /\ work' = [work EXCEPT !.step = "baseline"]
      BY <1>1, <2>1 DEF GoOn, Steps
    <3> QED
      BY <3>1, WorkTyped
  <2> QED
    BY <2>1, IdleIs DEF AfterFast
<1>5. CASE AddCapabilities("manifest") /\ GoOn("refs")
  <2>1. work' \in Works /\ work'.step = "refs"
    BY <1>1, <1>5, WorkTyped DEF GoOn, Steps
  <2> QED
    BY <1>1, <1>3, <1>5, <2>1 DEF ArtifactInv, ArtifactTypes, OfOneSet, WhileWritten, WhileExtended, WhileEvaluated,
                                 WhileProposed, AtRest
<1>6. CASE UNCHANGED files /\ AfterFast
  <2>1. "leftover" \notin disturbed => Coherent(files') /\ Coherent(ButForTheRecord(files'))
    BY <1>1, <1>6, NothingButFor
  <2> QED
    BY <1>1, <1>4, <1>6, <2>1, IdleIs DEF ArtifactInv, ArtifactTypes, OfOneSet, WhileWritten, WhileExtended, WhileEvaluated,
                                 WhileProposed, AtRest
<1>7. CASE work.step = "refs" /\ AddCapabilities("spec") /\ AfterFast
  <2>1. /\ files' \in Directories /\ \A u \in Five : files'[u] \in Artifacts /\ files'[u].set = lastSet
        /\ "leftover" \notin disturbed => Coherent(files')
    BY <1>3, <1>7
  <2>2. "leftover" \notin disturbed => Coherent(ButForTheRecord(files'))
    BY <2>1, NothingButFor
  <2> QED
    BY <1>1, <1>4, <1>7, <2>1, <2>2, IdleIs DEF ArtifactInv, ArtifactTypes, OfOneSet, WhileWritten, WhileExtended,
                                          WhileEvaluated, WhileProposed, AtRest
<1> QED
  BY <1>5, <1>6, <1>7 DEF InstallSkills

LEMMA BaselineKeeps ==
  ASSUME ArtifactInv, Baseline
  PROVE  ArtifactInv'
<1>1. /\ files \in Directories /\ work \in Works /\ work.step = "baseline"
      /\ UNCHANGED <<files, lastSet, disturbed>>
      /\ \A t \in Five : files[t] \in Artifacts /\ files[t].set = lastSet
      /\ "leftover" \notin disturbed => Coherent(files)
      /\ Valid(files) <=> Coherent(files)
  BY ValidIsCoherent DEF Baseline, ArtifactInv, ArtifactTypes, OfOneSet, WhileExtended
<1>2. CASE Valid(files) /\ best' \in Metrics /\ Keep /\ GoOn("propose")
  <2>1. work' \in Works /\ work'.step = "propose"
    BY <1>1, <1>2, WorkTyped DEF GoOn, Steps
  <2>2. kept' \in [Pinned -> Artifacts] /\ \A t \in Pinned : files[t] = kept'[t]
    BY <1>1, <1>2 DEF Keep, Five
  <2> QED
    BY <1>1, <1>2, <2>1, <2>2 DEF ArtifactInv, ArtifactTypes, OfOneSet, WhileWritten, WhileExtended,
                                  WhileEvaluated, WhileProposed, AtRest
<1>3. CASE Leave
  <2>1. work' = NoWork /\ best' = NoMetrics /\ kept' = NothingKept
    BY <1>3 DEF Leave
  <2>2. disturbed = {} => Coherent(ButForTheRecord(files))
    BY <1>1, NothingButFor
  <2> QED
    BY <1>1, <2>1, <2>2, IdleIs DEF ArtifactInv, ArtifactTypes, OfOneSet, WhileWritten, WhileExtended,
                                    WhileEvaluated, WhileProposed, AtRest
<1> QED
  BY <1>2, <1>3 DEF Baseline
LEMMA NoCandidateKeeps ==
  ASSUME ArtifactInv, NoCandidate
  PROVE  ArtifactInv'
  BY DEF NoCandidate, ArtifactInv, ArtifactTypes, OfOneSet, WhileWritten, NoLeftover, WhileExtended, WhileEvaluated,
         Restored, WhileProposed, AtRest

LEMMA WriteCandidateKeeps ==
  ASSUME ArtifactInv, WriteCandidate
  PROVE  ArtifactInv'
<1>1. /\ files \in Directories /\ work \in Works /\ work.step = "propose"
      /\ UNCHANGED <<lastSet, best, kept, disturbed>>
      /\ \A u \in Five : files[u] \in Artifacts /\ files[u].set = lastSet
      /\ Coherent(files) /\ \A u \in Pinned : files[u] = kept[u]
      /\ GoOn("evaluate")
  BY DEF WriteCandidate, ArtifactInv, ArtifactTypes, OfOneSet, WhileProposed
<1>2. PICK t \in Pinned : \E body \in Bodies, version \in 0 .. MaxBump, wild \in SUBSET {"wild"} :
        /\ original' = [type |-> t, file |-> files[t]]
        /\ files' = [files EXCEPT ![t] = [files[t] EXCEPT !.body = body, !.names = files[t].names \union wild, !.version = version]]
  <2>1. PICK t \in Pinned : \E body \in Bodies, version \in 0 .. MaxBump,
             wild \in SUBSET (IF t \in {"spec", "manifest"} THEN {"wild"} ELSE {}) :
        /\ original' = [type |-> t, file |-> files[t]]
        /\ files' = [files EXCEPT ![t] = [files[t] EXCEPT !.body = body, !.names = files[t].names \union wild, !.version = version]]
    BY DEF WriteCandidate
  <2>2. SUBSET (IF t \in {"spec", "manifest"} THEN {"wild"} ELSE {}) \subseteq SUBSET {"wild"}
    OBVIOUS
  <2> QED
    BY <2>1, <2>2
<1>3. PICK body \in Bodies, version \in 0 .. MaxBump, wild \in SUBSET {"wild"} :
        /\ original' = [type |-> t, file |-> files[t]]
        /\ files' = [files EXCEPT ![t] = [files[t] EXCEPT !.body = body, !.names = files[t].names \union wild, !.version = version]]
  BY <1>2
<1> DEFINE f == files[t]
           names == f.names \union wild
           g == [f EXCEPT !.body = body, !.names = names, !.version = version]
<1>4. f \in Artifacts /\ f.set = lastSet /\ names \in SUBSET {"core", "skill", "wild"}
  BY <1>1 DEF Five, Artifacts
<1>5. files' = [files EXCEPT ![t] = g] /\ original' = [type |-> t, file |-> f]
  <2>1. files' = [files EXCEPT ![t] = [f EXCEPT !.body = body, !.names = f.names \union wild, !.version = version]]
    BY <1>3
  <2>2. original' = [type |-> t, file |-> f]
    BY <1>3
  <2> QED
    BY <2>1, <2>2
<1> HIDE DEF f, names
<1>6. g \in Artifacts /\ g.set = lastSet
  BY <1>4 DEF Artifacts
<1> HIDE DEF g
<1>7. t \in Types /\ t \in Five /\ Five \subseteq Types
  BY TypesAre DEF Five
<1>8. files' \in Directories /\ \A u \in Five : files'[u] \in Artifacts /\ files'[u].set = lastSet
  BY <1>1, <1>5, <1>6, <1>7 DEF Directories
<1>9. Restored' = files
  <2>1. Restored' = [files' EXCEPT ![t] = f]
    BY <1>5 DEF Restored
  <2>2. \A u \in Types : [files' EXCEPT ![t] = f][u] = files[u]
    BY <1>1, <1>5, <1>8 DEF f, Directories
  <2> DEFINE d == [files' EXCEPT ![t] = f]
  <2>3. d = [u \in Types |-> d[u]] /\ files = [u \in Types |-> files[u]]
    BY <1>1, <1>8 DEF Directories
  <2>4. d = files
    <3> HIDE DEF d
    <3> QED
      BY <2>2, <2>3 DEF d
  <2> QED
    BY <2>1, <2>4
<1>10. work' \in Works /\ work'.step = "evaluate"
  BY <1>1, WorkTyped DEF GoOn, Steps
<1>11. WhileEvaluated'
  BY <1>1, <1>4, <1>5, <1>9 DEF WhileEvaluated
<1> QED
  BY <1>1, <1>8, <1>10, <1>11 DEF ArtifactInv, ArtifactTypes, OfOneSet, WhileWritten, WhileExtended, WhileProposed, AtRest

LEMMA EvaluateCandidateKeeps ==
  ASSUME ArtifactInv, EvaluateCandidate
  PROVE  ArtifactInv'
<1>1. /\ files \in Directories /\ work \in Works /\ work.step = "evaluate"
      /\ UNCHANGED <<lastSet, disturbed>>
      /\ \A u \in Five : files[u] \in Artifacts /\ files[u].set = lastSet
      /\ original.type \in Pinned /\ original.file \in Artifacts /\ original.file.set = lastSet
      /\ Coherent(Restored) /\ (\A t \in Pinned : Restored[t] = kept[t]) /\ best \in Metrics
      /\ kept \in {NothingKept} \union [Pinned -> Artifacts]
  BY DEF EvaluateCandidate, ArtifactInv, ArtifactTypes, OfOneSet, WhileEvaluated
<1>2. PICK measured \in {{}} \union (IF Valid(files) THEN {{m} : m \in Metrics} ELSE {}) :
        /\ TakeBack(Decision(measured))
        /\ IF Decision(measured) = "keep" THEN best' \in measured /\ Keep ELSE UNCHANGED <<best, kept>>
        /\ GoOn(IF Diminished(Decision(measured)) THEN "record" ELSE "propose")
  BY DEF EvaluateCandidate
<1> DEFINE decision == Decision(measured)
<1>3. work' \in Works /\ work'.step \in {"propose", "record"}
  <2> DEFINE next == IF Diminished(decision) THEN "record" ELSE "propose"
  <2>1. next \in Steps /\ next \in {"propose", "record"}
    BY DEF Steps
  <2>2. GoOn(next)
    BY <1>2
  <2> HIDE DEF next
  <2>3. work' = [work EXCEPT !.step = next]
    BY <2>2 DEF GoOn
  <2> QED
    BY <1>1, <2>1, <2>3, WorkTyped
<1>4. CASE decision = "keep"
  <2>1. files' = files /\ best' \in measured /\ Keep
    BY <1>2, <1>4 DEF TakeBack
  <2>2. measured # {}
    BY <2>1
  <2>3. Valid(files) /\ measured \in {{m} : m \in Metrics}
    BY <1>2, <2>2
  <2>4. Coherent(files) /\ best' \in Metrics
    BY <1>1, <2>1, <2>3, ValidIsCoherent
  <2>5. kept' \in [Pinned -> Artifacts] /\ \A t \in Pinned : files[t] = kept'[t]
    BY <1>1, <2>1 DEF Keep, Five
  <2> QED
    BY <1>1, <1>3, <2>1, <2>4, <2>5 DEF ArtifactInv, ArtifactTypes, OfOneSet, WhileWritten, WhileExtended,
                                        WhileEvaluated, WhileProposed, AtRest
<1>5. CASE decision # "keep"
  <2>1. files' = Restored /\ UNCHANGED <<best, kept>>
    BY <1>2, <1>5 DEF TakeBack, Restored
  <2>2. Restored \in Directories /\ \A u \in Five : Restored[u] \in Artifacts /\ Restored[u].set = lastSet
    BY <1>1, TypesAre DEF Restored, Directories
  <2> QED
    BY <1>1, <1>3, <2>1, <2>2 DEF ArtifactInv, ArtifactTypes, OfOneSet, WhileWritten, WhileExtended, WhileEvaluated,
                                  WhileProposed, AtRest
<1> QED
  BY <1>4, <1>5

\* A record of another command, of the set of the templates.
LEMMA RecordWritten ==
  ASSUME files \in Directories, NEW t \in {"promotion", "research"}, NEW f \in Artifacts,
         Coherent(files), f.set = files["spec"].set, f.body # "refused", files' = [files EXCEPT ![t] = f],
         t = "promotion" => \A u \in DOMAIN f.pins : files[u].version = f.pins[u]
  PROVE  files' \in Directories /\ Coherent(files') /\ \A u \in Five : files'[u] = files[u]
<1>1. t \in Types /\ t \notin Five /\ Five \subseteq Types
  BY TypesAre DEF Five, Pinned
<1>2. files' \in Directories /\ \A u \in Types : files'[u] = IF u = t THEN f ELSE files[u]
  BY <1>1 DEF Directories
<1>3. \A u \in Five : files'[u] = files[u]
  BY <1>1, <1>2
<1>4. {"spec", "manifest"} \subseteq Five /\ {"promotion", "research"} \subseteq Types
  BY TypesAre DEF Five, Pinned
<1>5. \A u \in {"promotion", "research"} : files'[u] # Missing => files'[u] \in Artifacts /\ files'[u].set = files["spec"].set /\ files'[u].body # "refused"
  BY <1>2, <1>4 DEF Coherent
<1>6. DOMAIN files["spec"].pins \subseteq Five
  BY <1>4, PinningsAre DEF Coherent, Artifacts, Five
<1>7. files'["promotion"] # Missing => \A u \in DOMAIN files'["promotion"].pins : files'[u].version = files'["promotion"].pins[u]
  <2>1. files'["promotion"] # Missing => DOMAIN files'["promotion"].pins \subseteq Five
    BY <1>5, PinningsAre DEF Artifacts, Five
  <2> QED
    BY <1>2, <1>3, <1>4, <2>1 DEF Coherent
<1>8. Coherent(files')
  BY <1>3, <1>4, <1>5, <1>6, <1>7 DEF Coherent
<1> QED
  BY <1>2, <1>3, <1>8

\* Without its research record, a directory that loads still does.
LEMMA RecordTakenAway ==
  ASSUME files \in Directories, Coherent(files), NEW f
  PROVE  LET d == [[files EXCEPT !["research"] = f] EXCEPT !["research"] = Missing] IN Coherent(d)
<1> DEFINE d == [[files EXCEPT !["research"] = f] EXCEPT !["research"] = Missing]
<1>1. d["research"] = Missing /\ \A u \in Types : u # "research" => d[u] = files[u]
  BY DEF Directories, Types
<1>2. "promotion" \in Types /\ Five \subseteq Types /\ "research" \notin Five /\ {"spec", "manifest"} \subseteq Five
  BY TypesAre DEF Five, Pinned
<1>3. DOMAIN files["spec"].pins \subseteq Five /\ (files["promotion"] # Missing => DOMAIN files["promotion"].pins \subseteq Five)
  BY <1>2, PinningsAre DEF Coherent, Artifacts, Five
<1> HIDE DEF d
<1>4. Coherent(d)
  BY <1>1, <1>2, <1>3 DEF Coherent
<1> QED
  BY <1>4 DEF d

LEMMA WriteResearchRecordKeeps ==
  ASSUME ArtifactInv, WriteResearchRecord
  PROVE  ArtifactInv'
<1>1. /\ files \in Directories /\ work.step \in {"propose", "record"} /\ UNCHANGED lastSet
      /\ \A u \in Five : files[u] \in Artifacts /\ files[u].set = lastSet
      /\ Coherent(files) /\ work' = NoWork /\ best' = NoMetrics /\ kept' = NothingKept /\ lastSet \in 0 .. MaxSets
  BY DEF WriteResearchRecord, Leave, ArtifactInv, ArtifactTypes, OfOneSet, WhileProposed
<1> DEFINE pins == [u \in {"pack"} |-> files["pack"].version]
           f == Artifact(lastSet, {}, pins)
<1>2. PICK body \in {"generated", "refused"} : files' = [files EXCEPT !["research"] = [f EXCEPT !.body = body]]
  BY DEF WriteResearchRecord
<1>3. {"pack"} \in SUBSET Pinned /\ files["pack"].version \in 0 .. MaxBump /\ lastSet \in 1 .. MaxSets
  BY <1>1 DEF Pinned, Five, Artifacts
<1>4. pins \in Pinnings
  <2>1. pins \in [{"pack"} -> 0 .. MaxBump]
    BY <1>3
  <2> HIDE DEF pins
  <2> QED
    BY <1>3, <2>1 DEF Pinnings
<1> HIDE DEF pins
<1>5. f \in Artifacts /\ f.set = lastSet
  BY <1>3, <1>4, ArtifactTyped
<1> HIDE DEF f
<1> DEFINE g == [f EXCEPT !.body = body]
<1>6. g \in Artifacts /\ g.set = lastSet /\ g.body = body
  BY <1>5 DEF Artifacts, Bodies
<1>7. files' = [files EXCEPT !["research"] = g]
  BY <1>2
<1> HIDE DEF g
<1>8. files' \in Directories /\ "research" \in Types /\ files'["research"] = g
  BY <1>1, <1>6, <1>7 DEF Directories, Types
<1>9. Coherent(ButForTheRecord(files'))
  <2>1. CASE body = "generated"
    <3>1. Coherent(files')
      BY <1>1, <1>6, <1>7, <2>1, RecordWritten DEF Five, Pinned
    <3> QED
      BY <1>8, <3>1, NothingButFor
  <2>2. CASE body = "refused"
    <3>1. ButForTheRecord(files') = [[files EXCEPT !["research"] = g] EXCEPT !["research"] = Missing]
      BY <1>6, <1>7, <1>8, <2>2, Parsed DEF ButForTheRecord, Refused
    <3> QED
      BY <1>1, <3>1, RecordTakenAway
  <2> QED
    BY <2>1, <2>2
<1>10. \A u \in Five : files'[u] = files[u]
  BY <1>1, <1>7, TypesAre DEF Directories, Five, Pinned
<1> QED
  BY <1>1, <1>8, <1>9, <1>10, IdleIs DEF ArtifactInv, ArtifactTypes, OfOneSet, WhileWritten, WhileExtended,
                                         WhileEvaluated, WhileProposed, AtRest

LEMMA PromoteDraftKeeps ==
  ASSUME ArtifactInv, PromoteDraft
  PROVE  ArtifactInv'
<1>1. /\ files \in Directories /\ work = NoWork /\ work.step = "idle"
      /\ Valid(files) /\ UNCHANGED <<lastSet, work, best, original, kept, disturbed>>
  BY IdleIs DEF PromoteDraft, ArtifactInv, ArtifactTypes
<1>2. Coherent(files) /\ \A u \in Five : files[u] \in Artifacts
  BY <1>1, ValidIsCoherent DEF Coherent
<1> DEFINE pins == [u \in Pinned |-> files[u].version]
           f == Artifact(files["spec"].set, {}, pins)
<1>3. \A u \in Pinned : files[u].version \in 0 .. MaxBump
  BY <1>2 DEF Five, Artifacts
<1>4. pins \in Pinnings
  <2>1. pins \in [Pinned -> 0 .. MaxBump]
    BY <1>3
  <2> HIDE DEF pins
  <2> QED
    BY <2>1 DEF Pinnings
<1>5. files' = [files EXCEPT !["promotion"] = f]
  BY DEF PromoteDraft
<1>6. \A u \in DOMAIN pins : files[u].version = pins[u]
  OBVIOUS
<1>7. files["spec"].set \in 1 .. MaxSets
  BY <1>2 DEF Five, Pinned, Artifacts
<1> HIDE DEF pins
<1>8. f \in Artifacts /\ f.set = files["spec"].set /\ f.pins = pins /\ f.body = "generated"
  BY <1>4, <1>7, ArtifactTyped
<1> HIDE DEF f
<1>9. files' \in Directories /\ Coherent(files')
  BY <1>1, <1>2, <1>5, <1>6, <1>8, RecordWritten
<1>10. Coherent(ButForTheRecord(files'))
  BY <1>9, NothingButFor
<1> QED
  BY <1>1, <1>9, <1>10 DEF ArtifactInv, ArtifactTypes, OfOneSet, WhileWritten, WhileExtended, WhileEvaluated, WhileProposed, AtRest

LEMMA MigrateArtifactKeeps ==
  ASSUME ArtifactInv, NEW t \in Types, MigrateArtifact(t)
  PROVE  ArtifactInv'
<1>1. /\ files \in Directories /\ work = NoWork /\ work.step = "idle"
      /\ UNCHANGED <<lastSet, work, best, original, kept>> /\ "migrated" \in disturbed'
  BY IdleIs DEF MigrateArtifact, ArtifactInv, ArtifactTypes
<1>2. files[t] \in Artifacts /\ files[t].version + 1 \in 0 .. MaxBump
  BY <1>1, ArtifactAssumption DEF MigrateArtifact, Parses, Directories, Artifacts
<1>3. files' \in Directories
  <2>1. CASE files' = [files EXCEPT ![t].version = @ + 1]
    <3> DEFINE f == files[t]
    <3>1. [f EXCEPT !.version = f.version + 1] \in Artifacts
      BY <1>2 DEF Artifacts
    <3>2. files' = [files EXCEPT ![t] = [f EXCEPT !.version = f.version + 1]]
      BY <2>1
    <3> QED
      BY <1>1, <3>1, <3>2 DEF Directories
  <2>2. CASE files' = [files EXCEPT ![t] = TornFile]
    BY <1>1, <2>2 DEF Directories
  <2> QED
    BY <2>1, <2>2 DEF MigrateArtifact
<1> QED
  BY <1>1, <1>3 DEF ArtifactInv, ArtifactTypes, OfOneSet, WhileWritten, WhileExtended, WhileEvaluated, WhileProposed, AtRest

LEMMA CutCommandKeeps ==
  ASSUME ArtifactInv, CutCommand
  PROVE  ArtifactInv'
<1>1. /\ files \in Directories /\ work \in Works /\ work # NoWork /\ work.step # "idle" /\ work.step \in Steps
      /\ work' = NoWork /\ best' = NoMetrics /\ kept' = NothingKept /\ UNCHANGED <<files, lastSet>>
      /\ disturbed \subseteq disturbed' /\ (work.step \in {"write", "evaluate"} => "cut" \in disturbed')
  BY DEF CutCommand, Leave, ArtifactInv, ArtifactTypes, Works
<1>2. disturbed' = {} => Coherent(files)
  BY <1>1 DEF ArtifactInv, WhileExtended, WhileProposed, Steps
<1>3. AtRest'
  BY <1>1, <1>2, NothingButFor DEF AtRest
<1> QED
  BY <1>1, <1>3, IdleIs DEF ArtifactInv, ArtifactTypes, OfOneSet, WhileWritten, WhileExtended, WhileEvaluated, WhileProposed

LEMMA ArtifactStep == ArtifactInv /\ [ArtifactNext]_artifactVars => ArtifactInv'
<1>1. ASSUME ArtifactInv, UNCHANGED artifactVars PROVE ArtifactInv'
  BY <1>1 DEF artifactVars, ArtifactInv, ArtifactTypes, OfOneSet, WhileWritten, NoLeftover, WhileExtended, WhileEvaluated,
              Restored, WhileProposed, AtRest, Fresh
<1> QED
  BY <1>1, GenerateKeeps, WriteTemplateKeeps, InstallSkillsKeeps, BaselineKeeps, NoCandidateKeeps, WriteCandidateKeeps,
     EvaluateCandidateKeeps, WriteResearchRecordKeeps, PromoteDraftKeeps, MigrateArtifactKeeps, CutCommandKeeps
     DEF ArtifactNext

\* Whatever a model proposes, over any generations, research, promotions and migrations, the
\* directory that is left behind loads but for a research record that its schema refuses, unless
\* one of what the property names happened to it (generate_slow_artifact_set,
\* validate_artifact_directory).
THEOREM DirectoryStaysValid == ArtifactSpec => []StaysValid
<1>1. files \in Directories => ButForTheRecord(files) \in Directories
  BY DEF ButForTheRecord, Directories, Types
<1>2. ArtifactInv => StaysValid
  BY <1>1, ValidIsCoherent, IdleIs DEF ArtifactInv, ArtifactTypes, AtRest, StaysValid
<1> QED
  BY <1>2, ArtifactInitially, ArtifactStep, PTL DEF ArtifactSpec

-----------------------------------------------------------------------------
(* The entries of the loop, and the best of them *)

Entries == {iterations[i] : i \in DOMAIN iterations}

EntriesTyped ==
  /\ iterations \in Seq(Entries)
  /\ \A i \in DOMAIN iterations : iterations[i].decision \in Decisions /\ iterations[i].measured \subseteq Metrics
  /\ disturbed \subseteq {"cut", "leftover", "migrated"}

\* There are entries in the loop only, and none measured better than what was kept.
NoneBetter ==
  /\ work.step \in {"propose", "evaluate", "record"} \/ iterations = <<>>
  /\ \A i \in DOMAIN iterations : \A m \in iterations[i].measured : ~Improves(m, best)

EntriesInv == EntriesTyped /\ NoneBetter

\* What improves on an improvement improves on what that improved on.
LEMMA ImprovesOn ==
  ASSUME NEW a \in Metrics, NEW b \in Metrics, NEW c \in Metrics, Improves(a, b), Improves(b, c)
  PROVE  Improves(a, c)
<1>1. /\ a.matched \in 0 .. 1 /\ b.matched \in 0 .. 1 /\ c.matched \in 0 .. 1
      /\ a.passed \in 0 .. 1 /\ b.passed \in 0 .. 1 /\ c.passed \in 0 .. 1
  BY DEF Metrics
<1>2. a.matched >= b.matched /\ b.matched >= c.matched /\ a.passed >= b.passed /\ b.passed >= c.passed
  BY DEF Improves
<1>3. b.matched # c.matched \/ b.passed # c.passed
  BY DEF Improves, Metrics
<1>4. a.matched >= c.matched /\ a.passed >= c.passed /\ (a.matched # c.matched \/ a.passed # c.passed)
  BY <1>1, <1>2, <1>3
<1> QED
  BY <1>4 DEF Improves

LEMMA DecidedKeeps ==
  ASSUME EntriesInv, NEW decision \in Decisions, NEW measured \in SUBSET Metrics, Decided(decision, measured),
         disturbed' \subseteq {"cut", "leftover", "migrated"}, work'.step \in {"propose", "evaluate", "record"},
         \A m \in Metrics : ~Improves(m, best) => ~Improves(m, best'),
         \A m \in measured : ~Improves(m, best')
  PROVE  EntriesInv'
<1> DEFINE parent == LastKept(decision)
           entry == [parent |-> parent, decision |-> decision, measured |-> measured]
<1>1. iterations' = Append(iterations, entry)
  BY DEF Decided
<1>2. entry.decision \in Decisions /\ entry.measured \subseteq Metrics /\ \A m \in entry.measured : ~Improves(m, best')
  OBVIOUS
<1> HIDE DEF entry
<1>3. /\ DOMAIN iterations' = 1 .. Len(iterations) + 1 /\ iterations'[Len(iterations) + 1] = entry
      /\ DOMAIN iterations = 1 .. Len(iterations)
      /\ \A i \in 1 .. Len(iterations) : iterations'[i] = iterations[i]
      /\ iterations' \in Seq(Entries \union {entry})
  BY <1>1 DEF EntriesInv, EntriesTyped
<1>4. \A i \in DOMAIN iterations' : i = Len(iterations) + 1 \/ i \in 1 .. Len(iterations)
  BY <1>3 DEF EntriesInv, EntriesTyped
<1>5. \A i \in DOMAIN iterations' : /\ iterations'[i].decision \in Decisions /\ iterations'[i].measured \subseteq Metrics
                                    /\ \A m \in iterations'[i].measured : ~Improves(m, best')
  <2>1. ASSUME NEW i \in 1 .. Len(iterations)
        PROVE  /\ iterations'[i].decision \in Decisions /\ iterations'[i].measured \subseteq Metrics
               /\ \A m \in iterations'[i].measured : ~Improves(m, best')
    <3>1. iterations'[i] = iterations[i] /\ i \in DOMAIN iterations
      BY <1>3
    <3>2. iterations[i].decision \in Decisions /\ iterations[i].measured \subseteq Metrics
          /\ \A m \in iterations[i].measured : ~Improves(m, best)
      BY <3>1 DEF EntriesInv, EntriesTyped, NoneBetter
    <3> QED
      BY <3>1, <3>2
  <2> QED
    BY <1>2, <1>3, <1>4, <2>1
<1>6. iterations' \in Seq(Entries')
  BY <1>3 DEF Entries
<1> QED
  BY <1>5, <1>6 DEF EntriesInv, EntriesTyped, NoneBetter

LEMMA EntriesStep == ArtifactInv /\ EntriesInv /\ [ArtifactNext]_artifactVars => EntriesInv'
<1> SUFFICES ASSUME ArtifactInv, EntriesInv, [ArtifactNext]_artifactVars PROVE EntriesInv'
  OBVIOUS
<1>1. CASE UNCHANGED <<iterations, best>> /\ disturbed' \subseteq {"cut", "leftover", "migrated"}
           /\ (work.step \in {"propose", "evaluate", "record"} => work'.step \in {"propose", "evaluate", "record"})
  BY <1>1 DEF EntriesInv, EntriesTyped, NoneBetter, Entries
<1>2. CASE iterations' = <<>> /\ disturbed' \subseteq {"cut", "leftover", "migrated"}
  BY <1>2 DEF EntriesInv, EntriesTyped, NoneBetter, Entries
<1>3. work \in Works /\ best \in Metrics /\ disturbed \subseteq {"cut", "leftover", "migrated"}
  BY DEF ArtifactInv, ArtifactTypes, EntriesInv, EntriesTyped
<1>4. ASSUME NEW step \in {"propose", "evaluate", "record"}, GoOn(step) PROVE work'.step = step
  BY <1>3, <1>4 DEF GoOn, Works
<1>5. CASE Baseline
  <2>1. CASE best' \in Metrics /\ Decided("keep", {best'}) /\ GoOn("propose")
    <3>1. iterations = <<>> /\ UNCHANGED disturbed
      BY <1>5 DEF Baseline, EntriesInv, NoneBetter
    <3>2. work'.step = "propose"
      BY <1>4, <2>1
    <3>3. iterations' = <<[parent |-> LastKept("keep"), decision |-> "keep", measured |-> {best'}]>>
      BY <2>1, <3>1 DEF Decided
    <3>4. ~Improves(best', best')
      BY DEF Improves
    <3> DEFINE entry == [parent |-> LastKept("keep"), decision |-> "keep", measured |-> {best'}]
    <3>5. entry.decision \in Decisions /\ entry.measured = {best'}
      BY DEF Decisions
    <3> HIDE DEF entry
    <3>6. iterations' = <<entry>> /\ DOMAIN iterations' = {1} /\ iterations'[1] = entry
      BY <3>3 DEF entry
    <3>7. iterations' \in Seq(Entries')
      BY <3>6 DEF Entries
    <3> QED
      BY <1>3, <2>1, <3>1, <3>2, <3>4, <3>5, <3>6, <3>7 DEF EntriesInv, EntriesTyped, NoneBetter
  <2>2. CASE Leave
    BY <1>2, <1>3, <1>5, <2>2 DEF Baseline, Leave
  <2> QED
    BY <1>5, <2>1, <2>2 DEF Baseline
<1>6. CASE NoCandidate
  <2>1. Decided("failure", {}) /\ UNCHANGED <<work, best, disturbed>> /\ work.step = "propose"
    BY <1>6 DEF NoCandidate
  <2>2. "failure" \in Decisions /\ {} \in SUBSET Metrics /\ \A m \in {} : ~Improves(m, best')
    BY DEF Decisions
  <2>3. \A m \in Metrics : ~Improves(m, best) => ~Improves(m, best')
    BY <2>1
  <2>4. work'.step \in {"propose", "evaluate", "record"} /\ disturbed' \subseteq {"cut", "leftover", "migrated"}
    BY <1>3, <2>1
  <2> QED
    BY <2>1, <2>2, <2>3, <2>4, DecidedKeeps
<1>7. CASE EvaluateCandidate
  <2>1. PICK measured \in {{}} \union (IF Valid(files) THEN {{m} : m \in Metrics} ELSE {}) :
          /\ IF Decision(measured) = "keep" THEN best' \in measured /\ Keep ELSE UNCHANGED <<best, kept>>
          /\ Decided(Decision(measured), measured)
          /\ GoOn(IF Diminished(Decision(measured)) THEN "record" ELSE "propose")
    BY <1>7 DEF EvaluateCandidate
  <2> DEFINE decision == Decision(measured)
             next == IF Diminished(decision) THEN "record" ELSE "propose"
  <2>2. decision \in Decisions /\ measured \in SUBSET Metrics
    BY DEF Decision, Decisions
  <2>3. work'.step \in {"propose", "evaluate", "record"}
    <3>1. next \in {"propose", "evaluate", "record"} /\ GoOn(next)
      BY <2>1
    <3> HIDE DEF next
    <3> QED
      BY <1>4, <3>1
  <2>4. UNCHANGED disturbed
    BY <1>7 DEF EvaluateCandidate
  <2>5. /\ \A m \in Metrics : ~Improves(m, best) => ~Improves(m, best')
        /\ \A m \in measured : ~Improves(m, best')
    <3>1. CASE decision = "keep"
      <4>1. PICK b \in Metrics : measured = {b} /\ Improves(b, best)
        BY <3>1 DEF Decision
      <4>2. best' = b
        BY <2>1, <3>1, <4>1
      <4>3. \A m \in Metrics : Improves(m, b) => Improves(m, best)
        BY <1>3, <4>1, ImprovesOn
      <4>4. ~Improves(b, b)
        BY DEF Improves
      <4> QED
        BY <4>1, <4>2, <4>3, <4>4
    <3>2. CASE decision # "keep"
      BY <2>1, <3>2 DEF Decision
    <3> QED
      BY <3>1, <3>2
  <2> HIDE DEF decision
  <2>6. Decided(decision, measured)
    BY <2>1 DEF decision
  <2> QED
    BY <1>3, <2>2, <2>3, <2>4, <2>5, <2>6, DecidedKeeps
<1>8. CASE WriteResearchRecord \/ CutCommand
  BY <1>2, <1>3, <1>8 DEF WriteResearchRecord, CutCommand, Leave
<1>9. ASSUME NEW mode \in {"fast", "slow"}, Generate(mode) PROVE EntriesInv'
  BY <1>1, <1>9, IdleIs DEF Generate
<1>10. ASSUME NEW t \in Types, MigrateArtifact(t) PROVE EntriesInv'
  BY <1>1, <1>3, <1>10 DEF MigrateArtifact
<1>11. CASE WriteTemplate \/ InstallSkills \/ PromoteDraft
  <2>1. UNCHANGED <<iterations, best, disturbed>>
    BY <1>11 DEF WriteTemplate, InstallSkills, PromoteDraft
  <2>2. work.step \notin {"propose", "evaluate", "record"}
    BY <1>11, IdleIs DEF WriteTemplate, InstallSkills, PromoteDraft
  <2> QED
    BY <1>1, <1>3, <2>1, <2>2
<1>12. CASE WriteCandidate
  <2>1. work'.step = "evaluate"
    BY <1>4, <1>12 DEF WriteCandidate
  <2> QED
    BY <1>1, <1>3, <1>12, <2>1 DEF WriteCandidate
<1>13. CASE UNCHANGED artifactVars
  BY <1>1, <1>3, <1>13 DEF artifactVars
<1> QED
  BY <1>5, <1>6, <1>7, <1>8, <1>9, <1>10, <1>11, <1>12, <1>13 DEF ArtifactNext

LEMMA EntriesInitially == ArtifactInit => EntriesInv
  BY DEF ArtifactInit, EntriesInv, EntriesTyped, NoneBetter, Entries

\* Between two iterations of research the spec, manifest, bundle and pack on disk are those of
\* the candidate kept last, and none that was measured improves on it, whatever a candidate
\* changes and whatever it measures (generate_slow_artifact_set).
THEOREM BestIsOnDisk == ArtifactSpec => []BestOnDisk
<1>1. ArtifactInv /\ EntriesInv => BestOnDisk
  BY ValidIsCoherent DEF ArtifactInv, ArtifactTypes, WhileProposed, EntriesInv, NoneBetter, BestOnDisk
<1> QED
  BY <1>1, ArtifactInitially, ArtifactStep, EntriesInitially, EntriesStep, PTL DEF ArtifactSpec

LEMMA ArtifactsTyped == ArtifactSpec => []ArtifactTypeOK
<1>1. ArtifactInv => DOMAIN kept \in {{}, Pinned}
  BY DEF ArtifactInv, ArtifactTypes, NothingKept
<1>2. ArtifactInv /\ EntriesInv => ArtifactTypeOK
  BY <1>1, TypesAre DEF ArtifactInv, ArtifactTypes, EntriesInv, EntriesTyped, ArtifactTypeOK, Directories, Artifacts, Works, Steps, Parses
<1> QED
  BY <1>2, ArtifactInitially, ArtifactStep, EntriesInitially, EntriesStep, PTL DEF ArtifactSpec

-----------------------------------------------------------------------------
(* The parts together *)

\* A step of the composition is a step of each part, or leaves its variables alone.
LEMMA StepOfEach ==
  ASSUME [PersistNext]_persistVars
  PROVE  /\ [Next]_vars /\ [MemoryNext]_memoryVars /\ [MigrationNext]_migrationVars
         /\ [EvolutionNext]_evolutionVars /\ [VaultNext]_vaultVars /\ [ArtifactNext]_artifactVars
<1>1. CASE RunnerMoves
  BY <1>1 DEF RunnerMoves, OthersThanRunner
<1>2. CASE MemoryMoves
  BY <1>2 DEF MemoryMoves
<1>3. CASE MigrationMoves
  BY <1>3 DEF MigrationMoves
<1>4. CASE StrategyMoves
  BY <1>4 DEF StrategyMoves
<1>5. CASE WalletMoves
  BY <1>5 DEF WalletMoves
<1>6. CASE ArtifactsMove
  BY <1>6 DEF ArtifactsMove
<1>7. CASE UNCHANGED persistVars
  BY <1>7 DEF persistVars
<1> QED
  BY <1>1, <1>2, <1>3, <1>4, <1>5, <1>6, <1>7 DEF PersistNext

\* A behaviour of the composition is a behaviour of every part: what is proved of a part's
\* specification holds of the part in the agent's directory.
THEOREM EachPartBehaves ==
  PersistSpec => /\ MemorySpec /\ MigrationSpec /\ EvolutionSpec /\ VaultSpec /\ ArtifactSpec
                 /\ Init /\ [][Next]_vars
<1>1. PersistInit => MemoryInit /\ MigrationInit /\ EvolutionInit /\ VaultInit /\ ArtifactInit /\ Init
  BY DEF PersistInit
<1> QED
  BY <1>1, StepOfEach, PTL
  DEF PersistSpec, MemorySpec, MigrationSpec, EvolutionSpec, VaultSpec, ArtifactSpec

\* In the composition every part's variables keep their types, and run() makes no tick too
\* many, for any bounds of any part.
THEOREM DirectoryInOrder == PersistSpec => []PersistInv
<1>1. Init /\ [][Next]_vars => [](TypeOK /\ TicksBounded)
  <2>1. TypeInv => TypeOK
    BY DEF TypeInv
  <2> QED
    BY <2>1, TypeInit, TypeStep, TicksInit, TicksStep, PTL
<1>2. MemorySpec => []MemoryTypeOK
  <2>1. MemoryInv => MemoryTypeOK
    BY DEF MemoryInv
  <2> QED
    BY <2>1, MemoryInitially, MemoryStep, PTL DEF MemorySpec
<1>3. MigrationSpec => []MigrationTypeOK
  <2>1. RowsInv => MigrationTypeOK
    BY DEF RowsInv
  <2> QED
    BY <2>1, RowsInit, RowsStep, PTL DEF MigrationSpec
<1>4. /\ TypeOK /\ TicksBounded /\ MemoryTypeOK /\ MigrationTypeOK /\ EvolutionTypeOK /\ VaultTypeOK /\ ArtifactTypeOK
      => PersistInv
  BY DEF PersistInv
<1> QED
  BY <1>1, <1>2, <1>3, <1>4, EachPartBehaves, EvolutionTyped, VaultTyped, ArtifactsTyped, PTL
=============================================================================
