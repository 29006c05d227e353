---------------------------- MODULE WalletVault -----------------------------
(***************************************************************************)
(* The wallet of one agent directory: provisioning, backup and restore     *)
(* (wallet.py), the locking of files and the encryption of backups         *)
(* (security_hardening.py), and the commands around them (cli.py).  A      *)
(* command goes step by step and may be cut short between two.             *)
(*                                                                         *)
(* A wallet is the number of its mnemonic, 0 for none.  The agent's wallet *)
(* always has the same name, so its vault holds one.  The OWS library is   *)
(* external; the generator gives no passphrase.                            *)
(***************************************************************************)
EXTENDS Integers, FiniteSets

CONSTANTS
  MaxWallets,   \* bound: mnemonics generated
  MaxBackups    \* bound: backup files

ASSUME VaultAssumption == MaxWallets \in Nat /\ MaxBackups \in Nat

VARIABLES
  installed, \* the OWS library is there
  vault,     \* the wallet in .ows
  config,    \* wallet.json: its provider and wallet
  token,     \* the wallet whose API key is in .env
  envOpen,   \* .env is readable by others
  ignored,   \* .gitignore names the secret files
  exports,   \* backup files: where, of which wallet, encrypted, readable by others
  passed,    \* what the last security check exited with
  made,      \* mnemonics generated
  job,       \* the command under way
  shown,     \* ghost: wallets whose mnemonic was printed
  named,     \* ghost: wallets wallet.json has named
  cut        \* ghost: wallets whose provisioning ended early

vaultVars == <<installed, vault, config, token, envOpen, ignored, exports, passed, made, job, shown, named, cut>>
fileVars == <<config, token, envOpen, ignored, exports, passed>>

Wallets == 1 .. MaxWallets
Backups == [where : {"default", "chosen"}, wallet : Wallets, sealed : BOOLEAN, open : BOOLEAN]
NoJob == [at |-> "idle", wallet |-> 0, key |-> FALSE, file |-> {}]

VaultTypeOK ==
  /\ installed \in BOOLEAN
  /\ vault \in 0 .. MaxWallets /\ token \in 0 .. MaxWallets /\ made \in 0 .. MaxWallets
  /\ config \in [provider : {"none", "ows", "simulated"}, wallet : 0 .. MaxWallets]
  /\ envOpen \in BOOLEAN /\ ignored \in BOOLEAN /\ passed \in BOOLEAN
  /\ exports \subseteq Backups
  /\ job.at \in {"idle", "import", "clear", "retry", "key", "save", "env", "chmod", "ignore",
                 "harden", "show", "lock", "seal"}
  /\ job.wallet \in 0 .. MaxWallets /\ job.key \in BOOLEAN /\ job.file \subseteq Backups
  /\ shown \subseteq Wallets /\ named \subseteq Wallets /\ cut \subseteq Wallets

VaultInit ==
  /\ installed \in BOOLEAN
  /\ vault = 0 /\ token = 0 /\ made = 0
  /\ config = [provider |-> "none", wallet |-> 0]
  /\ envOpen = FALSE /\ ignored = FALSE /\ exports = {} /\ passed = FALSE
  /\ job = NoJob
  /\ shown = {} /\ named = {} /\ cut = {}

-----------------------------------------------------------------------------
(* provision_wallet *)

At(place) == job.at = place
GoTo(place) == job' = [job EXCEPT !.at = place]

\* The mnemonic is generated; without the library the wallet is simulated.
Provision ==
  /\ At("idle")
  /\ IF installed
     THEN made < MaxWallets /\ made' = made + 1 /\ job' = [NoJob EXCEPT !.at = "import", !.wallet = made + 1]
     ELSE job' = [NoJob EXCEPT !.at = "save"] /\ UNCHANGED made
  /\ UNCHANGED <<installed, vault, fileVars, shown, named, cut>>

\* The first import fails where the vault has a wallet of that name, or for another reason.
ImportMnemonic ==
  /\ At("import")
  /\ \/ vault = 0 /\ vault' = job.wallet /\ GoTo("key")
     \/ UNCHANGED vault /\ GoTo("clear")
  /\ UNCHANGED <<installed, fileVars, made, shown, named, cut>>

\* Whatever it was, the wallet of that name is deleted; a failure to is passed over.
ClearName ==
  /\ At("clear")
  /\ vault' \in {0, vault}
  /\ GoTo("retry")
  /\ UNCHANGED <<installed, fileVars, made, shown, named, cut>>

\* The second import; a RuntimeError of it makes the wallet a simulated one, any other ends
\* the command.
RetryImport ==
  /\ At("retry")
  /\ \/ vault = 0 /\ vault' = job.wallet /\ GoTo("key") /\ UNCHANGED cut
     \/ UNCHANGED vault /\ job' = [NoJob EXCEPT !.at = "save"] /\ UNCHANGED cut
     \/ UNCHANGED vault /\ job' = NoJob /\ cut' = cut \union {job.wallet}
  /\ UNCHANGED <<installed, fileVars, made, shown, named>>

\* The policy and the key it scopes; a failure of either leaves the wallet without one.
MakeKey ==
  /\ At("key")
  /\ \E key \in BOOLEAN : job' = [job EXCEPT !.at = "save", !.key = key]
  /\ UNCHANGED <<installed, vault, fileVars, made, shown, named, cut>>

\* _save_wallet_config: wallet.json.
SaveConfig ==
  /\ At("save")
  /\ config' = [provider |-> IF job.wallet = 0 THEN "simulated" ELSE "ows", wallet |-> job.wallet]
  /\ named' = named \union ({job.wallet} \ {0})
  /\ IF job.wallet = 0 THEN job' = NoJob ELSE GoTo(IF job.key THEN "env" ELSE "harden")
  /\ UNCHANGED <<installed, vault, token, envOpen, ignored, exports, passed, made, shown, cut>>

\* .env, if there is a key; the one of a wallet before is not removed.
SaveKey ==
  /\ At("env")
  /\ token' = job.wallet
  /\ envOpen' = (token = 0 \/ envOpen)
  /\ GoTo("chmod")
  /\ UNCHANGED <<installed, vault, config, ignored, exports, passed, made, shown, named, cut>>

LockKey ==
  /\ At("chmod")
  /\ envOpen' = FALSE /\ GoTo("ignore")
  /\ UNCHANGED <<installed, vault, config, token, ignored, exports, passed, made, shown, named, cut>>

IgnoreSecrets ==
  /\ At("ignore")
  /\ ignored' = TRUE /\ GoTo("harden")
  /\ UNCHANGED <<installed, vault, config, token, envOpen, exports, passed, made, shown, named, cut>>

\* harden_agent_directory: only backups with the name it gives are found.
Locked(copies) == {IF b.where = "default" THEN [b EXCEPT !.open = FALSE] ELSE b : b \in copies}

Harden ==
  /\ At("harden")
  /\ envOpen' = FALSE /\ exports' = Locked(exports)
  /\ GoTo("show")
  /\ UNCHANGED <<installed, vault, config, token, ignored, passed, made, shown, named, cut>>

\* Mutant: the mnemonic is only printed with a key.
ShowCredentialsOfKey ==
  /\ At("show")
  /\ shown' = IF job.key THEN shown \union {job.wallet} ELSE shown
  /\ job' = NoJob
  /\ UNCHANGED <<installed, vault, fileVars, made, named, cut>>

\* _print_credentials: once.
ShowCredentials ==
  /\ At("show")
  /\ shown' = shown \union {job.wallet}
  /\ job' = NoJob
  /\ UNCHANGED <<installed, vault, fileVars, made, named, cut>>

-----------------------------------------------------------------------------
(* Backup and restore *)

\* backup_agent_wallet: the export is written plain, over a file of the chosen name.
WriteBackup ==
  /\ At("idle") /\ installed /\ config.provider = "ows" /\ vault # 0
  /\ \E where \in {"default", "chosen"} :
       LET old  == {b \in exports : where = "chosen" /\ b.where = where}
           open == old = {} \/ \E b \in old : b.open
           file == [where |-> where, wallet |-> vault, sealed |-> FALSE, open |-> open]
       IN /\ Cardinality((exports \ old) \union {file}) <= MaxBackups
          /\ exports' = (exports \ old) \union {file}
          /\ job' = [NoJob EXCEPT !.at = "lock", !.file = {file}]
  /\ UNCHANGED <<installed, vault, config, token, envOpen, ignored, passed, made, shown, named, cut>>

Rewrite(file) == exports' = (exports \ job.file) \union {file}

LockBackup ==
  /\ At("lock")
  /\ \E b \in job.file :
       /\ Rewrite([b EXCEPT !.open = FALSE])
       /\ \E next \in {"seal", "idle"} :
            job' = IF next = "idle" THEN NoJob ELSE [job EXCEPT !.at = next, !.file = {[b EXCEPT !.open = FALSE]}]
  /\ UNCHANGED <<installed, vault, config, token, envOpen, ignored, passed, made, shown, named, cut>>

\* wallet-backup encrypts the file in place; passphrases that differ remove it, and where
\* encrypt_backup raises (a short passphrase) the plain one stays.
SealBackup ==
  /\ At("seal")
  /\ \E b \in job.file :
       \/ Rewrite([b EXCEPT !.sealed = TRUE])
       \/ exports' = exports \ job.file
       \/ UNCHANGED exports
  /\ job' = NoJob
  /\ UNCHANGED <<installed, vault, config, token, envOpen, ignored, passed, made, shown, named, cut>>

\* restore_agent_wallet: into the vault only; it fails where the vault has one already.
Restore ==
  /\ At("idle") /\ installed /\ vault = 0
  /\ \E b \in exports : vault' = b.wallet
  /\ UNCHANGED <<installed, fileVars, made, job, shown, named, cut>>

-----------------------------------------------------------------------------
(* Around them *)

\* preflight_security_check: a real wallet, and no secret in plain text where the scanner
\* looks, which is not in a file it takes for a backup; permissions only warn.
PreflightPasses ==
  /\ config.provider = "ows"
  /\ \A b \in exports : b.where = "chosen" => b.sealed

\* security-check, which first hardens the directory if it is asked to.
SecurityCheck ==
  /\ At("idle")
  /\ \/ envOpen' = FALSE /\ exports' = Locked(exports)
     \/ UNCHANGED <<envOpen, exports>>
  /\ passed' = PreflightPasses
  /\ UNCHANGED <<installed, vault, config, token, ignored, made, job, shown, named, cut>>

\* The command is cut short between two steps.
CutShort ==
  /\ ~At("idle")
  /\ cut' = IF job.at \in {"lock", "seal"} THEN cut ELSE cut \union ({job.wallet} \ {0})
  /\ job' = NoJob
  /\ UNCHANGED <<installed, vault, fileVars, made, shown, named>>

VaultNext ==
  \/ Provision \/ ImportMnemonic \/ ClearName \/ RetryImport \/ MakeKey
  \/ SaveConfig \/ SaveKey \/ LockKey \/ IgnoreSecrets \/ Harden \/ ShowCredentials
  \/ WriteBackup \/ LockBackup \/ SealBackup \/ Restore \/ SecurityCheck \/ CutShort

VaultSpec == VaultInit /\ [][VaultNext]_vaultVars

-----------------------------------------------------------------------------
(* Properties *)

\* A wallet that wallet.json has named, which may have been paid into, can still be had:
\* from the vault, from a backup, or from the words its user was shown, over any order of
\* provisioning anew (which deletes the one before), backups and restores; only one whose
\* provisioning was cut short can be lost (_provision_ows_wallet, _print_credentials).
MnemonicSomewhere ==
  \A w \in named : w \in {vault} \union shown \union cut \union {b.wallet : b \in exports}
                          \union (IF At("idle") THEN {} ELSE {job.wallet})
=============================================================================
