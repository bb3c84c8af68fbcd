---------------------------- MODULE WalletVault ----------------------------
(***************************************************************************)
(* The wallet of a Hermes instance (internal/hermes: hermes.go, wallet.go, *)
(* wallet_import.go, wallet_backup.go, wallet_export.go) and the stack's   *)
(* backup (internal/stackbackup).  A wallet is spread over three places    *)
(* that no write joins: the keystore file in the data directory, the       *)
(* password and wallet.json in the deployment directory, and the Secret    *)
(* and the running remote-signer in the cluster.                           *)
(*                                                                         *)
(* A keystore is named by its number, and its password has the same one:   *)
(* a pair opens when the numbers agree.                                    *)
(***************************************************************************)
EXTENDS Integers, FiniteSets

CONSTANTS MaxWalletCmds,   \* bound: commands
          MaxWalletFaults, \* bound: crashes, failing calls, cluster stops and starts
          Nothing          \* no deployment, no archive, no signer

\* A deployment directory, a backup file, a running signer, a stack archive.
WalletDirs == [pw : Nat, meta : Nat]
WalletBackups == [ks : Nat, pw : Nat]
Signers == [pw : Nat, files : SUBSET Nat]
Archives == [dir : WalletDirs, data : SUBSET Nat, backup : WalletBackups \cup {Nothing}, sealed : BOOLEAN]

ASSUME WalletAssumption ==
    /\ {MaxWalletCmds, MaxWalletFaults} \subseteq Nat
    /\ Nothing \notin WalletDirs \cup WalletBackups /\ Nothing \notin Signers \cup Archives

VARIABLES wdir,     \* deployment directory: password in values-remote-signer.yaml, wallet.json
          wvol,     \* keystores in the data directory
          wold,     \* keystores archived under replaced/
          readable, \* the host user may read the keystore directory
          wcl,      \* cluster: up, password Secret, wallet-metadata, running signer
          wback,    \* wallet backup files
          warch,    \* stack archive
          wcmd,     \* the running command
          wnew,     \* keystores made so far
          wok,      \* the last command ended without a warning and reached the cluster
          wtorn,    \* a command was cut between the files of one wallet
          wleft,    \* an import brought a wallet.json and did not see to its keystore
          wfaults, wcmds

walletVars == <<wdir, wvol, wold, readable, wcl, wback, warch, wcmd, wnew, wok, wtorn, wleft, wfaults, wcmds>>
walletHost == <<wdir, wvol, wold, readable, wnew>>

NoCluster == [up |-> FALSE, secret |-> 0, published |-> 0, signer |-> Nothing]
WIdle == [pc |-> "idle"]
WalletFault == wfaults < MaxWalletFaults /\ wfaults' = wfaults + 1
WalletCalm == UNCHANGED wfaults
WBegin(c) == wcmd = WIdle /\ wcmds < MaxWalletCmds /\ wcmds' = wcmds + 1 /\ wcmd' = c /\ wok' = FALSE
WDone(ok) == wcmd' = WIdle /\ wok' = ok
Opens(b) == b.ks = b.pw

\* ensureVolumeWritable and fixRuntimeVolumeOwnership: a pod-owned directory is
\* handed over, and back, through the k3d node of a running cluster.
EnsureVolumeWritable == readable \/ wcl.up
FixRuntimeVolumeOwnership == readable' = ~wcl.up

\* A remote-signer that starts reads its Secret and the directory, once.
Start(c) == [c EXCEPT !.signer = IF c.secret = 0 THEN Nothing ELSE [pw |-> c.secret, files |-> wvol]]

\* applyWalletMetadataConfigMap and applyHermesKeystorePasswordSecret.
WithMetadata(c) == [c EXCEPT !.published = IF wdir.meta # 0 THEN wdir.meta ELSE @]
WithPassword(c) == [c EXCEPT !.secret = wdir.pw]

----------------------------------------------------------------------------
\* Commands that give the instance a wallet.  Onboard and restore write the
\* password before wallet.json, import writes wallet.json first.

Steps == [onboard |-> [generate |-> "values", values |-> "metadata", metadata |-> "sync"],
          restore |-> [generate |-> "values", values |-> "metadata", metadata |-> "archive",
                       archive |-> "apply"],
          import  |-> [generate |-> "metadata", metadata |-> "values", values |-> "archive",
                       archive |-> "sync"]]
Advance == wcmd' = [wcmd EXCEPT !.pc = Steps[wcmd.kind][wcmd.pc]]
Wallet(kind, ks, pw) ==
    [pc |-> "generate", kind |-> kind, ks |-> ks, pw |-> pw,
     old |-> IF wdir = Nothing THEN 0 ELSE wdir.meta]

\* Onboard: a directory that exists is only overwritten with --force.
Onboard ==
    \E force \in BOOLEAN :
        /\ wdir # Nothing => force
        /\ WBegin(Wallet("onboard", wnew + 1, wnew + 1))
        /\ wdir' = IF wdir = Nothing THEN [pw |-> 0, meta |-> 0] ELSE wdir
        /\ UNCHANGED <<wvol, wold, readable, wcl, wback, warch, wnew, wtorn, wleft, wfaults>>

\* SetupDefault on an existing directory: "already configured", and a sync when
\* the release is missing.  agent sync is the same, always.
OnboardAgain ==
    /\ wdir # Nothing
    /\ WBegin([pc |-> "sync", kind |-> "onboard"])
    /\ UNCHANGED <<walletHost, wcl, wback, warch, wtorn, wleft, wfaults>>

\* ImportPrivateKeyWalletCmd: an instance with a wallet needs --force.
ImportPrivateKeyWallet ==
    /\ wdir # Nothing
    /\ WBegin(Wallet("import", wnew + 1, wnew + 1))
    /\ UNCHANGED <<walletHost, wcl, wback, warch, wtorn, wleft, wfaults>>

\* RestoreWalletCmd of a backup file.
RestoreWallet ==
    \E b \in wback :
        /\ wdir # Nothing
        /\ WBegin(Wallet("restore", b.ks, b.pw))
        /\ UNCHANGED <<walletHost, wcl, wback, warch, wtorn, wleft, wfaults>>

\* GenerateWallet and provisionKeystoreToVolume, or the keystore of the backup.
GenerateWallet ==
    /\ wcmd.pc = "generate" /\ EnsureVolumeWritable
    /\ wvol' = wvol \cup {wcmd.ks}
    /\ wnew' = IF wcmd.ks > wnew THEN wcmd.ks ELSE wnew
    /\ FixRuntimeVolumeOwnership
    /\ Advance
    /\ UNCHANGED <<wdir, wold, wcl, wback, warch, wok, wtorn, wleft, wfaults, wcmds>>

\* generateRemoteSignerValues, written to values-remote-signer.yaml.
WriteRemoteSignerValues ==
    /\ wcmd.pc = "values"
    /\ wdir' = [wdir EXCEPT !.pw = wcmd.pw]
    /\ Advance
    /\ UNCHANGED <<wvol, wold, readable, wcl, wback, warch, wnew, wok, wtorn, wleft, wfaults, wcmds>>

WriteWalletMetadata ==
    /\ wcmd.pc = "metadata"
    /\ wdir' = [wdir EXCEPT !.meta = wcmd.ks] /\ wleft' = FALSE
    /\ Advance
    /\ UNCHANGED <<wvol, wold, readable, wcl, wback, warch, wnew, wok, wtorn, wfaults, wcmds>>

\* archiveReplacedHermesKeystore: the keystore wallet.json named, unless it is
\* the one just written.
Replaced == wcmd.old \in wvol /\ wcmd.old # wcmd.ks

ArchiveReplacedKeystore ==
    /\ wcmd.pc = "archive"
    /\ IF Replaced
       THEN wvol' = wvol \ {wcmd.old} /\ wold' = wold \cup {wcmd.old} /\ FixRuntimeVolumeOwnership
       ELSE UNCHANGED <<wvol, wold, readable>>
    /\ Advance
    /\ UNCHANGED <<wdir, wcl, wback, warch, wnew, wok, wtorn, wleft, wfaults, wcmds>>

\* A failing onboard removes the directory with the passwords in it; import and
\* restore leave what they have written, and so does a crash.
WalletCommandStops ==
    \E crash \in BOOLEAN :
        /\ wcmd.pc \in {"generate", "values", "metadata", "archive"}
        /\ \/ WalletFault
           \/ ~crash /\ wcmd.pc = "generate" /\ ~EnsureVolumeWritable /\ WalletCalm
        /\ wdir' = IF ~crash /\ wcmd.kind = "onboard" THEN Nothing ELSE wdir
        /\ wtorn' = (wtorn \/ wdir' # Nothing)
        /\ WDone(FALSE)
        /\ UNCHANGED <<wvol, wold, readable, wcl, wback, warch, wnew, wleft, wcmds>>

\* syncDeployment: helm writes the Secret and starts a signer that is not there
\* yet; a pod that runs does not roll when only the Secret's data has changed.
Synced(c) ==
    LET new == WithMetadata(WithPassword(c))
    IN  IF c.signer = Nothing THEN Start(new) ELSE new

\* Mutant: an import does not roll the signer.
RolledNever(c) == c

\* restartHermesRemoteSigner: an import rolls the signer after its sync.
Rolled(c) == IF wcmd.kind = "import" THEN Start(c) ELSE c

SyncStep ==
    /\ wcmd.pc = "sync"
    /\ \/ /\ wcl.up /\ wdir.pw # 0 /\ WalletCalm
          /\ wcl' = Rolled(Synced(wcl))
          /\ readable' = FALSE
          /\ WDone(~wtorn /\ ~wleft /\ (wcmd.kind = "import" \/ wcl.signer = Nothing))
       \/ /\ (WalletFault \/ ((~wcl.up \/ wdir.pw = 0) /\ WalletCalm))
          /\ WDone(FALSE) /\ UNCHANGED <<wcl, readable>>
    /\ UNCHANGED <<wdir, wvol, wold, wnew, wback, warch, wtorn, wleft, wcmds>>

\* The cluster half of a restore: wallet-metadata, Secret, restart, each
\* best-effort; without a cluster they all warn.
RestoreApplies ==
    /\ wcmd.pc = "apply"
    /\ \/ /\ wcl.up /\ WalletCalm
          /\ wcl' = Start(WithPassword(WithMetadata(wcl)))
          /\ readable' = FALSE /\ WDone(~wtorn)
       \/ /\ wcl.up /\ WalletFault
          /\ wcl' \in {wcl, WithMetadata(wcl), WithPassword(wcl), WithPassword(WithMetadata(wcl))}
          /\ UNCHANGED readable /\ WDone(FALSE)
       \/ ~wcl.up /\ WalletCalm /\ UNCHANGED <<wcl, readable>> /\ WDone(FALSE)
    /\ UNCHANGED <<wdir, wvol, wold, wnew, wback, warch, wtorn, wleft, wcmds>>

----------------------------------------------------------------------------
\* Backups.

\* BuildHostWalletBackup: the keystore wallet.json names, read on the host or
\* through the k3d node, with the password of the values file.  Nobody checks
\* that the two belong together.
BuildHostWalletBackup ==
    IF wdir # Nothing /\ wdir.meta \in wvol /\ wdir.pw # 0 /\ EnsureVolumeWritable
    THEN [ks |-> wdir.meta, pw |-> wdir.pw] ELSE Nothing

BackupWallet ==
    /\ WBegin(WIdle) /\ BuildHostWalletBackup # Nothing
    /\ wback' = wback \cup {BuildHostWalletBackup}
    /\ UNCHANGED <<walletHost, wcl, warch, wtorn, wleft, wfaults>>

\* addTree: entries the user may not read are skipped, with a warning.
ArchivedData == IF readable THEN wvol ELSE {}

\* An encrypted entry of wallets/ needs the passphrase of the export.
Decrypts(pass) == warch.sealed => pass

\* findDataConflicts: agent data of this host that the archive would overwrite.
DataConflicts == wdir # Nothing \/ wvol \cup wold # {}

\* quiesceNamespaces: the deployments of the namespace are scaled down ...
ExportQuiesces ==
    /\ wdir # Nothing /\ WBegin([pc |-> "export"])
    /\ wcl' = [wcl EXCEPT !.signer = Nothing]
    /\ UNCHANGED <<walletHost, wback, warch, wtorn, wleft, wfaults>>

\* ... wallets/, config/ and what can be read of data/ go into the archive, and
\* the deployments come back; a crash leaves them at zero.
ExportArchives ==
    /\ wcmd.pc = "export"
    /\ \/ /\ WalletCalm
          /\ \E sealed \in BOOLEAN :
                warch' = [dir |-> wdir, data |-> ArchivedData,
                          backup |-> BuildHostWalletBackup, sealed |-> sealed]
          /\ wcl' = IF wcl.up THEN Start(wcl) ELSE wcl
       \/ WalletFault /\ UNCHANGED <<warch, wcl>>
    /\ WDone(FALSE)
    /\ UNCHANGED <<walletHost, wback, wtorn, wleft, wcmds>>

\* preflightWallets: a keystore that only wallets/ carries has to decrypt first.
PreflightWallets(pass) == warch.backup # Nothing /\ warch.data = {} => Decrypts(pass)

\* Import up to the extracted host state.  Without --force a stack or agent data
\* that is there is left alone.  --cluster-only extracts nothing.
ImportExtracts ==
    \E force \in BOOLEAN, pass \in BOOLEAN, clusterOnly \in BOOLEAN :
        /\ warch # Nothing
        /\ WBegin([pc |-> "keystores", pass |-> pass])
        /\ IF clusterOnly THEN wdir # Nothing /\ UNCHANGED <<wdir, wvol, wleft>>
           ELSE /\ DataConflicts => force
                /\ PreflightWallets(pass)
                /\ warch.data # {} => readable \/ wvol \cup wold = {}
                /\ wdir' = warch.dir /\ wvol' = wvol \cup warch.data
                /\ wleft' = (warch.dir.meta \notin warch.data)
        /\ UNCHANGED <<wold, readable, wnew, wcl, wback, warch, wtorn, wfaults>>

\* keystorePresent: what cannot be looked at is left as found.
KeystorePresent(k) == IF readable THEN k \in wvol ELSE wvol \cup wold # {}

\* The checks on an entry of wallets/: it decrypts, it is the wallet the config
\* names, and its password opens its keystore.
Verified(b) == Decrypts(wcmd.pass) /\ wdir.meta \in {0, b.ks} /\ Opens(b)

\* restoreOneWallet: a missing keystore comes from wallets/; when that fails
\* the import ends before it touches the cluster.
RestoreOneWallet ==
    /\ wcmd.pc = "keystores"
    /\ LET b == warch.backup
       IN  IF b = Nothing \/ KeystorePresent(wdir.meta)
           THEN /\ wcmd' = [pc |-> "cluster", written |-> FALSE, clean |-> readable /\ b # Nothing]
                /\ wleft' = (wleft /\ (readable => b = Nothing)) /\ UNCHANGED <<wvol, wok>>
           ELSE IF Verified(b)
           THEN /\ wcmd' = [pc |-> "cluster", written |-> TRUE, clean |-> TRUE]
                /\ wvol' = wvol \cup {b.ks} /\ wleft' = FALSE /\ UNCHANGED wok
           ELSE WDone(FALSE) /\ UNCHANGED <<wvol, wleft>>
    /\ UNCHANGED <<wdir, wold, readable, wnew, wcl, wback, warch, wtorn, wfaults, wcmds>>

\* The process ends before it has looked at wallets/.
ImportCrashes ==
    /\ wcmd.pc = "keystores" /\ WalletFault /\ WDone(FALSE)
    /\ UNCHANGED <<walletHost, wcl, wback, warch, wtorn, wleft, wcmds>>

\* ensureImportCluster: a cluster that is down is started.
EnsureImportCluster == [wcl EXCEPT !.up = TRUE]

\* restartSignersForRestoredKeystores: only a signer that ran before the import,
\* and only for a keystore written from wallets/.
RestartSigners(c) == IF wcl.up /\ wcl.signer # Nothing /\ wcmd.written THEN Start(c) ELSE c

\* The cluster half of an import: ensureImportCluster, SyncInstances, restarts.
ImportApplies ==
    /\ wcmd.pc = "cluster"
    /\ \/ /\ wdir.pw # 0 /\ WalletCalm
          /\ wcl' = RestartSigners(Synced(EnsureImportCluster))
          /\ WDone(~wtorn /\ wcmd.clean /\ (~wcl.up \/ wcl.signer = Nothing \/ wcmd.written))
          /\ readable' = FALSE
       \/ /\ (WalletFault \/ (wdir.pw = 0 /\ WalletCalm))
          /\ WDone(FALSE) /\ UNCHANGED <<wcl, readable>>
    /\ UNCHANGED <<wdir, wvol, wold, wnew, wback, warch, wtorn, wleft, wcmds>>

----------------------------------------------------------------------------
\* Delete: the namespace and the deployment directory; the data directory stays.
DeleteInstance ==
    /\ WBegin(WIdle) /\ (wdir # Nothing \/ wcl.signer # Nothing)
    /\ wdir' = Nothing
    /\ wcl' = IF wcl.up THEN [NoCluster EXCEPT !.up = TRUE] ELSE wcl
    /\ UNCHANGED <<wvol, wold, readable, wnew, wback, warch, wtorn, wleft, wfaults>>

\* stack purge: the cluster and the config directory, with force the data too.
PurgeStack ==
    \E force \in BOOLEAN :
        /\ WBegin(WIdle)
        /\ wdir' = Nothing /\ wcl' = NoCluster
        /\ IF force THEN wvol' = {} /\ wold' = {} /\ readable' = TRUE
           ELSE UNCHANGED <<wvol, wold, readable>>
        /\ UNCHANGED <<wnew, wback, warch, wtorn, wleft, wfaults>>

\* stack down and up: a signer that has its Secret starts again.
StopOrStart ==
    /\ wcmd = WIdle /\ WalletFault
    /\ wcl' = IF wcl.up THEN [wcl EXCEPT !.up = FALSE, !.signer = Nothing]
              ELSE Start([wcl EXCEPT !.up = TRUE])
    /\ readable' = (readable /\ (wcl.up \/ wcl.secret = 0))
    /\ UNCHANGED <<wdir, wvol, wold, wnew, wback, warch, wcmd, wok, wtorn, wleft, wcmds>>

----------------------------------------------------------------------------
WalletInit ==
    /\ wdir = Nothing /\ wvol = {} /\ wold = {} /\ readable = TRUE /\ wnew = 0
    /\ wcl = [NoCluster EXCEPT !.up = TRUE]
    /\ wback = {} /\ warch = Nothing /\ wcmd = WIdle
    /\ wok = FALSE /\ wtorn = FALSE /\ wleft = FALSE /\ wfaults = 0 /\ wcmds = 0

WalletNext ==
    \/ Onboard \/ OnboardAgain \/ ImportPrivateKeyWallet \/ RestoreWallet
    \/ GenerateWallet \/ WriteRemoteSignerValues \/ WriteWalletMetadata
    \/ ArchiveReplacedKeystore \/ WalletCommandStops \/ SyncStep \/ RestoreApplies
    \/ BackupWallet \/ ExportQuiesces \/ ExportArchives
    \/ ImportExtracts \/ RestoreOneWallet \/ ImportCrashes \/ ImportApplies
    \/ DeleteInstance \/ PurgeStack \/ StopOrStart

WalletSpec == WalletInit /\ [][WalletNext]_walletVars

----------------------------------------------------------------------------
WalletKinds == {"onboard", "restore", "import"}
WalletCommands ==
    {WIdle} \cup [pc : {"generate", "values", "metadata", "archive", "sync", "apply"}, kind : WalletKinds,
                 ks : Nat, pw : Nat, old : Nat]
    \cup [pc : {"sync"}, kind : {"onboard"}] \cup [pc : {"export"}]
    \cup [pc : {"keystores"}, pass : BOOLEAN] \cup [pc : {"cluster"}, written : BOOLEAN, clean : BOOLEAN]

\* The values of the state; whatever is named was made.
WalletTypeOK ==
    /\ wdir \in WalletDirs \cup {Nothing} /\ warch \in Archives \cup {Nothing}
    /\ wback \subseteq WalletBackups /\ wcmd \in WalletCommands
    /\ wcl \in [up : BOOLEAN, secret : Nat, published : Nat, signer : Signers \cup {Nothing}]
    /\ readable \in BOOLEAN /\ wok \in BOOLEAN /\ wtorn \in BOOLEAN /\ wleft \in BOOLEAN
    /\ wnew \in Nat /\ wfaults \in 0..MaxWalletFaults /\ wcmds \in 0..MaxWalletCmds
    /\ wvol \cup wold \subseteq 1..wnew
    /\ wdir # Nothing => {wdir.pw, wdir.meta} \subseteq 0..wnew
    /\ {wcl.secret, wcl.published} \subseteq 0..wnew
    /\ \A b \in wback : {b.ks, b.pw} \subseteq 1..wnew

(***************************************************************************)
(* The wallet the instance publishes is one its running signer can sign    *)
(* with, once a command has gone through without a warning: file, password *)
(* Secret and pod agree (wallet_import.go:79-100, wallet_backup.go:138-153,*)
(* import.go:126-170).                                                     *)
(***************************************************************************)
PublishedWalletSigns ==
    wcmd = WIdle /\ wok /\ wcl.signer # Nothing =>
        /\ wcl.published = wdir.meta
        /\ wcl.signer.pw = wdir.meta
        /\ wdir.meta \in wcl.signer.files

(***************************************************************************)
(* A backup that was reported as created opens: unless a command was cut   *)
(* between wallet.json and the password file, keystore and password are a  *)
(* pair (wallet_export.go:49-78).                                          *)
(***************************************************************************)
BackupOpens ==
    ~wtorn => \A b \in wback \cup (IF warch = Nothing THEN {} ELSE {warch.backup} \ {Nothing}) :
                  Opens(b)

(***************************************************************************)
(* What is checked of the wallet commands and of stack export and import   *)
(* (wallet_import.go, wallet_export.go, import.go).                        *)
(***************************************************************************)
WalletInv ==
    /\ WalletTypeOK
    /\ PublishedWalletSigns
    /\ BackupOpens
=============================================================================
