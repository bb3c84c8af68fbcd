--------------------------- MODULE SellerRecords ---------------------------
(***************************************************************************)
(* What the seller's own settings go through: the recipient of payments    *)
(* and the storefront branding live in ConfigMaps and a Secret of the      *)
(* cluster, which the base release of the chart re-renders on every sync,  *)
(* and in records under the configuration directory.  `obol sell pricing`  *)
(* and `obol sell info` write both, `obol stack up` syncs the release and  *)
(* replays the records (internal/x402/setup.go, internal/x402/record.go,   *)
(* cmd/obol/sell_info.go, internal/storefront, internal/replay).  The same *)
(* sync is made around the pools of the buyer, which the controller writes *)
(* and the command snapshots and puts back.                                *)
(***************************************************************************)
EXTENDS Integers, FiniteSets

CONSTANTS Buys,             \* the purchases whose pools the controller keeps
          MaxRecordCmds,    \* bound: commands given
          MaxRecordFaults   \* bound: steps that fail or are cut

ASSUME RecordAssumption ==
    IsFiniteSet(Buys) /\ {MaxRecordCmds, MaxRecordFaults} \subseteq Nat

VARIABLES payRec,       \* <config>/x402/pricing.yaml: a recipient, 0 for no record
          payCM,        \* the wallet of ConfigMap x402-pricing, 0 for the chart's ""
          paySecret,    \* WALLET_ADDRESS of Secret x402-secrets, 0 for the chart's ""
          unlock,       \* x402-pricing carries the authCaptureUnlock of the values
          brandRec,     \* <config>/storefront/profile.json
          brandCM,      \* ConfigMap obol-storefront-profile
          brandShown,   \* the branding of the published catalog
          pool,         \* the version of each purchase's entry in the buyer
                        \* ConfigMaps, 0 for none
          poolOwners,   \* the field managers owning that entry
          poolWant,     \* ghost: the version the controller last wrote
          qcluster,     \* there is a cluster
          qcmd,         \* the command under way
          askedPayee,   \* ghost: the recipients that may be in force
          askedBrand,   \* ghost: per field, the values that may be in force
          priced,       \* ghost: the pricing was replayed since it was last reset
          branded,      \* ghost: the branding was, or was written since
          raced,        \* ghost: purchases written while a restore was under way
          qfaults, qcmds

payVars == <<payRec, payCM, paySecret, unlock>>
brandVars == <<brandRec, brandCM, brandShown>>
poolVars == <<pool, poolOwners, poolWant, raced>>
askVars == <<askedPayee, askedBrand, priced, branded>>
sellerCounts == <<qfaults, qcmds>>
sellerVars ==
    <<payVars, brandVars, poolVars, qcluster, qcmd, askVars, sellerCounts>>

Payees == 1..2
Fields == {"name", "theme"}
Branding == [Fields -> 0..2]            \* 0: the stack's default
NoBrand == [f \in Fields |-> 0]
Pools == [Buys -> 0..2]
QIdle == [op |-> "none", at |-> ""]

QFault == qfaults < MaxRecordFaults /\ qfaults' = qfaults + 1
QBegin(c) == /\ qcmd = QIdle /\ qcmds < MaxRecordCmds
             /\ qcmd' = c /\ qcmds' = qcmds + 1
QAt(op, at) == qcmd.op = op /\ qcmd.at = at
QGoto(at) == qcmd' = [qcmd EXCEPT !.at = at]

-----------------------------------------------------------------------------
\* Server-side apply of the entries of a ConfigMap, as the API server does it:
\* an applied entry is owned by its manager, alone when it changed the value,
\* and an entry the manager owned and no longer applies goes with its last
\* owner.
ServerSideApplied(data) ==
    LET kept(b) == poolOwners[b] \ {"helm"} IN
    /\ pool' = [b \in Buys |-> IF data[b] # 0 THEN data[b]
                               ELSE IF kept(b) = {} THEN 0 ELSE pool[b]]
    /\ poolOwners' = [b \in Buys |->
         IF data[b] = 0 THEN kept(b)
         ELSE IF data[b] = pool[b] THEN poolOwners[b] \cup {"helm"} ELSE {"helm"}]

\* The sync of the base release: the chart's pricing with its empty wallet and
\* the unlock of the values, its empty Secret, and no entry for any pool.
SyncBaseRelease ==
    /\ payCM' = 0 /\ paySecret' = 0 /\ unlock' = TRUE
    /\ ServerSideApplied([b \in Buys |-> 0])
    /\ priced' = FALSE
    /\ UNCHANGED <<payRec, branded>>

\* A mutant: the snapshot goes over what is there.
MergePreviousOver(current, previous) ==
    [b \in Buys |-> IF previous[b] # 0 THEN previous[b] ELSE current[b]]

\* What is put back after the sync: the entries now there, over the ones of
\* the snapshot.
MergeRuntimeConfigMapData(current, previous) ==
    [b \in Buys |-> IF current[b] # 0 THEN current[b] ELSE previous[b]]

-----------------------------------------------------------------------------
(* obol sell pricing *)

\* The snapshot of the mutable ConfigMaps, taken before the sync.
SellPricing(w) ==
    /\ qcluster
    /\ QBegin([op |-> "pricing", at |-> "sync", wallet |-> w,
               snap |-> pool, cur |-> pool])
    /\ UNCHANGED <<payVars, brandVars, poolVars, qcluster, askVars, qfaults>>

\* helmfileSyncBaseRelease.  A recipient no record holds is gone from here on
\* until the command gets to the end.
PricingSyncs ==
    /\ QAt("pricing", "sync") /\ QGoto("read")
    /\ SyncBaseRelease
    /\ askedPayee' = IF payRec = 0 THEN askedPayee \cup {0} ELSE askedPayee
    /\ UNCHANGED <<brandVars, poolWant, raced, qcluster, askedBrand, sellerCounts>>

\* restoreMutableRuntimeConfigMaps reads what the sync left ...
RestoreReads ==
    /\ QAt("pricing", "read")
    /\ qcmd' = [qcmd EXCEPT !.at = "restore", !.cur = pool]
    /\ UNCHANGED <<payVars, brandVars, poolVars, qcluster, askVars, sellerCounts>>

\* ... and applies the merge as "helm"; an empty snapshot is not restored.
RestoreApplies ==
    /\ QAt("pricing", "restore") /\ QGoto("secret")
    /\ IF \A b \in Buys : qcmd.snap[b] = 0
       THEN UNCHANGED <<pool, poolOwners>>
       ELSE ServerSideApplied(MergeRuntimeConfigMapData(qcmd.cur, qcmd.snap))
    /\ UNCHANGED <<payVars, brandVars, poolWant, raced, qcluster, askVars, sellerCounts>>

PatchWalletSecret ==
    /\ QAt("pricing", "secret") /\ QGoto("config")
    /\ paySecret' = qcmd.wallet
    /\ UNCHANGED <<payRec, payCM, unlock, brandVars, poolVars, qcluster, askVars,
                   sellerCounts>>

\* The pricing file is written anew from the wallet, the chain, the
\* facilitator and the routes: what else the chart rendered is left out.
PatchPricingConfig ==
    /\ QAt("pricing", "config") /\ QGoto("record")
    /\ payCM' = qcmd.wallet /\ unlock' = FALSE
    /\ askedPayee' = askedPayee \cup {qcmd.wallet}
    /\ UNCHANGED <<payRec, paySecret, brandVars, poolVars, qcluster, askedBrand,
                   priced, branded, sellerCounts>>

\* The record; when it cannot be written the command warns and succeeds.
SaveRecordedPricing ==
    /\ QAt("pricing", "record") /\ qcmd' = QIdle
    /\ \/ payRec' = qcmd.wallet /\ askedPayee' = {qcmd.wallet} /\ UNCHANGED qfaults
       \/ QFault /\ UNCHANGED <<payRec, askedPayee>>
    /\ priced' = TRUE
    /\ UNCHANGED <<payCM, paySecret, unlock, brandVars, poolVars, qcluster, askedBrand,
                   branded, qcmds>>

-----------------------------------------------------------------------------
(* obol stack up *)

BackfillRecordedPricing(record, live) ==
    IF record = 0 THEN live ELSE record

\* A cluster is made when there is none; settings that no record holds are
\* recorded before the sync.  GetPricingConfig answers a failed read with an
\* empty configuration, so a failure looks like a stack that never sold.
StackUpBackfills ==
    /\ QBegin([op |-> "up", at |-> "sync"])
    /\ qcluster' = TRUE
    /\ \/ payRec' = BackfillRecordedPricing(payRec, payCM) /\ UNCHANGED <<askedPayee, qfaults>>
       \/ /\ QFault /\ payRec = 0 /\ payCM # 0
          /\ askedPayee' = askedPayee \cup {0} /\ UNCHANGED payRec
    /\ UNCHANGED <<payCM, paySecret, unlock, brandVars, poolVars, askedBrand, priced, branded>>

StackUpSyncs ==
    /\ QAt("up", "sync") /\ QGoto("secret")
    /\ SyncBaseRelease
    /\ UNCHANGED <<brandVars, poolWant, raced, qcluster, askedPayee, askedBrand, sellerCounts>>

\* reconcilePricing: the Secret first, then the ConfigMap, each only when it
\* differs.  A failed patch ends the step, and the replay goes on.
Reconciled(record, live) == IF record = 0 THEN live ELSE record

ReconcilePricingSecret ==
    /\ QAt("up", "secret")
    /\ \/ /\ paySecret' = Reconciled(payRec, paySecret)
          /\ QGoto("config") /\ UNCHANGED qfaults
       \/ QFault /\ QGoto("dirty") /\ UNCHANGED paySecret
    /\ UNCHANGED <<payRec, payCM, unlock, brandVars, poolVars, qcluster, askVars, qcmds>>

\* The recorded fields go over the live ones; the unlock stays as it is.
ReconcilePricingConfig ==
    /\ QAt("up", "config")
    /\ \/ /\ payCM' = Reconciled(payRec, payCM)
          /\ QGoto("clean") /\ UNCHANGED qfaults
       \/ QFault /\ QGoto("dirty") /\ UNCHANGED payCM
    /\ UNCHANGED <<payRec, paySecret, unlock, brandVars, poolVars, qcluster, askVars,
                   qcmds>>

\* storefront.ReconcileRecorded: no record, nothing to replay.
ReconcileRecordedProfile ==
    /\ qcmd.op = "up" /\ qcmd.at \in {"clean", "dirty"}
    /\ qcmd' = QIdle
    /\ \/ /\ brandCM' = IF brandRec = NoBrand THEN brandCM ELSE brandRec
          /\ branded' = TRUE /\ UNCHANGED qfaults
       \/ QFault /\ UNCHANGED <<brandCM, branded>>
    /\ priced' = (qcmd.at = "clean")
    /\ UNCHANGED <<payVars, brandRec, brandShown, poolVars, qcluster, askedPayee, askedBrand,
                   qcmds>>

-----------------------------------------------------------------------------
(* obol sell info set and reset *)

\* MergeProfile: only the fields of the patch, 0 for one not given.
MergeProfile(base, patch) ==
    [f \in Fields |-> IF patch[f] # 0 THEN patch[f] ELSE base[f]]

ClearProfileFields(base, cleared) ==
    [f \in Fields |-> IF f \in cleared THEN 0 ELSE base[f]]

\* The profile of the cluster when it has one, else the one of the record.  A
\* failing read of the first falls to the second too.
LoadSellerProfile(failed) ==
    IF ~failed /\ brandCM # NoBrand THEN brandCM ELSE brandRec

\* The command reads the profile and works out the one it is about to write;
\* nothing but defaults means that the profile is deleted.
SetOrResetProfile(failed) ==
    /\ qcluster
    /\ \/ \E patch \in Branding \ {NoBrand} :
            QBegin([op |-> "brand", at |-> "record", fields |-> {f \in Fields : patch[f] # 0},
                    profile |-> MergeProfile(LoadSellerProfile(failed), patch)])
       \/ \E cleared \in SUBSET Fields \ {{}} :
            LET p == ClearProfileFields(LoadSellerProfile(failed), cleared) IN
            QBegin([op |-> "brand", at |-> IF p = NoBrand THEN "delete" ELSE "record",
                    fields |-> cleared, profile |-> p])

BrandCommand ==
    /\ \/ SetOrResetProfile(FALSE) /\ UNCHANGED qfaults
       \/ SetOrResetProfile(TRUE) /\ QFault /\ brandCM # NoBrand
    /\ UNCHANGED <<payVars, brandVars, poolVars, qcluster, askVars>>

\* What the operator may find in force once this command wrote: its profile,
\* and until it has succeeded also what was there.
AskedFor(sure) ==
    askedBrand' = [f \in Fields |->
        IF f \notin qcmd.fields THEN askedBrand[f]
        ELSE IF sure THEN {qcmd.profile[f]}
        ELSE askedBrand[f] \cup {qcmd.profile[f]}]

WriteProfileRecord ==
    /\ QAt("brand", "record") /\ QGoto("apply")
    /\ brandRec' = qcmd.profile /\ AskedFor(FALSE)
    /\ UNCHANGED <<payVars, brandCM, brandShown, poolVars, qcluster, askedPayee, priced, branded,
                   sellerCounts>>

\* The record of a file that cannot be removed stays: the error is dropped.
ApplyOrDeleteProfile ==
    /\ \/ /\ QAt("brand", "apply") /\ brandCM' = qcmd.profile /\ AskedFor(TRUE)
          /\ UNCHANGED <<brandRec, qfaults>>
       \/ /\ QAt("brand", "delete") /\ brandCM' = NoBrand
          /\ \/ brandRec' = NoBrand /\ AskedFor(TRUE) /\ UNCHANGED qfaults
             \/ QFault /\ AskedFor(FALSE) /\ UNCHANGED brandRec
    /\ qcmd' = QIdle /\ branded' = TRUE
    /\ UNCHANGED <<payVars, brandShown, poolVars, qcluster, askedPayee, priced, qcmds>>

-----------------------------------------------------------------------------
\* A step fails where that ends the command, or the command is killed.
RecordCut ==
    /\ qcmd # QIdle /\ QFault /\ qcmd' = QIdle
    /\ UNCHANGED <<payVars, brandVars, poolVars, qcluster, askVars, qcmds>>

\* `obol stack down`: what lives in the cluster goes with it.
SellerClusterGone ==
    /\ qcluster /\ qcmd = QIdle /\ qcmds < MaxRecordCmds /\ qcmds' = qcmds + 1
    /\ qcluster' = FALSE /\ priced' = FALSE /\ branded' = (brandRec = NoBrand)
    /\ payCM' = 0 /\ paySecret' = 0 /\ unlock' = FALSE
    /\ brandCM' = NoBrand /\ brandShown' = NoBrand
    /\ pool' = [b \in Buys |-> 0] /\ poolOwners' = [b \in Buys |-> {}]
    /\ poolWant' = [b \in Buys |-> 0] /\ raced' = {}
    /\ askedPayee' = IF payRec = 0 THEN {0} ELSE askedPayee
    /\ UNCHANGED <<payRec, brandRec, qcmd, askedBrand, qfaults>>

\* The controller rebuilds the catalog from the profile it reads.
PublishBranding ==
    /\ qcluster /\ brandShown # brandCM /\ brandShown' = brandCM
    /\ UNCHANGED <<payVars, brandRec, brandCM, poolVars, qcluster, qcmd, askVars,
                   sellerCounts>>

\* A pool is written, filled up or taken down: a merge of the controller's own
\* into the ConfigMaps.  Between the snapshot and the end of a restore it
\* races with it: a removed entry is put back, and one written after the
\* restore has read goes back to what was read.
ControllerWritesPool(b, v) ==
    /\ qcluster /\ v # pool[b] /\ (v = 0 <=> poolWant[b] = 2) /\ (v = 0 \/ v = poolWant[b] + 1)
    /\ pool' = [pool EXCEPT ![b] = v] /\ poolWant' = [poolWant EXCEPT ![b] = v]
    /\ poolOwners' = [poolOwners EXCEPT ![b] = IF v = 0 THEN {} ELSE {"controller"}]
    /\ raced' = IF \/ QAt("pricing", "restore")
                   \/ v = 0 /\ qcmd.op = "pricing" /\ qcmd.at \in {"sync", "read"}
                THEN raced \cup {b} ELSE raced \ {b}
    /\ UNCHANGED <<payVars, brandVars, qcluster, qcmd, askVars, sellerCounts>>

\* A stack that sells, set up before the records or after.
RecordsInit ==
    /\ payRec \in {0, 1} /\ payCM = 1 /\ paySecret = 1 /\ unlock = TRUE
    /\ brandRec \in {NoBrand, [f \in Fields |-> 1]} /\ brandCM = brandRec
    /\ brandShown = brandRec
    /\ pool = [b \in Buys |-> 0] /\ poolOwners = [b \in Buys |-> {}]
    /\ poolWant = pool /\ raced = {}
    /\ qcluster = TRUE /\ qcmd = QIdle
    /\ askedPayee = {1} /\ askedBrand = [f \in Fields |-> {brandRec[f]}]
    /\ priced = TRUE /\ branded = TRUE
    /\ qfaults = 0 /\ qcmds = 0

RecordsNext ==
    \/ \E w \in Payees : SellPricing(w)
    \/ PricingSyncs \/ RestoreReads \/ RestoreApplies
    \/ PatchWalletSecret \/ PatchPricingConfig \/ SaveRecordedPricing
    \/ StackUpBackfills \/ StackUpSyncs
    \/ ReconcilePricingSecret \/ ReconcilePricingConfig \/ ReconcileRecordedProfile
    \/ BrandCommand \/ WriteProfileRecord \/ ApplyOrDeleteProfile
    \/ RecordCut \/ SellerClusterGone \/ PublishBranding
    \/ \E b \in Buys, v \in 0..2 : ControllerWritesPool(b, v)

RecordsSpec == RecordsInit /\ [][RecordsNext]_sellerVars

-----------------------------------------------------------------------------
(* Properties *)

RecordCommands ==
    {QIdle}
    \cup [op : {"pricing"}, at : {"sync", "read", "restore", "secret", "config", "record"},
          wallet : Payees, snap : Pools, cur : Pools]
    \cup [op : {"up"}, at : {"sync", "secret", "config", "clean", "dirty"}]
    \cup [op : {"brand"}, at : {"record", "apply", "delete"}, fields : SUBSET Fields, profile : Branding]

\* The values of the state (internal/x402/record.go, storefront/profile.go).
RecordsTypeOK ==
    /\ qcmd \in RecordCommands
    /\ payRec \in 0..2 /\ payCM \in 0..2 /\ paySecret \in 0..2 /\ unlock \in BOOLEAN
    /\ brandRec \in Branding /\ brandCM \in Branding /\ brandShown \in Branding
    /\ pool \in Pools /\ poolWant \in Pools
    /\ poolOwners \in [Buys -> SUBSET {"helm", "controller"}]
    /\ askedPayee \subseteq 0..2 /\ askedBrand \in [Fields -> SUBSET (0..2)]
    /\ raced \subseteq Buys
    /\ qcluster \in BOOLEAN /\ priced \in BOOLEAN /\ branded \in BOOLEAN

\* Once a sync and the replay after it went through, payments go where the
\* operator last said, and the Secret and the ConfigMap the gateway reads
\* agree, whichever of the steps before failed (record.go reconcilePricing,
\* BackfillRecordedPricing, setup.go Setup).
PaidToTheOperator ==
    qcluster /\ qcmd = QIdle /\ priced
        => payCM \in askedPayee /\ paySecret = payCM

\* The branding in force is field by field one the operator asked for: a
\* command about one field, a stack up and a lost cluster keep the others
\* (sell_info.go sellInfoSetCommand, storefront/record.go ReconcileRecorded).
BrandingIsAsAsked ==
    qcluster /\ qcmd = QIdle /\ branded
        => \A f \in Fields : brandCM[f] \in askedBrand[f]

\* The pools are what the controller last made them, whatever syncs and
\* restores went over them, but for a write the restore raced with
\* (setup.go restoreMutableRuntimeConfigMaps).
PoolsAreTheControllers == \A b \in Buys \ raced : pool[b] = poolWant[b]

\* The unlock of the values is in force once a sync and its replay went
\* through (base/templates/x402.yaml, record.go).
UnlockSurvivesSyncs ==
    qcluster /\ qcmd = QIdle /\ priced => unlock

\* What is checked of the seller's records and of what a sync resets (setup.go,
\* record.go, sell_info.go).
RecordsInv ==
    /\ RecordsTypeOK
    /\ PaidToTheOperator
    /\ BrandingIsAsAsked
    /\ PoolsAreTheControllers
=============================================================================
