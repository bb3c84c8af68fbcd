----------------------------- MODULE RPCRouting -----------------------------
(***************************************************************************)
(* obol network: what eRPC routes.  One ConfigMap holds the configuration; *)
(* the chart resets it at every sync, a local node registers in it, the    *)
(* operator's endpoints and an overlay document are recorded on the host   *)
(* and replayed.  A hash on the pod template rolls the pods.  The order of *)
(* the upstreams is not kept.  eRPC, helm and the cluster are external.    *)
(***************************************************************************)
EXTENDS Integers

CONSTANTS DocKeys,       \* the sets of entries an overlay document may hold
          NoDoc,         \* no document, nothing recorded, not tracked
          MaxRPCCmds, MaxRPCFaults

\* An entry of the configuration: the chart's upstream, the write policy of the
\* network, the upstreams custom-, chainlist- and local-, and an overlay's own.
RPCKeys == {"base", "policy", "custom", "list", "local", "extra"}
Overlaid == {"base", "custom", "extra"}

OverlayVersion == 3
Versions == 0 .. OverlayVersion
RPCConfigs == [RPCKeys -> Versions]
Custom == [v : {1, 2}, readOnly : BOOLEAN]

ASSUME RPCAssumption ==
    /\ DocKeys \subseteq SUBSET Overlaid /\ {MaxRPCCmds, MaxRPCFaults} \subseteq Nat
    /\ NoDoc \notin DocKeys \cup Custom \cup RPCConfigs \cup Versions

VARIABLES rpcCM,        \* the configuration: an entry's version, 0 for none
          rpcPods,      \* what the pods were started with
          rpcStamp,     \* the configuration whose hash the pod template has
          overlay,      \* erpc-overlay.yaml: the entries it holds
          prov,         \* erpc-overlay-provenance.yaml: what an owned entry replaced
          recCustom, recList,     \* recorded-upstreams.yaml
          nodeFile,     \* values.yaml of the local node: none, on, stopped
          nodeRuns, nodeRelease,  \* its replicas and its release
          rpcCluster,   \* up, down or gone
          under,        \* the configuration as it would be without an overlay
          excused,      \* owned entries whose recorded origin is out of date, and
                        \* the known gaps: unscaled (recorded on the host, not
                        \* yet in the cluster), skew (the pods started with what the
                        \* template's hash does not name)
          rpcGood,      \* what the last commands made good: served, overlay, node
          rpcCmd, rpcFaults, rpcCmds

routeVars == <<rpcCM, rpcPods, rpcStamp>>
overlayVars == <<overlay, prov>>
recordVars == <<recCustom, recList>>
nodeVars == <<nodeFile, nodeRuns, nodeRelease>>
ghostVars == <<under, excused>>
rpcCounts == <<rpcFaults, rpcCmds>>
rpcVars == <<routeVars, overlayVars, recordVars, nodeVars, rpcCluster, ghostVars, rpcGood, rpcCmd, rpcCounts>>

RPCIdle == [pc |-> "idle"]
Reachable == rpcCluster = "up"
RPCFault == rpcFaults < MaxRPCFaults /\ rpcFaults' = rpcFaults + 1

\* A command: its step, what it was asked, and whether it is a stack up that
\* has met no warning.
RPCBegin(pc, arg) ==
    /\ rpcCmd = RPCIdle /\ rpcCmds < MaxRPCCmds /\ rpcCmds' = rpcCmds + 1
    /\ rpcCmd' = [pc |-> pc, arg |-> arg, up |-> FALSE, clean |-> TRUE]
    /\ UNCHANGED rpcFaults
RPCGoto(pc) == rpcCmd' = [rpcCmd EXCEPT !.pc = pc]

\* A command that ran through: what it made good.
RPCEnds(good) == rpcCmd' = RPCIdle /\ rpcGood' = rpcGood \cup good

----------------------------------------------------------------------------
\* Operators on the configuration.

\* The chart's policy sends writes to its own upstream (1), --allow-writes to the
\* custom one (2), and the next read-only endpoint deletes that (3).
ChartRPC == [k \in RPCKeys |-> IF k \in {"base", "policy"} THEN 1 ELSE 0]

With(conf, changes) == [k \in RPCKeys |-> IF k \in DOMAIN changes THEN changes[k] ELSE conf[k]]
NoChange == [k \in {} |-> 0]
Local(v) == [k \in {"local"} |-> v]
Listed(v) == [k \in {"list"} |-> v]

\* configureCustomWritePolicy: an endpoint that takes writes gets them all; a
\* read-only one only removes a policy that names it.
WritePolicy(now, readOnly) == IF ~readOnly THEN 2 ELSE IF now = 2 THEN 3 ELSE now

\* upsertCustomRPCUpstream: the chain's one custom upstream and its policy.
UpsertCustom(conf, c) ==
    [k \in {"custom", "policy"} |-> IF k = "custom" THEN c.v ELSE WritePolicy(conf.policy, c.readOnly)]

Untracked == [k \in Overlaid |-> NoDoc]
Tracked(p) == {k \in Overlaid : p[k] # NoDoc}
KeysOf(doc) == IF doc = NoDoc THEN {} ELSE doc

\* ensureERPCProvenanceTracksOverlay: an owned entry of unknown origin counts as
\* added.
EnsureTracks(p, doc) == [k \in Overlaid |-> IF k \in KeysOf(doc) \ Tracked(p) THEN 0 ELSE p[k]]

\* stripERPCKeys: what an entry replaced comes back, in its place only; an added
\* one goes.
StripKeys(conf, keys, p) ==
    [k \in RPCKeys |-> IF k \notin keys \/ conf[k] = 0 THEN conf[k] ELSE IF k \in Tracked(p) THEN p[k] ELSE 0]

\* captureERPCProvenanceEntries: an entry already tracked is not captured again.
Capture(p, conf, doc) == [k \in Overlaid |-> IF k \in doc \ Tracked(p) THEN conf[k] ELSE p[k]]

\* mergeERPCOverlay
MergeOverlay(conf, doc) == [k \in RPCKeys |-> IF k \in doc THEN OverlayVersion ELSE conf[k]]

\* pruneERPCProvenance: what the document no longer holds.
Prune(p, doc) == [k \in Overlaid |-> IF k \in doc THEN p[k] ELSE NoDoc]

\* Mutant: an entry the document dropped stays.
RetiredNone(p, doc) == {}

\* stripERPCProvenanceKeys: the tracked entries the document dropped.
Retired(p, doc) == Tracked(p) \ doc

\* What a write that is not an overlay's leaves under the overlay; the record of
\* what an owned entry replaced does not follow.
Undercuts(changes) ==
    /\ under' = With(under, changes)
    /\ excused' = (excused \ DOMAIN changes) \cup
                  {k \in DOMAIN changes \cap Tracked(prov) : prov[k] # changes[k] \/ ~rpcCmd.up}

----------------------------------------------------------------------------
\* writeERPCConfig: the ConfigMap, then the hash, which rolls the pods if it
\* differs.

Write(conf, changes, next) ==
    rpcCmd' = [pc |-> "cm", arg |-> rpcCmd.arg, up |-> rpcCmd.up, clean |-> rpcCmd.clean,
               conf |-> conf, changes |-> changes, next |-> next]
Written(next, clean) == rpcCmd' = [pc |-> next, arg |-> rpcCmd.arg, up |-> rpcCmd.up, clean |-> clean]
Upsert(changes, next) == Write(With(rpcCM, changes), changes, next)

PatchConfigMap ==
    /\ rpcCmd.pc = "cm" /\ rpcCM' = rpcCmd.conf /\ RPCGoto("roll")
    /\ Undercuts(rpcCmd.changes) /\ rpcGood' = rpcGood \ {"served"}
    /\ UNCHANGED <<rpcPods, rpcStamp, overlayVars, recordVars, nodeVars, rpcCluster, rpcCounts>>

\* erpcConfigHashPatch
PatchHash ==
    /\ rpcStamp' = rpcCM
    /\ rpcPods' = IF rpcStamp = rpcCM THEN rpcPods ELSE rpcCM
    /\ excused' = IF rpcStamp = rpcCM THEN excused ELSE excused \ {"skew"}

RollPods ==
    /\ rpcCmd.pc = "roll" /\ PatchHash
    /\ Written(rpcCmd.next, rpcCmd.clean) /\ rpcGood' = rpcGood \cup {"served"}
    /\ UNCHANGED <<rpcCM, overlayVars, recordVars, nodeVars, rpcCluster, under, rpcCounts>>

\* The command is cut, or stops at an error.
RPCCut ==
    /\ rpcCmd # RPCIdle /\ RPCFault /\ rpcCmd' = RPCIdle /\ rpcGood' = {}
    /\ UNCHANGED <<routeVars, overlayVars, recordVars, nodeVars, rpcCluster, ghostVars, rpcCmds>>

\* A step of the replay fails, or the one that takes a deleted node out: a
\* warning, and the next one.
WriteWarned ==
    /\ rpcCmd.pc \in {"cm", "roll"} /\ (rpcCmd.up \/ rpcCmd.next = "delns") /\ RPCFault
    /\ Written(IF rpcCmd.next = "upprune" THEN "updone" ELSE rpcCmd.next, FALSE)
    /\ UNCHANGED <<routeVars, overlayVars, recordVars, nodeVars, rpcCluster, ghostVars, rpcGood, rpcCmds>>

----------------------------------------------------------------------------
\* obol network add and remove.

\* AddCustomRPC
AddCustomRPC ==
    /\ rpcCmd.pc = "addcustom" /\ Reachable /\ Upsert(UpsertCustom(rpcCM, rpcCmd.arg), "reccustom")
    /\ UNCHANGED <<routeVars, overlayVars, recordVars, nodeVars, rpcCluster, ghostVars, rpcGood, rpcCounts>>

\* recordCustomRPC
RecordCustomRPC ==
    /\ rpcCmd.pc = "reccustom" /\ recCustom' = rpcCmd.arg /\ RPCEnds({})
    /\ UNCHANGED <<routeVars, overlayVars, recList, nodeVars, rpcCluster, ghostVars, rpcCounts>>

\* AddPublicRPCs: what ChainList has for the chain; RemovePublicRPCs: nothing
\* listed is an error.
ListRPCs ==
    /\ rpcCmd.pc = "list" /\ Reachable /\ (rpcCmd.arg = 0 => rpcCM.list # 0)
    /\ Upsert(Listed(rpcCmd.arg), "reclist")
    /\ UNCHANGED <<routeVars, overlayVars, recordVars, nodeVars, rpcCluster, ghostVars, rpcGood, rpcCounts>>

\* recordChainlistRPCs, unrecordChainlistRPCs
RecordListRPCs ==
    /\ rpcCmd.pc = "reclist" /\ recList' = (rpcCmd.arg = 1) /\ RPCEnds({})
    /\ UNCHANGED <<routeVars, overlayVars, recCustom, nodeVars, rpcCluster, ghostVars, rpcCounts>>

\* A command that cannot reach the cluster, or has nothing to remove.
RPCRefused ==
    /\ \/ rpcCmd.pc \in {"addcustom", "list", "setapply", "reset", "startcluster", "sync"} /\ ~Reachable
       \/ rpcCmd.pc = "list" /\ rpcCmd.arg = 0 /\ rpcCM.list = 0
    /\ RPCEnds({})
    /\ UNCHANGED <<routeVars, overlayVars, recordVars, nodeVars, rpcCluster, ghostVars, rpcCounts>>

----------------------------------------------------------------------------
\* obol network erpc set and reset.

\* SetERPC: the previous document's entries stay known as the overlay's.
SetERPC ==
    /\ rpcCmd.pc = "set" /\ prov' = EnsureTracks(prov, overlay) /\ RPCGoto("setsave")
    /\ excused' = excused \cup (KeysOf(overlay) \ Tracked(prov))
    /\ rpcGood' = rpcGood \ {"overlay"}
    /\ UNCHANGED <<routeVars, overlay, recordVars, nodeVars, rpcCluster, under, rpcCounts>>

SaveOverlay ==
    /\ rpcCmd.pc = "setsave" /\ overlay' = rpcCmd.arg /\ RPCGoto("setapply")
    /\ UNCHANGED <<routeVars, prov, recordVars, nodeVars, rpcCluster, ghostVars, rpcGood, rpcCounts>>

\* applyOverlayToCluster, reconcileERPCOverlayConfig: provenance has the old and
\* the new entries before the cluster is written.
ApplyOverlay(next) ==
    LET base == StripKeys(rpcCM, Retired(prov, overlay), prov) IN
    /\ prov' = Capture(prov, base, overlay)
    /\ Write(MergeOverlay(base, overlay), NoChange, next)

SetApply ==
    /\ rpcCmd.pc = "setapply" /\ Reachable /\ ApplyOverlay("setprune")
    /\ UNCHANGED <<routeVars, overlay, recordVars, nodeVars, rpcCluster, ghostVars, rpcGood, rpcCounts>>

PruneOverlay ==
    /\ rpcCmd.pc = "setprune" /\ prov' = Prune(prov, overlay) /\ RPCEnds({"overlay"})
    /\ UNCHANGED <<routeVars, overlay, recordVars, nodeVars, rpcCluster, ghostVars, rpcCounts>>

\* ResetERPC, removeOverlayFromCluster: without provenance the document's
\* entries go.
ResetERPC ==
    LET keys == IF Tracked(prov) # {} THEN Tracked(prov) ELSE overlay IN
    /\ rpcCmd.pc = "reset" /\ Reachable /\ overlay # NoDoc
    /\ Write(StripKeys(rpcCM, keys, prov), NoChange, "resetdoc")
    /\ excused' = excused \cup (keys \ Tracked(prov))
    /\ UNCHANGED <<routeVars, overlayVars, recordVars, nodeVars, rpcCluster, under, rpcGood, rpcCounts>>

NothingToReset ==
    /\ rpcCmd.pc = "reset" /\ Reachable /\ overlay = NoDoc /\ RPCEnds({})
    /\ UNCHANGED <<routeVars, overlayVars, recordVars, nodeVars, rpcCluster, ghostVars, rpcCounts>>

RemoveOverlayFile ==
    /\ rpcCmd.pc = "resetdoc" /\ overlay' = NoDoc /\ RPCGoto("resetprov")
    /\ UNCHANGED <<routeVars, prov, recordVars, nodeVars, rpcCluster, ghostVars, rpcGood, rpcCounts>>

RemoveProvenance ==
    /\ rpcCmd.pc = "resetprov" /\ prov' = Untracked /\ RPCEnds({"overlay"})
    /\ UNCHANGED <<routeVars, overlay, recordVars, nodeVars, rpcCluster, ghostVars, rpcCounts>>

----------------------------------------------------------------------------
\* obol network install, sync, stop, start and delete, for one ethereum node.

\* Install
InstallNode ==
    /\ rpcCmd.pc = "install" /\ nodeFile' = IF nodeFile = "none" THEN "on" ELSE nodeFile
    /\ RPCEnds({})
    /\ UNCHANGED <<routeVars, overlayVars, recordVars, nodeRuns, nodeRelease, rpcCluster, ghostVars, rpcCounts>>

\* Sync: the chart renders a stopped node with no replicas.
DeployNode ==
    /\ rpcCmd.pc = "sync" /\ Reachable
    /\ nodeRelease' = TRUE /\ nodeRuns' = IF nodeFile = "stopped" THEN 0 ELSE 1
    /\ excused' = excused \ {"unscaled"} /\ RPCGoto("register")
    /\ UNCHANGED <<routeVars, overlayVars, recordVars, nodeFile, rpcCluster, under, rpcGood, rpcCounts>>

\* RegisterERPCUpstream, DeregisterERPCUpstream: patchERPCUpstream
RegisterNode ==
    /\ rpcCmd.pc = "register"
    /\ Upsert(Local(IF nodeFile = "stopped" THEN 0 ELSE 1), IF rpcCmd.up THEN "uplist" ELSE "nodedone")
    /\ UNCHANGED <<routeVars, overlayVars, recordVars, nodeVars, rpcCluster, ghostVars, rpcGood, rpcCounts>>

NodeDone ==
    /\ rpcCmd.pc = "nodedone" /\ RPCEnds({"node"})
    /\ UNCHANGED <<routeVars, overlayVars, recordVars, nodeVars, rpcCluster, ghostVars, rpcCounts>>

\* Stop and Start record first: setValuesStopped.
SetStopped ==
    /\ rpcCmd.pc \in {"stop", "start"}
    /\ nodeFile' = IF rpcCmd.pc = "stop" THEN "stopped" ELSE "on"
    /\ RPCGoto(IF rpcCmd.pc = "stop" THEN "stopcluster" ELSE "startcluster")
    /\ rpcGood' = rpcGood \ {"node"} /\ excused' = excused \cup {"unscaled"}
    /\ UNCHANGED <<routeVars, overlayVars, recordVars, nodeRuns, nodeRelease, rpcCluster, under, rpcCounts>>

\* Stop with the cluster down: the record alone, "it stays down on the next
\* obol stack up".
StopOffline ==
    /\ rpcCmd.pc = "stopcluster" /\ ~Reachable /\ RPCEnds({})
    /\ UNCHANGED <<routeVars, overlayVars, recordVars, nodeVars, rpcCluster, ghostVars, rpcCounts>>

\* scaleWorkloads; without workloads, Start deploys.
ScaleNode ==
    /\ rpcCmd.pc \in {"stopcluster", "startcluster"} /\ Reachable
    /\ IF rpcCmd.pc = "startcluster" /\ ~nodeRelease
       THEN RPCGoto("sync") /\ UNCHANGED <<nodeRuns, excused>>
       ELSE /\ nodeRuns' = IF rpcCmd.pc = "startcluster" THEN 1 ELSE 0
            /\ RPCGoto("register") /\ excused' = excused \ {"unscaled"}
    /\ UNCHANGED <<routeVars, overlayVars, recordVars, nodeFile, nodeRelease, rpcCluster, under, rpcGood, rpcCounts>>

\* Delete: out of eRPC if it can be reached, then the namespace if it is found,
\* then the directory.
DeregisterDeleted ==
    /\ rpcCmd.pc = "delete" /\ rpcGood' = rpcGood \ {"node"}
    /\ IF Reachable THEN Upsert(Local(0), "delns") ELSE RPCGoto("deldir")
    /\ excused' = IF Reachable THEN excused ELSE excused \cup {"unscaled"}
    /\ UNCHANGED <<routeVars, overlayVars, recordVars, nodeVars, rpcCluster, under, rpcCounts>>

DeleteNamespace ==
    /\ rpcCmd.pc = "delns" /\ nodeRelease' = FALSE /\ nodeRuns' = 0 /\ RPCGoto("deldir")
    /\ excused' = excused \ {"unscaled"}
    /\ UNCHANGED <<routeVars, overlayVars, recordVars, nodeFile, rpcCluster, under, rpcGood, rpcCounts>>

DeleteDeployment ==
    /\ rpcCmd.pc = "deldir" /\ nodeFile' = "none" /\ RPCEnds(IF rpcCmd.clean THEN {"node"} ELSE {})
    /\ UNCHANGED <<routeVars, overlayVars, recordVars, nodeRuns, nodeRelease, rpcCluster, ghostVars, rpcCounts>>

----------------------------------------------------------------------------
\* obol stack up: helm sync, then the replay of the records in its order.

\* The sync resets the ConfigMap and not the template.  Pods that start with a
\* stopped cluster may read either configuration.
HelmSync ==
    /\ rpcCmd.pc = "stackup" /\ rpcCluster' = "up" /\ rpcCM' = ChartRPC /\ under' = ChartRPC
    /\ rpcPods' \in CASE rpcCluster = "up" -> {rpcPods}
                      [] rpcCluster = "down" -> {rpcCM, ChartRPC}
                      [] rpcCluster = "gone" -> {ChartRPC}
    /\ rpcStamp' = IF rpcCluster = "gone" THEN NoDoc ELSE rpcStamp
    /\ nodeRelease' = (nodeRelease /\ rpcCluster # "gone")
    /\ nodeRuns' = IF rpcCluster = "gone" THEN 0 ELSE nodeRuns
    /\ excused' = (IF rpcCluster = "gone" THEN {} ELSE excused \cap {"unscaled", "skew"})
                  \cup (IF rpcPods' # rpcPods THEN {"skew"} ELSE {})
                  \cup {k \in Tracked(prov) : prov[k] # ChartRPC[k]}
    /\ rpcGood' = {} /\ rpcCmd' = [rpcCmd EXCEPT !.pc = "upnode", !.up = TRUE]
    /\ UNCHANGED <<overlayVars, recordVars, nodeFile, rpcCounts>>

\* ResumeInstalled: a healthy node registers again, a missing one is deployed.
Resumed == IF nodeRelease THEN "register" ELSE "sync"

\* A node recorded as stopped is skipped.
ResumeInstalled ==
    /\ rpcCmd.pc = "upnode" /\ RPCGoto(IF nodeFile = "on" THEN Resumed ELSE "uplist")
    /\ UNCHANGED <<routeVars, overlayVars, recordVars, nodeVars, rpcCluster, ghostVars, rpcGood, rpcCounts>>

\* ReconcileRecordedRPCs
ReplayListed ==
    /\ rpcCmd.pc = "uplist" /\ IF recList THEN Upsert(Listed(1), "upcustom") ELSE RPCGoto("upcustom")
    /\ UNCHANGED <<routeVars, overlayVars, recordVars, nodeVars, rpcCluster, ghostVars, rpcGood, rpcCounts>>

ReplayCustom ==
    /\ rpcCmd.pc = "upcustom"
    /\ IF recCustom # NoDoc THEN Upsert(UpsertCustom(rpcCM, recCustom), "upoverlay") ELSE RPCGoto("upoverlay")
    /\ UNCHANGED <<routeVars, overlayVars, recordVars, nodeVars, rpcCluster, ghostVars, rpcGood, rpcCounts>>

\* ReconcileERPCOverlay
ReplayOverlay ==
    /\ rpcCmd.pc = "upoverlay"
    /\ IF overlay # NoDoc THEN ApplyOverlay("upprune") ELSE RPCGoto("updone") /\ UNCHANGED prov
    /\ UNCHANGED <<routeVars, overlay, recordVars, nodeVars, rpcCluster, ghostVars, rpcGood, rpcCounts>>

PruneReplayed ==
    /\ rpcCmd.pc = "upprune" /\ prov' = Prune(prov, overlay) /\ RPCGoto("updone")
    /\ UNCHANGED <<routeVars, overlay, recordVars, nodeVars, rpcCluster, ghostVars, rpcGood, rpcCounts>>

StackUpDone ==
    /\ rpcCmd.pc = "updone" /\ RPCEnds(IF rpcCmd.clean THEN {"overlay", "node"} ELSE {})
    /\ UNCHANGED <<routeVars, overlayVars, recordVars, nodeVars, rpcCluster, ghostVars, rpcCounts>>

----------------------------------------------------------------------------
\* obol stack down, or a cluster that is deleted; eRPC's pods start again.

ClusterStops ==
    /\ rpcCmd = RPCIdle /\ rpcCmds < MaxRPCCmds /\ rpcCmds' = rpcCmds + 1
    /\ \E c \in {"down", "gone"} : rpcCluster # c /\ rpcCluster # "gone" /\ rpcCluster' = c
    /\ UNCHANGED <<routeVars, overlayVars, recordVars, nodeVars, ghostVars, rpcGood, rpcCmd, rpcFaults>>

RPCPodsRestart ==
    /\ Reachable /\ rpcPods # rpcCM /\ RPCFault /\ rpcPods' = rpcCM
    /\ excused' = IF rpcStamp \in {NoDoc, rpcCM} THEN excused \ {"skew"} ELSE excused \cup {"skew"}
    /\ UNCHANGED <<rpcCM, rpcStamp, overlayVars, recordVars, nodeVars, rpcCluster, under, rpcGood, rpcCmd, rpcCmds>>

Asked ==
    /\ \/ \E c \in Custom : RPCBegin("addcustom", c)
       \/ \E v \in {0, 1} : RPCBegin("list", v)
       \/ \E d \in DocKeys : RPCBegin("set", d)
       \/ \E pc \in {"reset", "install", "stackup"} : RPCBegin(pc, NoDoc)
       \/ nodeFile # "none" /\ \E pc \in {"sync", "stop", "start", "delete"} : RPCBegin(pc, NoDoc)
    /\ UNCHANGED <<routeVars, overlayVars, recordVars, nodeVars, rpcCluster, ghostVars, rpcGood>>

RPCInit ==
    /\ rpcCM = ChartRPC /\ rpcPods = ChartRPC /\ rpcStamp = NoDoc
    /\ overlay = NoDoc /\ prov = Untracked /\ recCustom = NoDoc /\ recList = FALSE
    /\ nodeFile = "none" /\ nodeRuns = 0 /\ nodeRelease = FALSE /\ rpcCluster = "up"
    /\ under = ChartRPC /\ excused = {} /\ rpcGood = {}
    /\ rpcCmd = RPCIdle /\ rpcFaults = 0 /\ rpcCmds = 0

RPCNext ==
    \/ Asked \/ PatchConfigMap \/ RollPods \/ RPCCut \/ WriteWarned \/ RPCRefused
    \/ AddCustomRPC \/ RecordCustomRPC \/ ListRPCs \/ RecordListRPCs
    \/ SetERPC \/ SaveOverlay \/ SetApply \/ PruneOverlay
    \/ ResetERPC \/ NothingToReset \/ RemoveOverlayFile \/ RemoveProvenance
    \/ InstallNode \/ DeployNode \/ RegisterNode \/ NodeDone \/ SetStopped \/ StopOffline \/ ScaleNode
    \/ DeregisterDeleted \/ DeleteNamespace \/ DeleteDeployment
    \/ HelmSync \/ ResumeInstalled \/ ReplayListed \/ ReplayCustom \/ ReplayOverlay \/ PruneReplayed
    \/ StackUpDone \/ ClusterStops \/ RPCPodsRestart

RPCSpec == RPCInit /\ [][RPCNext]_rpcVars

----------------------------------------------------------------------------

\* A command: a step with what was asked, or a write under way, after which it
\* goes on with its next step.
CustomSteps == {"addcustom", "reccustom"}
ListSteps == {"list", "reclist"}
SetSteps == {"set", "setsave", "setapply", "setprune"}
PlainRPCSteps ==
    {"reset", "resetdoc", "resetprov", "install", "sync", "register", "nodedone", "stop", "start",
     "stopcluster", "startcluster", "delete", "delns", "deldir", "stackup", "upnode", "uplist",
     "upcustom", "upoverlay", "upprune", "updone"}
RPCSteps == CustomSteps \cup ListSteps \cup SetSteps \cup PlainRPCSteps
Argument(step) ==
    IF step \in CustomSteps THEN Custom
    ELSE IF step \in ListSteps THEN {0, 1}
    ELSE IF step \in SetSteps THEN DocKeys ELSE {NoDoc}
Changes ==
    {NoChange} \cup [{"local"} -> {0, 1}] \cup [{"list"} -> {0, 1}] \cup [{"custom", "policy"} -> Versions]
RPCCommand(c) ==
    \/ c = RPCIdle
    \/ c \in [pc : RPCSteps, arg : Argument(c.pc), up : BOOLEAN, clean : BOOLEAN]
    \/ c \in [pc : {"cm", "roll"}, arg : Argument(c.next), up : BOOLEAN, clean : BOOLEAN,
             conf : RPCConfigs, changes : Changes, next : RPCSteps]

\* Every variable is in its domain.
RPCTypeOK ==
    /\ {rpcCM, rpcPods, under} \subseteq RPCConfigs /\ rpcStamp \in RPCConfigs \cup {NoDoc}
    /\ overlay \in DocKeys \cup {NoDoc} /\ prov \in [Overlaid -> Versions \cup {NoDoc}]
    /\ recCustom \in Custom \cup {NoDoc}
    /\ recList \in BOOLEAN /\ nodeRelease \in BOOLEAN
    /\ nodeFile \in {"none", "on", "stopped"} /\ nodeRuns \in {0, 1} /\ rpcCluster \in {"up", "down", "gone"}
    /\ excused \subseteq Overlaid \cup {"unscaled", "skew"} /\ rpcGood \subseteq {"served", "overlay", "node"}
    /\ RPCCommand(rpcCmd)
    /\ rpcFaults \in 0 .. MaxRPCFaults /\ rpcCmds \in 0 .. MaxRPCCmds

\* After set, reset or a clean stack up, eRPC has the document's entries and,
\* everywhere else, what is configured without one: a document that drops an
\* entry, or goes, gives back what it replaced, through any replacement of one
\* document by another, failure and replay.  Entries that changed beneath the
\* overlay, or whose origin had to be guessed, are excused.
OverlayOwnsOnlyItsOwn ==
    (rpcCmd = RPCIdle /\ "overlay" \in rpcGood) =>
        \A k \in RPCKeys \ excused :
            rpcCM[k] = IF k \in KeysOf(overlay) THEN OverlayVersion ELSE under[k]

\* After a command about the node or a clean stack up, the local upstream is in
\* eRPC and the node runs exactly when it is deployed and not recorded as
\* stopped.
NodeFollowsItsRecord ==
    (rpcCmd = RPCIdle /\ Reachable /\ "node" \in rpcGood /\ "unscaled" \notin excused) =>
        LET on == IF nodeFile = "on" /\ nodeRelease THEN 1 ELSE 0 IN
        rpcCM.local = on /\ nodeRuns = on

\* Once a command has written the configuration and is over, the pods run it.
PodsServeConfig ==
    (rpcCmd = RPCIdle /\ Reachable /\ "served" \in rpcGood /\ "skew" \notin excused) => rpcPods = rpcCM

\* What is checked of the eRPC configuration, its overlay and the local node
\* (overlay.go, rpc.go, network.go).
RPCInv ==
    /\ RPCTypeOK
    /\ OverlayOwnsOnlyItsOwn
    /\ NodeFollowsItsRecord
    /\ PodsServeConfig
=============================================================================
