--------------------------- MODULE AgentLifecycle ---------------------------
(***************************************************************************)
(* One sub-agent: the operator's commands (cmd/obol/agent.go, agent_crd.go *)
(* and internal/agentcrd), which write host files, the Agent CR and its    *)
(* host record, and the controller's reconciler (agent.go, agent_wallet.go *)
(* of serviceoffercontroller), which builds and tears down the agent's     *)
(* children.  A command may crash between two of its steps, every call may *)
(* fail, and the cluster may be recreated and replayed from the records.   *)
(***************************************************************************)
EXTENDS Integers, FiniteSets

CONSTANTS AgentSpecs,     \* specs the operator asks for: model, skills, objective, wallet
          NoAgent,        \* no CR, no record, no file
          Unknown,        \* what a command has left that did not succeed
          MaxAgentFaults, \* bound: failing calls, crashes, cluster recreations
          MaxAgentCmds    \* bound: commands

\* The models an agent may have, "" for one to be pinned; the CR, and the
\* config map as it was last rendered.
Models == {""} \cup {s.model : s \in AgentSpecs}
CRs == [spec : AgentSpecs, deleting : BOOLEAN, finalizer : BOOLEAN, pinned : Models,
        address : Nat, ready : BOOLEAN]
Configs == [hash : Models, edited : BOOLEAN]

ASSUME AgentAssumption ==
    /\ \A s \in AgentSpecs : DOMAIN s = {"model", "skills", "objective", "wallet"}
    /\ {MaxAgentFaults, MaxAgentCmds} \subseteq Nat
    /\ NoAgent \notin AgentSpecs \cup CRs \cup Configs /\ Unknown \notin AgentSpecs \cup {NoAgent}

VARIABLES cr,      \* the Agent CR, or NoAgent
          fresh,   \* the reconciler's copy carries the CR's resourceVersion
          kids,    \* the agent's children in the cluster
          host,    \* its data directory on the host
          record,  \* its recorded manifest, or NoAgent
          sales,   \* its ServiceOffer: in the cluster, in the resume ledger
          cmd,     \* the running command
          ctl,     \* the running reconcile
          want,    \* the spec the last command left behind, Unknown
          replayed,\* the cluster holds what the records replay
          forced,  \* a finalizer was stripped in this cluster
          faults, cmds

agentVars == <<cr, fresh, kids, host, record, sales, cmd, ctl, want, replayed, forced, faults, cmds>>

NoKids == [config |-> NoAgent, deployment |-> FALSE, isolated |-> FALSE, signer |-> FALSE,
           keystore |-> 0, data |-> FALSE]
NoHost == [skills |-> NoAgent, bak |-> NoAgent, soul |-> NoAgent]
Idle == [pc |-> "idle"]
NewCR(spec) == [spec |-> spec, deleting |-> FALSE, finalizer |-> FALSE,
                pinned |-> "", address |-> 0, ready |-> FALSE]

AgentFault == faults < MaxAgentFaults /\ faults' = faults + 1
AgentCalm == UNCHANGED faults

----------------------------------------------------------------------------
\* The API server.

\* kubectl apply and server-side apply: create the CR, or set its spec.
Applied(spec) == IF cr = NoAgent THEN NewCR(spec) ELSE [cr EXCEPT !.spec = spec]

\* An object that is being deleted goes when its last finalizer does.
Reaped(o) == IF o.deleting /\ ~o.finalizer THEN NoAgent ELSE o

\* A write by anyone makes the reconciler's copy stale.
WriteCR(o) == cr' = o /\ fresh' = (fresh /\ o = cr)

----------------------------------------------------------------------------
\* Host files.

\* agentskills.Write adds the chosen skills; WriteSoul leaves an existing SOUL.md
\* unless it is to be overwritten.
SeedHostFiles(spec, exact, overwrite) ==
    [host EXCEPT
        !.skills = IF exact \/ @ = NoAgent THEN spec.skills ELSE @ \cup spec.skills,
        !.bak = IF exact THEN NoAgent ELSE @,
        !.soul = IF overwrite \/ @ = NoAgent THEN spec.objective ELSE @]

\* syncHostSkillsExact dies between its two renames: the backup is all that is left.
SkillsRenamedAway == [host EXCEPT !.skills = NoAgent, !.bak = host.skills]

----------------------------------------------------------------------------
\* Commands.  A command that fails, warns or crashes leaves want unknown.

Begin(c) == cmd = Idle /\ cmds < MaxAgentCmds /\ cmds' = cmds + 1 /\ cmd' = c
End(w) == cmd' = Idle /\ want' = w
Fails == AgentFault /\ End(Unknown)

\* createCRDAgent up to the seeded host files.  The check for an existing CR is
\* skipped when the lookup fails.
CreateSeeds ==
    \E spec \in AgentSpecs :
        /\ Begin([pc |-> "apply", spec |-> spec])
        /\ \/ cr = NoAgent /\ AgentCalm
           \/ AgentFault
        /\ host' = SeedHostFiles(spec, FALSE, FALSE)
        /\ want' = Unknown
        /\ UNCHANGED <<cr, fresh, kids, record, sales, ctl, replayed, forced>>

\* agent update up to the host files: the CR is read, then skills and SOUL.md
\* are synced; the sync may die half way, and its temporary copy is lost.
UpdateSeeds ==
    \E spec \in AgentSpecs :
        /\ cr # NoAgent /\ spec.wallet = cr.spec.wallet /\ spec # cr.spec
        /\ want' = Unknown
        /\ LET skills == spec.skills # cr.spec.skills
               objective == spec.objective # cr.spec.objective
           IN  \/ /\ AgentCalm
                  /\ Begin([pc |-> "apply", spec |-> spec])
                  /\ host' = IF skills THEN SeedHostFiles(spec, TRUE, objective)
                             ELSE IF objective THEN [host EXCEPT !.soul = spec.objective]
                             ELSE host
               \/ /\ AgentFault /\ Begin(Idle)
                  /\ skills /\ host.skills # NoAgent /\ host' = SkillsRenamedAway
        /\ UNCHANGED <<cr, fresh, kids, record, sales, ctl, replayed, forced>>

\* Both commands apply the CR, also one a delete that timed out is still draining:
\* such an agent goes although the command succeeded.
CommandApplies ==
    /\ cmd.pc = "apply"
    /\ \/ /\ AgentCalm /\ WriteCR(Applied(cmd.spec)) /\ UNCHANGED want
          /\ cmd' = [pc |-> "persist", spec |-> cmd.spec, lives |-> cr = NoAgent \/ ~cr.deleting]
       \/ Fails /\ UNCHANGED <<cr, fresh>>
    /\ UNCHANGED <<kids, host, record, sales, ctl, replayed, forced, cmds>>

\* PersistManifest: temporary file and rename; a failure is a warning.
PersistManifest ==
    /\ cmd.pc = "persist"
    /\ \/ /\ AgentCalm /\ record' = cmd.spec
          /\ End(IF cmd.lives THEN cmd.spec ELSE Unknown)
       \/ Fails /\ UNCHANGED record
    /\ UNCHANGED <<cr, fresh, kids, host, sales, ctl, replayed, forced, cmds>>

\* deleteCRDAgent: the DELETE request, or no cluster and host files only.
DeleteRequests ==
    \E force \in BOOLEAN, reachable \in BOOLEAN :
        /\ want' = Unknown
        /\ IF reachable
           THEN /\ AgentCalm
                /\ Begin([pc |-> "wait", force |-> force])
                /\ IF cr = NoAgent THEN UNCHANGED <<cr, fresh>>
                   ELSE WriteCR(Reaped([cr EXCEPT !.deleting = TRUE]))
           ELSE /\ AgentFault /\ ~force
                /\ Begin([pc |-> "wipe", clean |-> FALSE])
                /\ UNCHANGED <<cr, fresh>>
        /\ UNCHANGED <<kids, host, record, sales, ctl, replayed, forced>>

StripAgentFinalizers(o) == Reaped([o EXCEPT !.finalizer = FALSE])

\* waitForAgentGone: gone, or timed out; --force then strips the finalizer.
DeleteWaits ==
    /\ cmd.pc = "wait"
    /\ \/ /\ cr = NoAgent /\ AgentCalm
          /\ cmd' = [pc |-> "offers"] /\ UNCHANGED <<cr, fresh, forced, want>>
       \/ /\ cr # NoAgent /\ ~cmd.force
          /\ Fails /\ UNCHANGED <<cr, fresh, forced>>
       \/ /\ cr # NoAgent /\ cmd.force /\ AgentFault
          /\ WriteCR(StripAgentFinalizers(cr)) /\ forced' = TRUE
          /\ UNCHANGED <<cmd, want>>
    /\ UNCHANGED <<kids, host, record, sales, ctl, replayed, cmds>>

\* The agent's offers and their ledger entries; failures are warnings.
DeleteOffers ==
    /\ cmd.pc = "offers"
    /\ \/ AgentCalm /\ sales' = {} /\ cmd' = [pc |-> "wipe", clean |-> TRUE]
       \/ \E kept \in SUBSET sales \ {{}} :
            AgentFault /\ sales' = kept /\ cmd' = [pc |-> "wipe", clean |-> FALSE]
    /\ UNCHANGED <<cr, fresh, kids, host, record, ctl, want, replayed, forced, cmds>>

\* The host data directory.
DeleteWipes ==
    /\ cmd.pc = "wipe"
    /\ \/ AgentCalm /\ host' = NoHost /\ cmd' = [cmd EXCEPT !.pc = "forget"] /\ UNCHANGED want
       \/ Fails /\ UNCHANGED host
    /\ UNCHANGED <<cr, fresh, kids, record, sales, ctl, replayed, forced, cmds>>

\* RemoveManifest, last: "or obol stack up would resurrect the agent".
RemoveManifest ==
    /\ cmd.pc = "forget"
    /\ \/ AgentCalm /\ record' = NoAgent /\ End(IF cmd.clean THEN NoAgent ELSE Unknown)
       \/ Fails /\ UNCHANGED record
    /\ UNCHANGED <<cr, fresh, kids, host, sales, ctl, replayed, forced, cmds>>

CommandCrashes ==
    /\ cmd # Idle /\ Fails
    /\ UNCHANGED <<cr, fresh, kids, host, record, sales, ctl, replayed, forced, cmds>>

\* obol sell agent, as far as the agent is concerned: an offer and its ledger entry.
SellAgent ==
    /\ cmd = Idle /\ cr # NoAgent /\ ~cr.deleting /\ sales # {"cluster", "ledger"}
    /\ sales' = {"cluster", "ledger"}
    /\ UNCHANGED <<cr, fresh, kids, host, record, cmd, ctl, want, replayed, forced, faults, cmds>>

\* stack down, purge and up: everything in the cluster is new.
ClusterRecreated ==
    /\ cmd = Idle /\ AgentFault
    /\ cr' = NoAgent /\ fresh' = FALSE /\ kids' = NoKids /\ ctl' = Idle
    /\ sales' = sales \ {"cluster"} /\ replayed' = FALSE /\ forced' = FALSE
    /\ UNCHANGED <<host, record, cmd, want, cmds>>

\* ResumeAll, then the offers of the ledger; one that fails is a warning and changes nothing.
ResumeAll ==
    /\ cmd = Idle
    /\ IF record = NoAgent THEN UNCHANGED <<cr, fresh>> ELSE WriteCR(Applied(record))
    /\ sales' = IF "ledger" \in sales THEN {"cluster", "ledger"} ELSE sales
    /\ replayed' = TRUE
    /\ UNCHANGED <<kids, host, record, cmd, ctl, want, forced, faults, cmds>>

----------------------------------------------------------------------------
\* The reconciler: one pass at a time per key, on a copy of the CR.

EffectiveModel(o) == IF o.spec.model # "" THEN o.spec.model ELSE o.pinned

\* reconcileAgent up to its first write.
ReconcileGet ==
    /\ ctl = Idle /\ cr # NoAgent
    /\ fresh' = TRUE
    /\ ctl' = IF cr.deleting
              THEN IF cr.finalizer THEN [pc |-> "teardown", obj |-> cr] ELSE Idle
              ELSE IF ~cr.finalizer THEN [pc |-> "finalizer", obj |-> cr]
              ELSE IF EffectiveModel(cr) = "" THEN [pc |-> "status", obj |-> cr, address |-> 0, ok |-> FALSE]
              ELSE [pc |-> "config", obj |-> cr]
    /\ UNCHANGED <<cr, kids, host, record, sales, cmd, want, replayed, forced, faults, cmds>>

\* Mutant: the finalizer is put back on a copy without its resourceVersion.
AddAgentFinalizerBlind ==
    /\ ctl.pc = "finalizer"
    /\ IF cr # NoAgent THEN cr' = [ctl.obj EXCEPT !.finalizer = TRUE] ELSE UNCHANGED cr
    /\ ctl' = Idle /\ fresh' = FALSE
    /\ UNCHANGED <<kids, host, record, sales, cmd, want, replayed, forced, faults, cmds>>

\* addAgentFinalizer: an Update of the whole object, refused when it is stale.
AddAgentFinalizer ==
    /\ ctl.pc = "finalizer"
    /\ IF fresh THEN cr' = [ctl.obj EXCEPT !.finalizer = TRUE] ELSE UNCHANGED cr
    /\ ctl' = Idle /\ fresh' = FALSE
    /\ UNCHANGED <<kids, host, record, sales, cmd, want, replayed, forced, faults, cmds>>

\* updateAgentStatus: the status subresource, refused when the copy is stale.
StatusWritten(o) == cr' = IF fresh THEN o ELSE cr

\* A pass that failed records it and is retried.
PassFails ==
    /\ AgentFault /\ ctl' = Idle /\ fresh' = FALSE
    /\ StatusWritten([ctl.obj EXCEPT !.ready = FALSE, !.pinned = EffectiveModel(ctl.obj)])

PassGoesOn(pc) == AgentCalm /\ ctl' = [ctl EXCEPT !.pc = pc] /\ UNCHANGED <<cr, fresh>>

\* renderHermesConfig: of all the spec says, the model is what changes.
RenderHermesConfig(o) == EffectiveModel(o)

\* hermesConfigDecision: skip when the rendered config is the one written last,
\* whatever an operator has made of it since.
HermesConfigDecision(live, desired) == live # NoAgent /\ live.hash = desired

\* provisionAgent: namespace, service account and volume, then the config map.
ProvisionConfig ==
    /\ ctl.pc = "config"
    /\ \/ /\ PassGoesOn("workload")
          /\ kids' = [kids EXCEPT !.data = TRUE, !.config =
                IF HermesConfigDecision(@, RenderHermesConfig(ctl.obj)) THEN @
                ELSE [hash |-> RenderHermesConfig(ctl.obj), edited |-> FALSE]]
       \/ PassFails /\ UNCHANGED kids
    /\ UNCHANGED <<host, record, sales, cmd, want, replayed, forced, cmds>>

\* The API secret, the Deployment and the Service; the NetworkPolicy comes last.
BuildAgentDeployment(k) == [k EXCEPT !.deployment = TRUE]
BuildAgentNetworkPolicy(k) == [k EXCEPT !.isolated = TRUE]

ProvisionWorkload ==
    /\ ctl.pc = "workload"
    /\ \/ /\ AgentCalm /\ UNCHANGED <<cr, fresh>>
          /\ ctl' = IF ctl.obj.spec.wallet THEN [ctl EXCEPT !.pc = "keystore"]
                    ELSE [pc |-> "status", obj |-> ctl.obj, address |-> 0, ok |-> TRUE]
          /\ kids' = BuildAgentNetworkPolicy(BuildAgentDeployment(kids))
       \/ PassFails /\ kids' \in {kids, BuildAgentDeployment(kids)}
    /\ UNCHANGED <<host, record, sales, cmd, want, replayed, forced, cmds>>

NextAddress == 1 + IF cr = NoAgent \/ cr.address <= kids.keystore THEN kids.keystore ELSE cr.address

\* ensureSignerKeystore: the address of the Secret that is there, or a new key.
EnsureSignerKeystore ==
    LET a == IF kids.keystore # 0 THEN kids.keystore ELSE NextAddress
    IN  [address |-> a, keystore |-> a]

RemoteSignerManifests(k) == [k EXCEPT !.signer = TRUE]

\* ensureAgentWallet: the keystore, then the signer.
EnsureAgentWallet ==
    /\ ctl.pc = "keystore"
    /\ \/ /\ AgentCalm /\ UNCHANGED <<cr, fresh>>
          /\ kids' = RemoteSignerManifests([kids EXCEPT !.keystore = EnsureSignerKeystore.keystore])
          /\ ctl' = [pc |-> "status", obj |-> ctl.obj,
                     address |-> EnsureSignerKeystore.address, ok |-> TRUE]
       \/ /\ PassFails
          /\ \/ UNCHANGED kids
             \/ kids' = [kids EXCEPT !.keystore = EnsureSignerKeystore.keystore]
    /\ UNCHANGED <<host, record, sales, cmd, want, replayed, forced, cmds>>

\* The end of the pass: readiness mirrors the Deployments.
ReconcileStatus ==
    /\ ctl.pc = "status"
    /\ \E up \in BOOLEAN :
        StatusWritten([ctl.obj EXCEPT
            !.pinned = EffectiveModel(ctl.obj),
            !.address = IF ctl.address # 0 THEN ctl.address ELSE @,
            !.ready = ctl.ok /\ up /\ kids.deployment /\ (ctl.obj.spec.wallet => kids.signer)])
    /\ ctl' = Idle /\ fresh' = FALSE
    /\ UNCHANGED <<kids, host, record, sales, cmd, want, replayed, forced, faults, cmds>>

Isolation(k) == [NoKids EXCEPT !.isolated = k.isolated]

\* tearDownAgent: Services and Deployments, config and volume, then the secrets;
\* a failing delete ends the pass.  The NetworkPolicy and the namespace stay.
TearDownAgent ==
    /\ ctl.pc = "teardown"
    /\ \/ /\ AgentCalm /\ kids' = Isolation(kids) /\ ctl' = [ctl EXCEPT !.pc = "unfinalize"]
          /\ UNCHANGED fresh
       \/ \E gone \in {[kids EXCEPT !.deployment = FALSE, !.signer = FALSE],
                       [Isolation(kids) EXCEPT !.keystore = kids.keystore]} :
            AgentFault /\ kids' = gone /\ ctl' = Idle /\ fresh' = FALSE
    /\ UNCHANGED <<cr, host, record, sales, cmd, want, replayed, forced, cmds>>

\* removeAgentFinalizer, refused when the copy is stale.
RemoveAgentFinalizer ==
    /\ ctl.pc = "unfinalize"
    /\ cr' = IF fresh THEN Reaped([ctl.obj EXCEPT !.finalizer = FALSE]) ELSE cr
    /\ ctl' = Idle /\ fresh' = FALSE
    /\ UNCHANGED <<kids, host, record, sales, cmd, want, replayed, forced, faults, cmds>>

ControllerRestarts ==
    /\ ctl # Idle /\ AgentFault /\ ctl' = Idle /\ fresh' = FALSE
    /\ UNCHANGED <<cr, kids, host, record, sales, cmd, want, replayed, forced, cmds>>

\* An operator edits the config map out of band.
OperatorEdits ==
    /\ kids.config # NoAgent /\ ~kids.config.edited
    /\ kids' = [kids EXCEPT !.config.edited = TRUE]
    /\ UNCHANGED <<cr, fresh, host, record, sales, cmd, ctl, want, replayed, forced, faults, cmds>>

----------------------------------------------------------------------------
AgentInit ==
    /\ cr = NoAgent /\ fresh = FALSE /\ kids = NoKids /\ host = NoHost /\ record = NoAgent
    /\ sales = {} /\ cmd = Idle /\ ctl = Idle /\ want = NoAgent
    /\ replayed = TRUE /\ forced = FALSE /\ faults = 0 /\ cmds = 0

AgentNext ==
    \/ CreateSeeds \/ UpdateSeeds \/ CommandApplies \/ PersistManifest
    \/ DeleteRequests \/ DeleteWaits \/ DeleteOffers \/ DeleteWipes \/ RemoveManifest
    \/ CommandCrashes \/ SellAgent \/ ClusterRecreated \/ ResumeAll
    \/ ReconcileGet \/ AddAgentFinalizer \/ ProvisionConfig \/ ProvisionWorkload
    \/ EnsureAgentWallet \/ ReconcileStatus \/ TearDownAgent \/ RemoveAgentFinalizer
    \/ ControllerRestarts \/ OperatorEdits

AgentSpec == AgentInit /\ [][AgentNext]_agentVars

----------------------------------------------------------------------------
Commands ==
    {Idle} \cup [pc : {"apply"}, spec : AgentSpecs] \cup [pc : {"persist"}, spec : AgentSpecs, lives : BOOLEAN]
    \cup [pc : {"wait"}, force : BOOLEAN] \cup [pc : {"offers"}] \cup [pc : {"wipe", "forget"}, clean : BOOLEAN]
Passes ==
    {Idle} \cup [pc : {"teardown", "unfinalize", "finalizer", "config", "workload", "keystore"}, obj : CRs]
    \cup [pc : {"status"}, obj : CRs, address : Nat, ok : BOOLEAN]

\* The values of the state; the host's files are what the commands wrote.
AgentTypeOK ==
    /\ cr \in CRs \cup {NoAgent} /\ ctl \in Passes /\ cmd \in Commands
    /\ kids \in [config : Configs \cup {NoAgent}, deployment : BOOLEAN, isolated : BOOLEAN,
                 signer : BOOLEAN, keystore : Nat, data : BOOLEAN]
    /\ record \in AgentSpecs \cup {NoAgent}
    /\ sales \subseteq {"cluster", "ledger"}
    /\ want \in AgentSpecs \cup {NoAgent, Unknown}
    /\ fresh \in BOOLEAN /\ replayed \in BOOLEAN /\ forced \in BOOLEAN
    /\ faults \in 0..MaxAgentFaults /\ cmds \in 0..MaxAgentCmds

(***************************************************************************)
(* What a command that reported success did outlives the cluster: the host *)
(* record says the same, and once the records are replayed the CR has the  *)
(* spec that was asked for, or, after a delete, neither agent nor offer is *)
(* left (agent.go:345-367, 936-992, manifest.go:81-124).                   *)
(***************************************************************************)
AgentCommandIsDurable ==
    cmd = Idle /\ want # Unknown =>
        /\ record = want
        /\ replayed => IF want = NoAgent THEN cr = NoAgent ELSE cr # NoAgent /\ cr.spec = want
        /\ want = NoAgent => sales = {}

(***************************************************************************)
(* An agent that is gone leaves no child but its NetworkPolicy, however    *)
(* its deletion fell on a running pass: children are only made under the   *)
(* finalizer (agent.go:149-165).  A stripped finalizer gives that up.      *)
(***************************************************************************)
AgentGoneLeavesNothing == cr = NoAgent /\ ~forced => kids = Isolation(kids)

(***************************************************************************)
(* The address a live agent publishes, which buyers pay and offers resolve *)
(* to, is the one its keystore can sign for, over failed passes, forced    *)
(* deletions and agents made anew (agent_wallet.go:83-119).                *)
(***************************************************************************)
AddressIsKeystores ==
    cr # NoAgent /\ ~cr.deleting /\ cr.address # 0 => kids.keystore = cr.address

(***************************************************************************)
(* What is checked of the CLI, the host record, the reconciler and the     *)
(* keystore together (agent.go, agent_wallet.go).                          *)
(***************************************************************************)
AgentInv ==
    /\ AgentTypeOK
    /\ AgentCommandIsDurable
    /\ AgentGoneLeavesNothing
    /\ AddressIsKeystores
=============================================================================
