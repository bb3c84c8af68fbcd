----------------------------- MODULE HostProofs -----------------------------
(***************************************************************************)
(* Proofs about what the CLI keeps on the host and in the cluster: the     *)
(* agents (AgentLifecycle), the wallets (WalletVault), the stack and its   *)
(* backends (StackLifecycle) and the defaults tree (DefaultsTree), for     *)
(* every set of specs, IDs, releases and files and every number of         *)
(* commands, hand edits, faults, crashes and recreations.                  *)
(***************************************************************************)
EXTENDS AgentLifecycle, WalletVault, StackLifecycle, DefaultsTree, TLAPS

USE DEF agentVars, walletVars, walletHost

-----------------------------------------------------------------------------
(* Agents: the inductive invariant *)

Childless == kids = Isolation(kids)
Provisioning == {"config", "workload", "keystore"}

\* A running pass works on a copy that says of the CR what the pass was begun
\* for, and the copy is the CR itself for as long as it is fresh.
PassFits ==
    /\ cr # NoAgent /\ cr.deleting => cr.finalizer
    /\ fresh /\ ctl # Idle => cr = ctl.obj
    /\ ctl.pc \in {"teardown", "unfinalize"} => ctl.obj.deleting
    /\ ctl.pc = "finalizer" => ~ctl.obj.deleting

\* Children are only made under the finalizer, which only goes once they went.
ChildrenHeld ==
    /\ ctl.pc \in Provisioning /\ ~forced => cr # NoAgent /\ cr.finalizer
    /\ ctl.pc = "unfinalize" => Childless
    /\ ~forced /\ (cr = NoAgent \/ ~cr.finalizer) => Childless

\* The address a pass is about to publish is the keystore's, and no pass tears
\* down the keystore of an address that is published by a live agent.
KeysHeld ==
    /\ AddressIsKeystores
    /\ ctl.pc = "status" /\ ctl.address # 0 => kids.keystore = ctl.address
    /\ ctl.pc \in {"teardown", "unfinalize"} => cr = NoAgent \/ cr.deleting \/ cr.address = 0

\* While a command runs nothing is known of what it leaves; what the last one
\* left is on record, and in the cluster unless that was made anew since.
WordKept ==
    /\ cmd # Idle => want = Unknown
    /\ cmd.pc = "persist" /\ cmd.lives => cr # NoAgent /\ ~cr.deleting /\ cr.spec = cmd.spec
    /\ cmd.pc = "offers" => cr = NoAgent
    /\ cmd.pc \in {"wipe", "forget"} /\ cmd.clean => cr = NoAgent /\ sales = {}
    /\ cmd = Idle /\ want # Unknown => record = want
    /\ want = NoAgent => cr = NoAgent /\ sales = {}
    /\ want \in AgentSpecs => IF cr = NoAgent THEN ~replayed ELSE ~cr.deleting /\ cr.spec = want

AgentIInv == AgentTypeOK /\ PassFits /\ ChildrenHeld /\ KeysHeld /\ WordKept

-----------------------------------------------------------------------------
(* Agents: lemmas about commands, passes and the values they write *)

LEMMA CommandFields ==
    ASSUME AgentTypeOK
    PROVE  /\ cmd.pc \in {"idle", "apply", "persist", "wait", "offers", "wipe", "forget"}
           /\ cmd.pc = "idle" <=> cmd = Idle
           /\ cmd.pc \in {"apply", "persist"} => cmd.spec \in AgentSpecs
           /\ cmd.pc = "persist" => cmd.lives \in BOOLEAN
           /\ cmd.pc = "wait" => cmd.force \in BOOLEAN
           /\ cmd.pc \in {"wipe", "forget"} => cmd = [pc |-> cmd.pc, clean |-> cmd.clean] /\ cmd.clean \in BOOLEAN
BY DEF AgentTypeOK, Commands, Idle

LEMMA PassParts ==
    ASSUME AgentTypeOK
    PROVE  /\ ctl.pc \in {"idle", "finalizer", "teardown", "unfinalize", "status"} \cup Provisioning
           /\ ctl.pc = "idle" <=> ctl = Idle
           /\ ctl # Idle => ctl.obj \in CRs
           /\ ctl.pc \in {"finalizer", "teardown", "unfinalize"} \cup Provisioning
                => ctl = [pc |-> ctl.pc, obj |-> ctl.obj]
           /\ ctl.pc = "status" => ctl.address \in Nat /\ ctl.ok \in BOOLEAN
BY DEF AgentTypeOK, Passes, Idle, Provisioning

LEMMA Marks ==
    /\ NoAgent \notin AgentSpecs /\ NoAgent \notin CRs /\ NoAgent \notin Configs
    /\ Unknown \notin AgentSpecs /\ Unknown # NoAgent
BY AgentAssumption

LEMMA ModelOf == ASSUME NEW o \in CRs PROVE EffectiveModel(o) \in Models
BY DEF EffectiveModel, CRs, Models

LEMMA CRWrites ==
    ASSUME NEW o \in CRs
    PROVE  /\ \A s \in AgentSpecs : [o EXCEPT !.spec = s] \in CRs
           /\ \A b \in BOOLEAN : [o EXCEPT !.finalizer = b] \in CRs
           /\ [o EXCEPT !.deleting = TRUE] \in CRs
           /\ [o EXCEPT !.ready = FALSE, !.pinned = EffectiveModel(o)] \in CRs
           /\ \A a \in Nat, b \in BOOLEAN :
                [o EXCEPT !.pinned = EffectiveModel(o), !.address = a, !.ready = b] \in CRs
<1>1. EffectiveModel(o) \in Models
  BY ModelOf
<1> QED BY <1>1 DEF CRs

LEMMA CommandValues ==
    /\ Idle \in Commands /\ [pc |-> "offers"] \in Commands
    /\ \A s \in AgentSpecs : [pc |-> "apply", spec |-> s] \in Commands
    /\ \A s \in AgentSpecs, b \in BOOLEAN : [pc |-> "persist", spec |-> s, lives |-> b] \in Commands
    /\ \A b \in BOOLEAN : [pc |-> "wait", force |-> b] \in Commands
    /\ \A b \in BOOLEAN : [pc |-> "wipe", clean |-> b] \in Commands
    /\ \A b \in BOOLEAN : [pc |-> "forget", clean |-> b] \in Commands
<1>1. \A b \in BOOLEAN : [pc |-> "wipe", clean |-> b] \in [pc : {"wipe", "forget"}, clean : BOOLEAN]
  OBVIOUS
<1>2. \A b \in BOOLEAN : [pc |-> "forget", clean |-> b] \in [pc : {"wipe", "forget"}, clean : BOOLEAN]
  OBVIOUS
<1> QED BY <1>1, <1>2 DEF Commands

LEMMA PassValues ==
    /\ Idle \in Passes
    /\ \A o \in CRs, p \in {"finalizer", "teardown", "unfinalize"} \cup Provisioning :
         [pc |-> p, obj |-> o] \in Passes
    /\ \A o \in CRs, a \in Nat, b \in BOOLEAN :
         [pc |-> "status", obj |-> o, address |-> a, ok |-> b] \in Passes
<1>1. \A o \in CRs, a \in Nat, b \in BOOLEAN :
        [pc |-> "status", obj |-> o, address |-> a, ok |-> b] \in [pc : {"status"}, obj : CRs, address : Nat, ok : BOOLEAN]
  OBVIOUS
<1> QED BY <1>1 DEF Passes, Provisioning

LEMMA NewCRType == ASSUME NEW s \in AgentSpecs PROVE NewCR(s) \in CRs
BY DEF NewCR, CRs, Models
-----------------------------------------------------------------------------
(* Agents: the values of the state *)

KidSet == [config : Configs \cup {NoAgent}, deployment : BOOLEAN, isolated : BOOLEAN,
           signer : BOOLEAN, keystore : Nat, data : BOOLEAN]

LEMMA FaultStep ==
    ASSUME AgentTypeOK, AgentFault
    PROVE  faults' \in 0..MaxAgentFaults
BY AgentAssumption DEF AgentTypeOK, AgentFault

\* A write of a status leaves the CR that was copied, with what the pass found.
LEMMA StatusStep ==
    ASSUME AgentTypeOK, NEW o \in CRs, StatusWritten(o)
    PROVE  cr' \in CRs \cup {NoAgent}
BY DEF AgentTypeOK, StatusWritten

LEMMA FailedStep ==
    ASSUME AgentTypeOK, ctl # Idle, PassFails
    PROVE  /\ cr' \in CRs \cup {NoAgent} /\ ctl' \in Passes /\ fresh' \in BOOLEAN
           /\ faults' \in 0..MaxAgentFaults
<1>1. ctl.obj \in CRs
  BY PassParts
<1>2. cr' \in CRs \cup {NoAgent}
  <2>1. [ctl.obj EXCEPT !.ready = FALSE, !.pinned = EffectiveModel(ctl.obj)] \in CRs
    BY <1>1, CRWrites
  <2> QED BY <2>1, StatusStep DEF PassFails
<1> QED BY <1>2, FaultStep, PassValues DEF PassFails

LEMMA GoesOnStep ==
    ASSUME AgentTypeOK, NEW p \in Provisioning, ctl.pc \in Provisioning, PassGoesOn(p)
    PROVE  /\ cr' \in CRs \cup {NoAgent} /\ ctl' \in Passes /\ fresh' \in BOOLEAN
           /\ faults' \in 0..MaxAgentFaults
<1>1. ctl.obj \in CRs /\ ctl = [pc |-> ctl.pc, obj |-> ctl.obj]
  BY PassParts DEF Idle, Provisioning
<1>2. ctl' = [pc |-> p, obj |-> ctl.obj]
  BY <1>1 DEF PassGoesOn
<1>3. ctl' \in Passes
  BY <1>1, <1>2 DEF Passes, Provisioning
<1> QED BY <1>3 DEF PassGoesOn, AgentCalm, AgentTypeOK

LEMMA AgentTypeStep ==
    ASSUME AgentTypeOK, [AgentNext]_agentVars
    PROVE  AgentTypeOK'
<1> USE Marks, CommandFields, CommandValues, PassValues, AgentAssumption DEF AgentCalm
<1>0. CASE UNCHANGED agentVars
  BY <1>0 DEF AgentTypeOK
<1>1. CASE CreateSeeds
  <2>1. cmd' \in Commands
    BY <1>1 DEF CreateSeeds, Begin
  <2>2. faults' \in 0..MaxAgentFaults /\ cmds' \in 0..MaxAgentCmds
    BY <1>1 DEF CreateSeeds, Begin, AgentFault, AgentTypeOK
  <2> QED BY <1>1, <2>1, <2>2 DEF CreateSeeds, AgentTypeOK
<1>2. CASE UpdateSeeds
  <2>1. cmd' \in Commands
    BY <1>2 DEF UpdateSeeds, Begin
  <2>2. faults' \in 0..MaxAgentFaults /\ cmds' \in 0..MaxAgentCmds
    <3>1. faults' = faults \/ AgentFault
      BY <1>2 DEF UpdateSeeds
    <3>2. cmds' = cmds + 1 /\ cmds < MaxAgentCmds
      BY <1>2 DEF UpdateSeeds, Begin
    <3> QED BY <3>1, <3>2 DEF AgentFault, AgentTypeOK
  <2>3. want' = Unknown /\ UNCHANGED <<cr, fresh, kids, record, sales, ctl, replayed, forced>>
    BY <1>2 DEF UpdateSeeds
  <2> QED BY <2>1, <2>2, <2>3 DEF AgentTypeOK
<1>3. CASE CommandApplies
  <2>0. cmd.spec \in AgentSpecs
    BY <1>3 DEF CommandApplies
  <2>1. cr' \in CRs \cup {NoAgent} /\ fresh' \in BOOLEAN
    <3>1. Applied(cmd.spec) \in CRs
      BY <2>0, CRWrites, NewCRType DEF Applied, AgentTypeOK
    <3> QED BY <1>3, <3>1 DEF CommandApplies, WriteCR, AgentTypeOK
  <2>2. cmd' \in Commands
    BY <1>3, <2>0 DEF CommandApplies, Fails, End
  <2>3. faults' \in 0..MaxAgentFaults /\ want' \in AgentSpecs \cup {NoAgent, Unknown}
    BY <1>3 DEF CommandApplies, Fails, End, AgentFault, AgentTypeOK
  <2> QED BY <1>3, <2>1, <2>2, <2>3 DEF CommandApplies, AgentTypeOK
<1>4. CASE PersistManifest
  <2>0. cmd.spec \in AgentSpecs
    BY <1>4 DEF PersistManifest
  <2>1. cmd' \in Commands /\ want' \in AgentSpecs \cup {NoAgent, Unknown}
    BY <1>4, <2>0 DEF PersistManifest, Fails, End
  <2>2. faults' \in 0..MaxAgentFaults /\ record' \in AgentSpecs \cup {NoAgent}
    BY <1>4, <2>0 DEF PersistManifest, Fails, AgentFault, AgentTypeOK
  <2> QED BY <1>4, <2>1, <2>2 DEF PersistManifest, AgentTypeOK
<1>5. CASE DeleteRequests
  <2>1. cmd' \in Commands /\ cmds' \in 0..MaxAgentCmds
    <3>1. PICK c \in Commands : Begin(c)
      <4>1. PICK force \in BOOLEAN :
              Begin([pc |-> "wait", force |-> force]) \/ Begin([pc |-> "wipe", clean |-> FALSE])
        BY <1>5 DEF DeleteRequests
      <4> QED BY <4>1
    <3> QED BY <3>1 DEF Begin, AgentTypeOK
  <2>2. faults' \in 0..MaxAgentFaults
    BY <1>5 DEF DeleteRequests, AgentFault, AgentTypeOK
  <2>3. cr' \in CRs \cup {NoAgent} /\ fresh' \in BOOLEAN
    <3>1. (cr' = cr /\ fresh' = fresh) \/ (cr # NoAgent /\ WriteCR(Reaped([cr EXCEPT !.deleting = TRUE])))
      BY <1>5 DEF DeleteRequests
    <3>2. cr # NoAgent => Reaped([cr EXCEPT !.deleting = TRUE]) \in CRs \cup {NoAgent}
      BY CRWrites DEF Reaped, AgentTypeOK
    <3> QED BY <3>1, <3>2 DEF WriteCR, AgentTypeOK
  <2> QED BY <1>5, <2>1, <2>2, <2>3 DEF DeleteRequests, AgentTypeOK
<1>6. CASE DeleteWaits
  <2>1. cmd' \in Commands /\ want' \in AgentSpecs \cup {NoAgent, Unknown} /\ forced' \in BOOLEAN
    BY <1>6 DEF DeleteWaits, Fails, End, AgentTypeOK
  <2>2. faults' \in 0..MaxAgentFaults
    BY <1>6 DEF DeleteWaits, Fails, AgentFault, AgentTypeOK
  <2>3. cr' \in CRs \cup {NoAgent} /\ fresh' \in BOOLEAN
    BY <1>6, CRWrites, ZenonT(60) DEF DeleteWaits, WriteCR, StripAgentFinalizers, Reaped, AgentTypeOK
  <2> QED BY <1>6, <2>1, <2>2, <2>3 DEF DeleteWaits, AgentTypeOK
<1>7. CASE DeleteOffers
  <2>1. cmd' \in Commands /\ sales' \subseteq {"cluster", "ledger"}
    BY <1>7, ZenonT(60) DEF DeleteOffers, AgentTypeOK
  <2>2. faults' \in 0..MaxAgentFaults
    BY <1>7 DEF DeleteOffers, AgentFault, AgentTypeOK
  <2> QED BY <1>7, <2>1, <2>2 DEF DeleteOffers, AgentTypeOK
<1>8. CASE DeleteWipes
  <2>0. cmd = [pc |-> "wipe", clean |-> cmd.clean] /\ cmd.clean \in BOOLEAN
    BY <1>8 DEF DeleteWipes
  <2>1. cmd' \in Commands /\ want' \in AgentSpecs \cup {NoAgent, Unknown}
    BY <1>8, <2>0 DEF DeleteWipes, Fails, End, AgentTypeOK
  <2>2. faults' \in 0..MaxAgentFaults
    BY <1>8, FaultStep DEF DeleteWipes, Fails, AgentTypeOK
  <2> QED BY <1>8, <2>1, <2>2 DEF DeleteWipes, AgentTypeOK
<1>9. CASE RemoveManifest
  BY <1>9 DEF RemoveManifest, Fails, End, AgentFault, AgentTypeOK
<1>10. CASE CommandCrashes
  BY <1>10 DEF CommandCrashes, Fails, End, AgentFault, AgentTypeOK
<1>11. CASE SellAgent
  BY <1>11 DEF SellAgent, AgentTypeOK
<1>12. CASE ClusterRecreated
  <2>1. kids' \in KidSet
    BY <1>12 DEF ClusterRecreated, NoKids, KidSet
  <2>2. faults' \in 0..MaxAgentFaults
    BY <1>12, FaultStep DEF ClusterRecreated
  <2> QED BY <1>12, <2>1, <2>2 DEF ClusterRecreated, KidSet, AgentTypeOK
<1>13. CASE ResumeAll
  <2>1. cr' \in CRs \cup {NoAgent} /\ fresh' \in BOOLEAN
    <3>1. record # NoAgent => Applied(record) \in CRs
      BY CRWrites, NewCRType DEF Applied, AgentTypeOK
    <3> QED BY <1>13, <3>1 DEF ResumeAll, WriteCR, AgentTypeOK
  <2> QED BY <1>13, <2>1 DEF ResumeAll, AgentTypeOK
<1>14. CASE ReconcileGet
  <2>1. ctl' \in Passes
    <3>1. cr \in CRs
      BY <1>14 DEF ReconcileGet, AgentTypeOK
    <3>2. \/ ctl' = Idle
          \/ \E p \in {"teardown", "finalizer", "config"} : ctl' = [pc |-> p, obj |-> cr]
          \/ ctl' = [pc |-> "status", obj |-> cr, address |-> 0, ok |-> FALSE]
      BY <1>14 DEF ReconcileGet
    <3>3. {"teardown", "finalizer", "config"} \subseteq {"finalizer", "teardown", "unfinalize"} \cup Provisioning
      BY DEF Provisioning
    <3> QED BY <3>1, <3>2, <3>3
  <2> QED BY <1>14, <2>1 DEF ReconcileGet, AgentTypeOK
<1>15. CASE AddAgentFinalizer
  <2>1. cr' \in CRs \cup {NoAgent}
    <3>1. ctl.obj \in CRs
      BY <1>15, PassParts DEF AddAgentFinalizer, Idle
    <3>2. [ctl.obj EXCEPT !.finalizer = TRUE] \in CRs
      BY <3>1, CRWrites
    <3> QED BY <1>15, <3>2 DEF AddAgentFinalizer, AgentTypeOK
  <2> QED BY <1>15, <2>1 DEF AddAgentFinalizer, AgentTypeOK
<1>16. CASE ProvisionConfig
  <2>1. ctl # Idle /\ ctl.pc \in Provisioning /\ ctl.obj \in CRs
    BY <1>16, PassParts DEF ProvisionConfig, Idle, Provisioning
  <2>2. EffectiveModel(ctl.obj) \in Models
    BY <2>1, ModelOf
  <2>3. kids' \in KidSet
    <3>1. [hash |-> RenderHermesConfig(ctl.obj), edited |-> FALSE] \in Configs
      BY <2>2 DEF RenderHermesConfig, Configs
    <3>2. PICK c \in Configs \cup {NoAgent} : kids' = kids \/ kids' = [kids EXCEPT !.data = TRUE, !.config = c]
      <4>1. kids.config \in Configs \cup {NoAgent}
        BY DEF AgentTypeOK
      <4> QED BY <1>16, <3>1, <4>1 DEF ProvisionConfig, AgentTypeOK
    <3> QED BY <3>2, ZenonT(60) DEF KidSet, AgentTypeOK
  <2>4. /\ cr' \in CRs \cup {NoAgent} /\ ctl' \in Passes /\ fresh' \in BOOLEAN
        /\ faults' \in 0..MaxAgentFaults
    BY <1>16, <2>1, FailedStep, GoesOnStep DEF ProvisionConfig, Provisioning
  <2> QED BY <1>16, <2>3, <2>4 DEF ProvisionConfig, KidSet, AgentTypeOK
<1>17. CASE ProvisionWorkload
  <2>1. ctl # Idle /\ ctl.pc \in Provisioning /\ ctl.obj \in CRs /\ ctl = [pc |-> "workload", obj |-> ctl.obj]
    BY <1>17, PassParts DEF ProvisionWorkload, Idle, Provisioning
  <2>2. kids' \in KidSet
    BY <1>17, ZenonT(60) DEF ProvisionWorkload, BuildAgentDeployment, BuildAgentNetworkPolicy, KidSet, AgentTypeOK
  <2>3. ASSUME ~PassFails
        PROVE  ctl' \in Passes /\ UNCHANGED <<cr, fresh, faults>>
    <3>1. ctl' = [pc |-> "keystore", obj |-> ctl.obj]
          \/ ctl' = [pc |-> "status", obj |-> ctl.obj, address |-> 0, ok |-> TRUE]
      BY <1>17, <2>1, <2>3 DEF ProvisionWorkload
    <3>2. ctl' \in Passes
      <4>1. "keystore" \in Provisioning /\ 0 \in Nat
        BY DEF Provisioning
      <4> QED BY <2>1, <3>1, <4>1
    <3> QED BY <1>17, <2>3, <3>2 DEF ProvisionWorkload
  <2>4. /\ cr' \in CRs \cup {NoAgent} /\ ctl' \in Passes /\ fresh' \in BOOLEAN
        /\ faults' \in 0..MaxAgentFaults
    BY <2>1, <2>3, FailedStep DEF AgentTypeOK
  <2> QED BY <1>17, <2>2, <2>4 DEF ProvisionWorkload, KidSet, AgentTypeOK
<1>18. CASE EnsureAgentWallet
  <2>1. ctl # Idle /\ ctl.obj \in CRs
    BY <1>18, PassParts DEF EnsureAgentWallet, Idle
  <2>0. EnsureSignerKeystore.address \in Nat /\ EnsureSignerKeystore.keystore \in Nat
    BY DEF EnsureSignerKeystore, NextAddress, AgentTypeOK, CRs
  <2>2. kids' \in KidSet
    BY <1>18, <2>0, ZenonT(60) DEF EnsureAgentWallet, RemoteSignerManifests, KidSet, AgentTypeOK
  <2>3. ASSUME ~PassFails
        PROVE  ctl' \in Passes /\ UNCHANGED <<cr, fresh, faults>>
    BY <1>18, <2>0, <2>1, <2>3, ZenonT(60) DEF EnsureAgentWallet
  <2>4. /\ cr' \in CRs \cup {NoAgent} /\ ctl' \in Passes /\ fresh' \in BOOLEAN
        /\ faults' \in 0..MaxAgentFaults
    BY <2>1, <2>3, FailedStep DEF AgentTypeOK
  <2> QED BY <1>18, <2>2, <2>4 DEF EnsureAgentWallet, KidSet, AgentTypeOK
<1>19. CASE ReconcileStatus
  <2>1. ctl.obj \in CRs /\ ctl.address \in Nat /\ ctl.ok \in BOOLEAN
    BY <1>19, PassParts DEF ReconcileStatus, Idle
  <2>2. PICK up \in BOOLEAN :
          StatusWritten([ctl.obj EXCEPT
            !.pinned = EffectiveModel(ctl.obj),
            !.address = IF ctl.address # 0 THEN ctl.address ELSE @,
            !.ready = ctl.ok /\ up /\ kids.deployment /\ (ctl.obj.spec.wallet => kids.signer)])
    BY <1>19 DEF ReconcileStatus
  <2> DEFINE a == IF ctl.address # 0 THEN ctl.address ELSE ctl.obj.address
             b == ctl.ok /\ up /\ kids.deployment /\ (ctl.obj.spec.wallet => kids.signer)
  <2>3. a \in Nat /\ b \in BOOLEAN
    BY <2>1 DEF CRs
  <2>4. StatusWritten([ctl.obj EXCEPT !.pinned = EffectiveModel(ctl.obj), !.address = a, !.ready = b])
    BY <2>1, <2>2 DEF CRs
  <2> HIDE DEF a, b
  <2>5. cr' \in CRs \cup {NoAgent}
    BY <2>1, <2>3, <2>4, CRWrites, StatusStep
  <2> QED BY <1>19, <2>5 DEF ReconcileStatus, AgentTypeOK
<1>20. CASE TearDownAgent
  <2>1. ctl.obj \in CRs /\ ctl = [pc |-> "teardown", obj |-> ctl.obj]
    BY <1>20, PassParts DEF TearDownAgent, Idle
  <2>2. kids' \in KidSet
    <3>1. Isolation(kids) \in KidSet /\ [Isolation(kids) EXCEPT !.keystore = kids.keystore] \in KidSet
      BY DEF Isolation, NoKids, KidSet, AgentTypeOK
    <3>2. [kids EXCEPT !.deployment = FALSE, !.signer = FALSE] \in KidSet
      BY DEF KidSet, AgentTypeOK
    <3> QED BY <1>20, <3>1, <3>2 DEF TearDownAgent
  <2>3. ctl' \in Passes /\ fresh' \in BOOLEAN
    <3>1. ctl' = [pc |-> "unfinalize", obj |-> ctl.obj] \/ ctl' = Idle
      BY <1>20, <2>1 DEF TearDownAgent
    <3>2. ctl' \in Passes
      BY <2>1, <3>1 DEF Provisioning
    <3> QED BY <1>20, <3>2 DEF TearDownAgent, AgentTypeOK
  <2>4. faults' \in 0..MaxAgentFaults
    BY <1>20 DEF TearDownAgent, AgentFault, AgentTypeOK
  <2> QED BY <1>20, <2>2, <2>3, <2>4 DEF TearDownAgent, KidSet, AgentTypeOK
<1>21. CASE RemoveAgentFinalizer
  <2>1. cr' \in CRs \cup {NoAgent}
    BY <1>21, PassParts, CRWrites, ZenonT(60) DEF RemoveAgentFinalizer, Reaped, AgentTypeOK, Idle
  <2> QED BY <1>21, <2>1, ZenonT(60) DEF RemoveAgentFinalizer, AgentTypeOK
<1>22. CASE ControllerRestarts
  BY <1>22, FaultStep, ZenonT(60) DEF ControllerRestarts, AgentTypeOK
<1>23. CASE OperatorEdits
  <2>1. kids' \in KidSet
    BY <1>23 DEF OperatorEdits, Configs, KidSet, AgentTypeOK
  <2> QED BY <1>23, <2>1 DEF OperatorEdits, KidSet, AgentTypeOK
<1> QED
  BY <1>0, <1>1, <1>2, <1>3, <1>4, <1>5, <1>6, <1>7, <1>8, <1>9, <1>10, <1>11, <1>12, <1>13,
     <1>14, <1>15, <1>16, <1>17, <1>18, <1>19, <1>20, <1>21, <1>22, <1>23 DEF AgentNext
-----------------------------------------------------------------------------
(* Agents: what a command may do to the CR, and what a pass may *)

\* A step of a command: of its changes the CR's are the ones a pass may see.
CommandStep ==
    \/ CreateSeeds \/ UpdateSeeds \/ CommandApplies \/ PersistManifest
    \/ DeleteRequests \/ DeleteWaits \/ DeleteOffers \/ DeleteWipes \/ RemoveManifest
    \/ CommandCrashes \/ SellAgent \/ ResumeAll

PassStep ==
    \/ ReconcileGet \/ AddAgentFinalizer \/ ProvisionConfig \/ ProvisionWorkload
    \/ EnsureAgentWallet \/ ReconcileStatus \/ TearDownAgent \/ RemoveAgentFinalizer
    \/ ControllerRestarts \/ OperatorEdits

Stripped == cr \in CRs /\ cr' = StripAgentFinalizers(cr) /\ forced'

\* A command makes a CR, sets its spec, marks it deleted or strips its finalizer.
CommandWrites ==
    \/ cr = NoAgent /\ \E s \in AgentSpecs : cr' = NewCR(s)
    \/ cr \in CRs /\ \E s \in AgentSpecs : cr' = [cr EXCEPT !.spec = s]
    \/ cr \in CRs /\ cr' = Reaped([cr EXCEPT !.deleting = TRUE])
    \/ Stripped

LEMMA AppliedWrites ==
    ASSUME AgentTypeOK, NEW s \in AgentSpecs, cr' = Applied(s)
    PROVE  CommandWrites
BY DEF CommandWrites, Applied, AgentTypeOK

\* Whoever writes, a copy stays fresh only if nothing was changed.
LEMMA StaleWhenWritten ==
    ASSUME NEW o, WriteCR(o)
    PROVE  cr' = o /\ (fresh' => fresh /\ cr' = cr)
BY DEF WriteCR

LEMMA CommandWritesOnly ==
    ASSUME AgentTypeOK, CommandStep
    PROVE  /\ UNCHANGED <<kids, ctl>> /\ (forced => forced')
           /\ fresh' => fresh /\ cr' = cr
           /\ cr' = cr \/ CommandWrites
           /\ ~Stripped => forced' = forced
<1> USE CommandFields, Marks
<1>1. CASE CreateSeeds
  BY <1>1 DEF CreateSeeds
<1>2. CASE UpdateSeeds
  BY <1>2 DEF UpdateSeeds
<1>3. CASE CommandApplies
  <2>1. cmd.spec \in AgentSpecs /\ UNCHANGED <<kids, ctl, forced>>
    BY <1>3 DEF CommandApplies
  <2>2. WriteCR(Applied(cmd.spec)) \/ UNCHANGED <<cr, fresh>>
    BY <1>3 DEF CommandApplies
  <2> QED BY <2>1, <2>2, AppliedWrites, StaleWhenWritten
<1>4. CASE PersistManifest
  BY <1>4 DEF PersistManifest
<1>5. CASE DeleteRequests
  <2>1. \/ cr \in CRs /\ WriteCR(Reaped([cr EXCEPT !.deleting = TRUE]))
        \/ UNCHANGED <<cr, fresh>>
    BY <1>5 DEF DeleteRequests, AgentTypeOK
  <2>2. UNCHANGED <<kids, ctl, forced>>
    BY <1>5 DEF DeleteRequests
  <2> QED BY <2>1, <2>2, StaleWhenWritten DEF CommandWrites
<1>6. CASE DeleteWaits
  <2>1. \/ cr \in CRs /\ WriteCR(StripAgentFinalizers(cr)) /\ forced' = TRUE
        \/ UNCHANGED <<cr, fresh, forced>>
    BY <1>6 DEF DeleteWaits, AgentTypeOK
  <2>2. UNCHANGED <<kids, ctl>>
    BY <1>6 DEF DeleteWaits
  <2> QED BY <2>1, <2>2, StaleWhenWritten DEF CommandWrites, Stripped
<1>7. CASE DeleteOffers
  BY <1>7 DEF DeleteOffers
<1>8. CASE DeleteWipes
  BY <1>8 DEF DeleteWipes
<1>9. CASE RemoveManifest
  BY <1>9 DEF RemoveManifest
<1>10. CASE CommandCrashes
  BY <1>10 DEF CommandCrashes
<1>11. CASE SellAgent
  BY <1>11 DEF SellAgent
<1>12. CASE ResumeAll
  <2>1. (record \in AgentSpecs /\ WriteCR(Applied(record))) \/ UNCHANGED <<cr, fresh>>
    BY <1>12 DEF ResumeAll, AgentTypeOK
  <2>2. UNCHANGED <<kids, ctl, forced>>
    BY <1>12 DEF ResumeAll
  <2> QED BY <2>1, <2>2, AppliedWrites, StaleWhenWritten
<1> QED
  BY <1>1, <1>2, <1>3, <1>4, <1>5, <1>6, <1>7, <1>8, <1>9, <1>10, <1>11, <1>12 DEF CommandStep

\* A pass writes the CR only while its copy is fresh, and of the fields the
\* operator sets it writes none.
PassWrites ==
    /\ fresh /\ cr \in CRs /\ cr = ctl.obj
    /\ IF cr' = NoAgent THEN cr.deleting
       ELSE cr' \in CRs /\ cr'.spec = cr.spec /\ cr'.deleting = cr.deleting

LEMMA StatusWrites ==
    ASSUME AgentTypeOK, PassFits, ctl # Idle, NEW o \in CRs, StatusWritten(o),
           o.spec = ctl.obj.spec, o.deleting = ctl.obj.deleting
    PROVE  cr' = cr \/ (PassWrites /\ cr' = o)
BY PassParts, Marks DEF PassWrites, PassFits, StatusWritten

LEMMA FailedWrites ==
    ASSUME AgentTypeOK, PassFits, ctl # Idle, PassFails
    PROVE  \/ cr' = cr
           \/ /\ PassWrites
              /\ cr' \in CRs /\ cr'.finalizer = cr.finalizer /\ cr'.address = cr.address
<1> DEFINE o == [ctl.obj EXCEPT !.ready = FALSE, !.pinned = EffectiveModel(ctl.obj)]
<1>1. ctl.obj \in CRs /\ o \in CRs
  BY PassParts, CRWrites
<1>2. /\ o.spec = ctl.obj.spec /\ o.deleting = ctl.obj.deleting
      /\ o.finalizer = ctl.obj.finalizer /\ o.address = ctl.obj.address
  BY <1>1 DEF CRs
<1>3. StatusWritten(o)
  BY DEF PassFails
<1> HIDE DEF o
<1> QED BY <1>1, <1>2, <1>3, StatusWrites DEF PassWrites

\* The status a pass ends with.
LEMMA EndWrites ==
    ASSUME AgentTypeOK, PassFits, ReconcileStatus
    PROVE  \/ cr' = cr
           \/ /\ PassWrites
              /\ cr' \in CRs /\ cr'.finalizer = cr.finalizer
              /\ cr'.address = IF ctl.address # 0 THEN ctl.address ELSE cr.address
<1>1. ctl # Idle /\ ctl.obj \in CRs /\ ctl.address \in Nat /\ ctl.ok \in BOOLEAN
  BY PassParts DEF ReconcileStatus, Idle
<1>2. PICK up \in BOOLEAN :
        StatusWritten([ctl.obj EXCEPT
          !.pinned = EffectiveModel(ctl.obj),
          !.address = IF ctl.address # 0 THEN ctl.address ELSE @,
          !.ready = ctl.ok /\ up /\ kids.deployment /\ (ctl.obj.spec.wallet => kids.signer)])
  BY DEF ReconcileStatus
<1> DEFINE a == IF ctl.address # 0 THEN ctl.address ELSE ctl.obj.address
           b == ctl.ok /\ up /\ kids.deployment /\ (ctl.obj.spec.wallet => kids.signer)
           o == [ctl.obj EXCEPT !.pinned = EffectiveModel(ctl.obj), !.address = a, !.ready = b]
<1>3. a \in Nat /\ b \in BOOLEAN
  BY <1>1 DEF CRs
<1>4. StatusWritten(o)
  BY <1>1, <1>2 DEF CRs
<1>5. /\ o.spec = ctl.obj.spec /\ o.deleting = ctl.obj.deleting
      /\ o.finalizer = ctl.obj.finalizer /\ o.address = a
  BY <1>1 DEF CRs
<1>6. o \in CRs
  <2> HIDE DEF a, b
  <2> QED BY <1>1, <1>3, CRWrites
<1> HIDE DEF o
<1>7. cr' = cr \/ (PassWrites /\ cr' = o)
  BY <1>1, <1>4, <1>5, <1>6, StatusWrites
<1> QED BY <1>5, <1>6, <1>7 DEF PassWrites
-----------------------------------------------------------------------------
(* Agents: passes, children and keys *)

LEMMA PassFitsStep ==
    ASSUME AgentTypeOK, PassFits, [AgentNext]_agentVars
    PROVE  PassFits'
<1> USE PassParts, Marks
<1>0. CASE UNCHANGED agentVars
  BY <1>0 DEF PassFits
<1>1. CASE CommandStep
  <2>1. cr' # NoAgent /\ cr'.deleting => cr'.finalizer
    <3>1. CASE cr' = cr
      BY <3>1 DEF PassFits
    <3>2. CASE CommandWrites
      <4>1. CASE cr = NoAgent /\ \E s \in AgentSpecs : cr' = NewCR(s)
        <5>1. PICK s \in AgentSpecs : cr' = NewCR(s)
          BY <4>1
        <5>2. cr'.deleting = FALSE
          BY <5>1 DEF NewCR
        <5> QED BY <5>2
      <4>2. CASE cr \in CRs /\ \E s \in AgentSpecs : cr' = [cr EXCEPT !.spec = s]
        BY <4>2 DEF PassFits, CRs
      <4>3. CASE cr \in CRs /\ cr' = Reaped([cr EXCEPT !.deleting = TRUE])
        BY <4>3 DEF Reaped, CRs
      <4>4. CASE Stripped
        BY <4>4 DEF PassFits, Stripped, StripAgentFinalizers, Reaped, CRs
      <4> QED BY <3>2, <4>1, <4>2, <4>3, <4>4 DEF CommandWrites
    <3> QED BY <1>1, <3>1, <3>2, CommandWritesOnly
  <2> QED BY <1>1, <2>1, CommandWritesOnly DEF PassFits
<1>2. CASE ClusterRecreated
  BY <1>2 DEF ClusterRecreated, PassFits, Idle
<1>3. CASE ReconcileGet
  <2>1. cr \in CRs /\ cr' = cr
    BY <1>3 DEF ReconcileGet, AgentTypeOK
  <2>2. ctl' = Idle \/ ctl'.obj = cr
    BY <1>3 DEF ReconcileGet
  <2>3. /\ ctl'.pc \in {"teardown", "unfinalize"} => cr.deleting
        /\ ctl'.pc = "finalizer" => ~cr.deleting
    BY <1>3 DEF ReconcileGet, Idle
  <2>4. ctl'.pc \in {"teardown", "unfinalize", "finalizer"} => ctl' # Idle
    BY DEF Idle
  <2> QED BY <2>1, <2>2, <2>3, <2>4 DEF PassFits
<1>4. CASE AddAgentFinalizer
  <2>1. ctl # Idle /\ ctl.obj \in CRs /\ ~ctl.obj.deleting
    BY <1>4 DEF AddAgentFinalizer, PassFits, Idle
  <2>2. cr' # NoAgent /\ cr'.deleting => cr'.finalizer
    BY <1>4, <2>1 DEF AddAgentFinalizer, PassFits, CRs
  <2> QED BY <1>4, <2>2 DEF AddAgentFinalizer, PassFits, Idle
<1>5. ASSUME ctl # Idle, PassFails PROVE PassFits'
  <2>1. cr' # NoAgent /\ cr'.deleting => cr'.finalizer
    BY <1>5, FailedWrites DEF PassFits, PassWrites
  <2> QED BY <1>5, <2>1 DEF PassFails, PassFits, Idle
<1>6. ASSUME ctl # Idle, UNCHANGED <<cr, fresh>>, ctl'.obj = ctl.obj,
             ctl'.pc \in Provisioning \cup {"status"} \/ (ctl'.pc = "unfinalize" /\ ctl.pc = "teardown")
      PROVE  PassFits'
  BY <1>6 DEF PassFits, Provisioning
<1>7. CASE ProvisionConfig
  <2>1. ctl # Idle /\ ctl = [pc |-> "config", obj |-> ctl.obj]
    BY <1>7 DEF ProvisionConfig, Provisioning, Idle
  <2>2. ~PassFails => ctl' = [pc |-> "workload", obj |-> ctl.obj] /\ UNCHANGED <<cr, fresh>>
    BY <1>7, <2>1 DEF ProvisionConfig, PassGoesOn
  <2> QED BY <2>1, <2>2, <1>5, <1>6 DEF Provisioning
<1>8. CASE ProvisionWorkload
  <2>1. ctl # Idle /\ ctl = [pc |-> "workload", obj |-> ctl.obj]
    BY <1>8 DEF ProvisionWorkload, Provisioning, Idle
  <2>2. ~PassFails => /\ ctl'.obj = ctl.obj /\ ctl'.pc \in Provisioning \cup {"status"}
                      /\ UNCHANGED <<cr, fresh>>
    BY <1>8, <2>1 DEF ProvisionWorkload, Provisioning
  <2> QED BY <2>1, <2>2, <1>5, <1>6
<1>9. CASE EnsureAgentWallet
  <2>1. ctl # Idle
    BY <1>9 DEF EnsureAgentWallet, Idle
  <2>2. ~PassFails => ctl'.obj = ctl.obj /\ ctl'.pc = "status" /\ UNCHANGED <<cr, fresh>>
    BY <1>9 DEF EnsureAgentWallet
  <2> QED BY <2>1, <2>2, <1>5, <1>6
<1>10. CASE ReconcileStatus
  <2>1. cr' # NoAgent /\ cr'.deleting => cr'.finalizer
    BY <1>10, EndWrites DEF PassFits, PassWrites
  <2> QED BY <1>10, <2>1 DEF ReconcileStatus, PassFits, Idle
<1>11. CASE TearDownAgent
  <2>1. ctl # Idle /\ ctl = [pc |-> "teardown", obj |-> ctl.obj] /\ cr' = cr
    BY <1>11 DEF TearDownAgent, Idle
  <2>2. \/ ctl' = [pc |-> "unfinalize", obj |-> ctl.obj] /\ fresh' = fresh
        \/ ctl' = Idle
    BY <1>11, <2>1 DEF TearDownAgent
  <2> QED BY <2>1, <2>2, <1>6 DEF PassFits, Idle
<1>12. CASE RemoveAgentFinalizer
  <2>1. ctl # Idle /\ ctl.obj \in CRs /\ ctl.obj.deleting
    BY <1>12 DEF RemoveAgentFinalizer, PassFits, Idle
  <2>2. cr' # NoAgent /\ cr'.deleting => cr'.finalizer
    BY <1>12, <2>1 DEF RemoveAgentFinalizer, PassFits, Reaped, CRs
  <2> QED BY <1>12, <2>2 DEF RemoveAgentFinalizer, PassFits, Idle
<1>13. CASE ControllerRestarts
  BY <1>13 DEF ControllerRestarts, PassFits, Idle
<1>14. CASE OperatorEdits
  BY <1>14 DEF OperatorEdits, PassFits
<1> QED
  BY <1>0, <1>1, <1>2, <1>3, <1>4, <1>7, <1>8, <1>9, <1>10, <1>11, <1>12, <1>13, <1>14
     DEF AgentNext, CommandStep

LEMMA ChildlessIs ==
    ASSUME AgentTypeOK
    PROVE  /\ Isolation(NoKids) = NoKids
           /\ Isolation(Isolation(kids)) = Isolation(kids)
BY DEF Isolation, NoKids, AgentTypeOK

LEMMA ChildrenHeldStep ==
    ASSUME AgentTypeOK, PassFits, ChildrenHeld, [AgentNext]_agentVars
    PROVE  ChildrenHeld'
<1> USE PassParts, Marks
<1>0. CASE UNCHANGED agentVars
  BY <1>0 DEF ChildrenHeld, Childless, Isolation
<1>1. CASE CommandStep
  <2>1. Childless' <=> Childless
    BY <1>1, CommandWritesOnly DEF Childless, Isolation
  <2>2. CASE cr' = cr
    <3>1. ~forced' => ~forced
      BY <1>1, CommandWritesOnly
    <3> QED BY <1>1, <2>1, <2>2, <3>1, CommandWritesOnly DEF ChildrenHeld
  <2>3. CASE forced'
    BY <1>1, <2>1, <2>3, CommandWritesOnly DEF ChildrenHeld
  <2>4. CASE CommandWrites /\ ~forced'
    <3>1. ~forced
      BY <1>1, <2>4, CommandWritesOnly
    <3>2. \/ cr = NoAgent /\ cr' # NoAgent
          \/ cr # NoAgent /\ cr' # NoAgent /\ cr'.finalizer = cr.finalizer
          \/ cr # NoAgent /\ ~cr.finalizer /\ cr' = NoAgent
      <4>1. CASE cr = NoAgent
        BY <2>4, <4>1, NewCRType DEF CommandWrites, Stripped
      <4>2. ASSUME cr \in CRs, NEW s \in AgentSpecs, cr' = [cr EXCEPT !.spec = s]
            PROVE  cr' \in CRs /\ cr'.finalizer = cr.finalizer
        BY <4>2 DEF CRs
      <4>3. ASSUME cr \in CRs, cr' = Reaped([cr EXCEPT !.deleting = TRUE])
            PROVE  IF cr.finalizer THEN cr' \in CRs /\ cr'.finalizer = cr.finalizer ELSE cr' = NoAgent
        BY <4>3 DEF Reaped, CRs
      <4>4. CASE cr \in CRs
        <5>1. \/ \E s \in AgentSpecs : cr' = [cr EXCEPT !.spec = s]
              \/ cr' = Reaped([cr EXCEPT !.deleting = TRUE])
          BY <2>4, <4>4 DEF CommandWrites, Stripped
        <5> QED BY <4>2, <4>3, <4>4, <5>1
      <4> QED BY <4>1, <4>4 DEF AgentTypeOK
    <3> QED BY <1>1, <2>1, <2>4, <3>1, <3>2, CommandWritesOnly DEF ChildrenHeld, Provisioning
  <2> QED BY <1>1, <2>2, <2>3, <2>4, CommandWritesOnly
<1>2. CASE ClusterRecreated
  BY <1>2, ChildlessIs DEF ClusterRecreated, ChildrenHeld, Childless, Idle, Provisioning, NoKids, Isolation
<1>3. CASE ReconcileGet
  <2>1. Childless' <=> Childless
    BY <1>3 DEF ReconcileGet, Childless, Isolation
  <2>2. /\ ctl'.pc \in Provisioning => cr # NoAgent /\ cr.finalizer
        /\ ctl'.pc # "unfinalize"
    BY <1>3 DEF ReconcileGet, Idle, Provisioning
  <2> QED BY <1>3, <2>1, <2>2 DEF ReconcileGet, ChildrenHeld
<1>4. CASE AddAgentFinalizer
  <2>1. Childless' <=> Childless
    BY <1>4 DEF AddAgentFinalizer, Childless, Isolation
  <2>2. ctl.obj \in CRs
    BY <1>4 DEF AddAgentFinalizer, Idle
  <2>3. cr' # cr => cr' # NoAgent /\ cr'.finalizer
    <3>1. [ctl.obj EXCEPT !.finalizer = TRUE] \in CRs /\ [ctl.obj EXCEPT !.finalizer = TRUE].finalizer
      BY <2>2 DEF CRs
    <3> QED BY <1>4, <3>1 DEF AddAgentFinalizer
  <2>4. ctl'.pc = "idle" /\ UNCHANGED forced
    BY <1>4 DEF AddAgentFinalizer, Idle
  <2> QED BY <2>1, <2>3, <2>4 DEF ChildrenHeld, Provisioning
<1>5. ASSUME ctl.pc \in Provisioning, UNCHANGED forced, ctl'.pc \in {"idle", "status"} \cup Provisioning,
             cr' = cr \/ (PassWrites /\ cr' \in CRs /\ cr'.finalizer = cr.finalizer)
      PROVE  ChildrenHeld'
  BY <1>5 DEF ChildrenHeld, PassWrites, Provisioning
<1>6. ASSUME ctl.pc \in Provisioning, PassFails, UNCHANGED forced PROVE ChildrenHeld'
  <2>1. ctl # Idle /\ ctl' = Idle
    BY <1>6 DEF PassFails, Idle, Provisioning
  <2> QED BY <1>5, <1>6, <2>1, FailedWrites DEF Idle
<1>7. CASE ProvisionConfig
  <2>1. ctl.pc \in Provisioning /\ UNCHANGED forced
    BY <1>7 DEF ProvisionConfig, Provisioning
  <2>2. ~PassFails => cr' = cr /\ ctl'.pc \in Provisioning
    BY <1>7 DEF ProvisionConfig, PassGoesOn, Provisioning
  <2> QED BY <2>1, <2>2, <1>5, <1>6
<1>8. CASE ProvisionWorkload
  <2>1. ctl.pc \in Provisioning /\ UNCHANGED forced
    BY <1>8 DEF ProvisionWorkload, Provisioning
  <2>2. ~PassFails => cr' = cr /\ ctl'.pc \in {"status"} \cup Provisioning
    BY <1>8 DEF ProvisionWorkload, Provisioning
  <2> QED BY <2>1, <2>2, <1>5, <1>6
<1>9. CASE EnsureAgentWallet
  <2>1. ctl.pc \in Provisioning /\ UNCHANGED forced
    BY <1>9 DEF EnsureAgentWallet, Provisioning
  <2>2. ~PassFails => cr' = cr /\ ctl'.pc = "status"
    BY <1>9 DEF EnsureAgentWallet
  <2> QED BY <2>1, <2>2, <1>5, <1>6
<1>10. CASE ReconcileStatus
  <2>1. Childless' <=> Childless
    BY <1>10 DEF ReconcileStatus, Childless, Isolation
  <2>2. ctl'.pc = "idle" /\ UNCHANGED forced
    BY <1>10 DEF ReconcileStatus, Idle
  <2>3. cr' = cr \/ (cr # NoAgent /\ cr' # NoAgent /\ cr'.finalizer = cr.finalizer)
    BY <1>10, EndWrites DEF PassWrites
  <2> QED BY <2>1, <2>2, <2>3 DEF ChildrenHeld, Provisioning
<1>11. CASE TearDownAgent
  <2>1. cr' = cr /\ UNCHANGED forced /\ ctl.pc = "teardown"
    BY <1>11 DEF TearDownAgent
  <2>2. Childless => kids = Isolation(kids) /\ kids.keystore = 0 /\ ~kids.deployment /\ ~kids.signer
    BY DEF Childless, Isolation, NoKids
  <2>3. CASE kids' = Isolation(kids) /\ ctl'.pc \in {"idle", "unfinalize"}
    <3>1. Childless'
      BY <2>3, ChildlessIs DEF Childless, Isolation
    <3> QED BY <2>1, <2>3, <3>1 DEF ChildrenHeld, Provisioning
  <2>4. CASE kids' = [kids EXCEPT !.deployment = FALSE, !.signer = FALSE] /\ ctl' = Idle
    <3>1. Childless => kids' = kids
      BY <2>2, <2>4 DEF AgentTypeOK
    <3> QED BY <2>1, <2>4, <3>1 DEF ChildrenHeld, Provisioning, Idle, Childless
  <2>5. CASE kids' = [Isolation(kids) EXCEPT !.keystore = kids.keystore] /\ ctl' = Idle
    <3>1. Childless => kids' = kids
      BY <2>2, <2>5 DEF AgentTypeOK, Isolation, NoKids
    <3> QED BY <2>1, <2>5, <3>1 DEF ChildrenHeld, Provisioning, Idle, Childless
  <2> QED BY <1>11, <2>3, <2>4, <2>5 DEF TearDownAgent, Idle
<1>12. CASE RemoveAgentFinalizer
  <2>1. Childless'
    BY <1>12 DEF RemoveAgentFinalizer, ChildrenHeld, Childless, Isolation
  <2> QED BY <1>12, <2>1 DEF RemoveAgentFinalizer, ChildrenHeld, Provisioning, Idle
<1>13. CASE ControllerRestarts
  BY <1>13 DEF ControllerRestarts, ChildrenHeld, Childless, Isolation, Provisioning, Idle
<1>14. CASE OperatorEdits
  <2>1. ~Childless
    BY <1>14 DEF OperatorEdits, Childless, Isolation, NoKids
  <2> QED BY <1>14, <2>1 DEF OperatorEdits, ChildrenHeld
<1> QED
  BY <1>0, <1>1, <1>2, <1>3, <1>4, <1>7, <1>8, <1>9, <1>10, <1>11, <1>12, <1>13, <1>14
     DEF AgentNext, CommandStep
LEMMA KeysHeldStep ==
    ASSUME AgentTypeOK, PassFits, KeysHeld, [AgentNext]_agentVars
    PROVE  KeysHeld'
<1> USE PassParts, Marks
<1>0. CASE UNCHANGED agentVars
  BY <1>0 DEF KeysHeld, AddressIsKeystores
<1>1. ASSUME UNCHANGED <<kids, ctl>>,
             \/ cr' = cr
             \/ cr' = NoAgent \/ cr'.deleting \/ cr'.address = 0
             \/ cr # NoAgent /\ cr'.address = cr.address /\ cr'.deleting = cr.deleting
      PROVE  KeysHeld'
  BY <1>1 DEF KeysHeld, AddressIsKeystores
<1>2. CASE CommandStep
  <2>1. ASSUME NEW s \in AgentSpecs PROVE NewCR(s).address = 0
    BY DEF NewCR
  <2>2. ASSUME cr \in CRs, NEW s \in AgentSpecs
        PROVE  [cr EXCEPT !.spec = s].address = cr.address /\ [cr EXCEPT !.spec = s].deleting = cr.deleting
    BY <2>2 DEF CRs
  <2>3. ASSUME cr \in CRs, cr' = Reaped([cr EXCEPT !.deleting = TRUE]) PROVE cr' = NoAgent \/ cr'.deleting
    BY <2>3 DEF CRs, Reaped
  <2>4. ASSUME cr \in CRs, cr' = StripAgentFinalizers(cr)
        PROVE  cr' = NoAgent \/ (cr'.address = cr.address /\ cr'.deleting = cr.deleting)
    BY <2>4 DEF CRs, Reaped, StripAgentFinalizers
  <2>5. \/ cr' = cr
        \/ cr' = NoAgent \/ cr'.deleting \/ cr'.address = 0
        \/ cr # NoAgent /\ cr'.address = cr.address /\ cr'.deleting = cr.deleting
    BY <1>2, <2>1, <2>2, <2>3, <2>4, CommandWritesOnly DEF CommandWrites, Stripped
  <2> QED BY <1>2, <2>5, <1>1, CommandWritesOnly
<1>3. CASE ClusterRecreated
  BY <1>3 DEF ClusterRecreated, KeysHeld, AddressIsKeystores, Idle
<1>4. CASE ReconcileGet
  <2>1. /\ ctl'.pc \in {"teardown", "unfinalize"} => cr.deleting
        /\ ctl'.pc = "status" => ctl'.address = 0
    BY <1>4 DEF ReconcileGet, Idle
  <2> QED BY <1>4, <2>1 DEF ReconcileGet, KeysHeld, AddressIsKeystores
<1>5. ASSUME kids'.keystore = kids.keystore, ctl'.pc \in {"idle"} \cup Provisioning,
             \/ cr' = cr \/ cr' = NoAgent
             \/ cr # NoAgent /\ cr'.address = cr.address /\ cr'.deleting = cr.deleting
      PROVE  KeysHeld'
  BY <1>5 DEF KeysHeld, AddressIsKeystores, Provisioning
<1>6. CASE AddAgentFinalizer
  <2>1. ctl # Idle /\ ctl.obj \in CRs
    BY <1>6 DEF AddAgentFinalizer, Idle
  <2>2. cr' = cr \/ (cr = ctl.obj /\ cr'.address = cr.address /\ cr'.deleting = cr.deleting)
    BY <1>6, <2>1 DEF AddAgentFinalizer, PassFits, CRs
  <2>3. kids' = kids /\ ctl'.pc = "idle"
    BY <1>6 DEF AddAgentFinalizer, Idle
  <2> QED BY <1>5, <2>1, <2>2, <2>3
<1>7. ASSUME ctl # Idle, PassFails
      PROVE  /\ ctl'.pc = "idle"
             /\ cr' = cr \/ (cr # NoAgent /\ cr'.address = cr.address /\ cr'.deleting = cr.deleting)
  <2>1. ctl'.pc = "idle"
    BY <1>7 DEF PassFails, Idle
  <2> QED BY <1>7, <2>1, FailedWrites DEF PassWrites
<1>8. CASE ProvisionConfig
  <2>1. ctl # Idle /\ kids'.keystore = kids.keystore
    BY <1>8, ZenonT(60) DEF ProvisionConfig, AgentTypeOK, Idle
  <2>2. ~PassFails => cr' = cr /\ ctl'.pc \in Provisioning
    BY <1>8 DEF ProvisionConfig, PassGoesOn, Provisioning
  <2> QED BY <2>1, <2>2, <1>5, <1>7
<1>9. CASE ProvisionWorkload
  <2>1. ctl # Idle /\ kids'.keystore = kids.keystore
    BY <1>9, ZenonT(60) DEF ProvisionWorkload, BuildAgentDeployment, BuildAgentNetworkPolicy, AgentTypeOK, Idle
  <2>2. ~PassFails => cr' = cr /\ (ctl'.pc \in Provisioning \/ (ctl'.pc = "status" /\ ctl'.address = 0))
    BY <1>9 DEF ProvisionWorkload, Provisioning
  <2>3. CASE ctl'.pc = "status" /\ ctl'.address = 0 /\ cr' = cr
    BY <2>1, <2>3 DEF KeysHeld, AddressIsKeystores
  <2> QED BY <2>1, <2>2, <2>3, <1>5, <1>7
<1>10. CASE EnsureAgentWallet
  <2>1. ctl # Idle /\ ctl.pc = "keystore"
    BY <1>10 DEF EnsureAgentWallet, Idle
  <2>2. /\ kids.keystore # 0 => kids'.keystore = kids.keystore
        /\ ~PassFails => cr' = cr /\ ctl'.pc = "status" /\ kids'.keystore = ctl'.address
    <3> DEFINE a == IF kids.keystore # 0 THEN kids.keystore ELSE NextAddress
    <3>1. EnsureSignerKeystore = [address |-> a, keystore |-> a] /\ (kids.keystore # 0 => a = kids.keystore)
      BY DEF EnsureSignerKeystore
    <3> HIDE DEF a
    <3>2. /\ RemoteSignerManifests([kids EXCEPT !.keystore = a]).keystore = a
          /\ [kids EXCEPT !.keystore = a].keystore = a
      BY DEF RemoteSignerManifests, AgentTypeOK
    <3>3. \/ kids' = kids
          \/ kids' = [kids EXCEPT !.keystore = a]
          \/ kids' = RemoteSignerManifests([kids EXCEPT !.keystore = a])
      BY <1>10, <3>1 DEF EnsureAgentWallet
    <3>4. ~PassFails => /\ cr' = cr /\ ctl'.pc = "status" /\ ctl'.address = a
                        /\ kids' = RemoteSignerManifests([kids EXCEPT !.keystore = a])
      BY <1>10, <3>1 DEF EnsureAgentWallet
    <3> QED BY <3>1, <3>2, <3>3, <3>4
  <2>3. cr' # NoAgent /\ ~cr'.deleting /\ cr'.address # 0
          => cr # NoAgent /\ ~cr.deleting /\ cr'.address = cr.address
    BY <2>1, <2>2, <1>7
  <2>4. AddressIsKeystores'
    BY <2>2, <2>3 DEF KeysHeld, AddressIsKeystores
  <2> QED BY <2>1, <2>2, <2>4, <1>7 DEF KeysHeld
<1>11. CASE ReconcileStatus
  <2>1. ctl'.pc = "idle" /\ kids' = kids
    BY <1>11 DEF ReconcileStatus, Idle
  <2>2. ctl.pc = "status" /\ ctl.address \in Nat
    BY <1>11 DEF ReconcileStatus
  <2>3. \/ cr' = cr
        \/ /\ cr # NoAgent /\ cr'.deleting = cr.deleting
           /\ cr'.address = IF ctl.address # 0 THEN ctl.address ELSE cr.address
    BY <1>11, EndWrites DEF PassWrites
  <2> QED BY <2>1, <2>2, <2>3 DEF KeysHeld, AddressIsKeystores
<1>12. CASE TearDownAgent
  <2>1. cr' = cr /\ ctl'.pc # "status" /\ (cr = NoAgent \/ cr.deleting \/ cr.address = 0)
    BY <1>12 DEF TearDownAgent, KeysHeld, Idle
  <2> QED BY <2>1 DEF KeysHeld, AddressIsKeystores
<1>13. CASE RemoveAgentFinalizer
  <2>1. ctl # Idle /\ ctl.obj \in CRs /\ ctl.obj.deleting
    BY <1>13 DEF RemoveAgentFinalizer, PassFits, Idle
  <2>2. cr' = cr \/ cr' = NoAgent
    BY <1>13, <2>1 DEF RemoveAgentFinalizer, Reaped, CRs
  <2>3. kids' = kids /\ ctl'.pc = "idle"
    BY <1>13 DEF RemoveAgentFinalizer, Idle
  <2> QED BY <1>5, <2>2, <2>3
<1>14. CASE ControllerRestarts
  BY <1>5, <1>14 DEF ControllerRestarts, Idle
<1>15. CASE OperatorEdits
  <2>1. kids'.keystore = kids.keystore /\ UNCHANGED <<cr, ctl>>
    BY <1>15 DEF OperatorEdits, AgentTypeOK
  <2> QED BY <2>1 DEF KeysHeld, AddressIsKeystores
<1> QED
  BY <1>0, <1>2, <1>3, <1>4, <1>6, <1>8, <1>9, <1>10, <1>11, <1>12, <1>13, <1>14, <1>15
     DEF AgentNext, CommandStep

-----------------------------------------------------------------------------
(* Agents: what the operator was told *)

LEMMA PassWritesOnly ==
    ASSUME AgentTypeOK, PassFits, PassStep
    PROVE  /\ UNCHANGED <<record, sales, cmd, want, replayed>>
           /\ cr' = cr \/ PassWrites
<1> USE PassParts, Marks
<1>1. CASE ReconcileGet
  BY <1>1 DEF ReconcileGet
<1>2. CASE AddAgentFinalizer
  <2>1. ctl # Idle /\ ctl.obj \in CRs
    BY <1>2 DEF AddAgentFinalizer, Idle
  <2>2. [ctl.obj EXCEPT !.finalizer = TRUE] \in CRs
    BY <2>1, CRWrites
  <2>3. /\ [ctl.obj EXCEPT !.finalizer = TRUE].spec = ctl.obj.spec
        /\ [ctl.obj EXCEPT !.finalizer = TRUE].deleting = ctl.obj.deleting
    BY <2>1 DEF CRs
  <2>4. fresh => cr = ctl.obj
    BY <2>1 DEF PassFits
  <2> QED BY <1>2, <2>1, <2>2, <2>3, <2>4 DEF AddAgentFinalizer, PassWrites
<1>3. CASE ProvisionConfig
  BY <1>3, FailedWrites DEF ProvisionConfig, PassGoesOn, Idle
<1>4. CASE ProvisionWorkload
  BY <1>4, FailedWrites DEF ProvisionWorkload, Idle
<1>5. CASE EnsureAgentWallet
  BY <1>5, FailedWrites DEF EnsureAgentWallet, Idle
<1>6. CASE ReconcileStatus
  BY <1>6, EndWrites DEF ReconcileStatus
<1>7. CASE TearDownAgent
  BY <1>7 DEF TearDownAgent
<1>8. CASE RemoveAgentFinalizer
  <2>1. ctl # Idle /\ ctl.obj \in CRs /\ ctl.obj.deleting
    BY <1>8 DEF RemoveAgentFinalizer, PassFits, Idle
  <2>2. Reaped([ctl.obj EXCEPT !.finalizer = FALSE]) = NoAgent
    BY <2>1 DEF Reaped, CRs
  <2>3. fresh => cr = ctl.obj
    BY <2>1 DEF PassFits
  <2> QED BY <1>8, <2>1, <2>2, <2>3 DEF RemoveAgentFinalizer, PassWrites
<1>9. CASE ControllerRestarts
  BY <1>9 DEF ControllerRestarts
<1>10. CASE OperatorEdits
  BY <1>10 DEF OperatorEdits
<1> QED
  BY <1>1, <1>2, <1>3, <1>4, <1>5, <1>6, <1>7, <1>8, <1>9, <1>10 DEF PassStep

LEMMA WordKeptStep ==
    ASSUME AgentTypeOK, PassFits, WordKept, [AgentNext]_agentVars
    PROVE  WordKept'
<1> USE CommandFields, Marks
<1>0. CASE UNCHANGED agentVars
  BY <1>0 DEF WordKept
<1>1. CASE PassStep
  <2>1. cr' = cr \/ (cr # NoAgent /\ (cr.deleting \/ (cr' # NoAgent /\ cr'.spec = cr.spec /\ cr'.deleting = cr.deleting)))
    BY <1>1, PassWritesOnly DEF PassWrites
  <2>2. UNCHANGED <<record, sales, cmd, want, replayed>>
    BY <1>1, PassWritesOnly
  <2> QED BY <2>1, <2>2 DEF WordKept
\* A command that ends without success leaves nothing known.
<1>2. ASSUME cmd' = Idle, want' = Unknown PROVE WordKept'
  BY <1>2 DEF WordKept, Idle
<1>3. CASE CreateSeeds
  <2>1. cmd'.pc = "apply" /\ want' = Unknown
    BY <1>3 DEF CreateSeeds, Begin
  <2> QED BY <2>1 DEF WordKept
<1>4. CASE UpdateSeeds
  <2>1. cmd'.pc \in {"apply", "idle"} /\ want' = Unknown
    <3>1. PICK spec \in AgentSpecs : Begin([pc |-> "apply", spec |-> spec]) \/ Begin(Idle)
      BY <1>4 DEF UpdateSeeds
    <3>2. want' = Unknown
      BY <1>4 DEF UpdateSeeds
    <3> QED BY <3>1, <3>2 DEF Begin, Idle
  <2> QED BY <2>1 DEF WordKept
<1>5. CASE CommandApplies
  <2>1. CASE Fails
    BY <1>2, <2>1 DEF Fails, End
  <2>2. CASE WriteCR(Applied(cmd.spec)) /\ UNCHANGED want
             /\ cmd' = [pc |-> "persist", spec |-> cmd.spec, lives |-> cr = NoAgent \/ ~cr.deleting]
    <3>1. cmd # Idle /\ cmd.spec \in AgentSpecs
      BY <1>5 DEF CommandApplies
    <3>2. cr' # NoAgent /\ cr'.spec = cmd.spec /\ (cr = NoAgent \/ ~cr.deleting => ~cr'.deleting)
      <4>1. CASE cr = NoAgent
        BY <2>2, <3>1, <4>1, NewCRType DEF WriteCR, Applied, NewCR
      <4>2. CASE cr # NoAgent
        <5>1. cr \in CRs /\ cr' = [cr EXCEPT !.spec = cmd.spec]
          BY <2>2, <4>2 DEF WriteCR, Applied, AgentTypeOK
        <5>2. cr' \in CRs
          BY <3>1, <5>1, CRWrites
        <5> QED BY <5>1, <5>2 DEF CRs
      <4> QED BY <4>1, <4>2
    <3> QED BY <2>2, <3>1, <3>2 DEF WordKept
  <2> QED BY <1>5, <2>1, <2>2 DEF CommandApplies
<1>6. CASE PersistManifest
  <2>1. CASE Fails
    BY <1>2, <2>1 DEF Fails, End
  <2>2. CASE record' = cmd.spec /\ End(IF cmd.lives THEN cmd.spec ELSE Unknown)
    <3>1. cmd.spec \in AgentSpecs /\ UNCHANGED <<cr, sales, replayed>>
      BY <1>6 DEF PersistManifest
    <3> QED BY <1>6, <2>2, <3>1 DEF PersistManifest, End, WordKept, Idle
  <2> QED BY <1>6, <2>1, <2>2 DEF PersistManifest
<1>7. CASE DeleteRequests
  <2>1. cmd'.pc \in {"wait", "wipe"} /\ want' = Unknown /\ (cmd'.pc = "wipe" => ~cmd'.clean)
    BY <1>7 DEF DeleteRequests, Begin
  <2> QED BY <2>1 DEF WordKept
<1>8. CASE DeleteWaits
  <2>1. CASE Fails
    BY <1>2, <2>1 DEF Fails, End
  <2>2. CASE cr = NoAgent /\ cmd' = [pc |-> "offers"] /\ UNCHANGED <<cr, want>>
    BY <1>8, <2>2 DEF DeleteWaits, WordKept
  <2>3. CASE UNCHANGED <<cmd, want>>
    BY <1>8, <2>3 DEF DeleteWaits, WordKept
  <2> QED BY <1>8, <2>1, <2>2, <2>3 DEF DeleteWaits
<1>9. CASE DeleteOffers
  <2>1. /\ cmd'.pc = "wipe" /\ cr = NoAgent /\ want = Unknown
        /\ cmd'.clean => sales' = {}
        /\ UNCHANGED <<cr, want, record, replayed>>
    BY <1>9 DEF DeleteOffers, WordKept
  <2> QED BY <2>1 DEF WordKept
<1>10. CASE DeleteWipes
  <2>1. CASE Fails
    BY <1>2, <2>1 DEF Fails, End
  <2>2. CASE cmd' = [cmd EXCEPT !.pc = "forget"] /\ UNCHANGED want
    <3>1. cmd = [pc |-> "wipe", clean |-> cmd.clean] /\ UNCHANGED <<cr, sales, replayed>>
      BY <1>10 DEF DeleteWipes
    <3>2. cmd' = [pc |-> "forget", clean |-> cmd.clean]
      BY <2>2, <3>1
    <3> QED BY <1>10, <2>2, <3>1, <3>2 DEF DeleteWipes, WordKept
  <2> QED BY <1>10, <2>1, <2>2 DEF DeleteWipes
<1>11. CASE RemoveManifest
  <2>1. CASE Fails
    BY <1>2, <2>1 DEF Fails, End
  <2>2. CASE record' = NoAgent /\ End(IF cmd.clean THEN NoAgent ELSE Unknown)
    BY <1>11, <2>2 DEF RemoveManifest, End, WordKept, Idle
  <2> QED BY <1>11, <2>1, <2>2 DEF RemoveManifest
<1>12. CASE CommandCrashes
  BY <1>2, <1>12 DEF CommandCrashes, Fails, End
<1>13. CASE SellAgent
  BY <1>13 DEF SellAgent, WordKept
<1>14. CASE ClusterRecreated
  BY <1>14 DEF ClusterRecreated, WordKept, Idle
<1>15. CASE ResumeAll
  <2>1. CASE record = NoAgent
    <3>1. want \in {NoAgent, Unknown} /\ UNCHANGED <<cr, cmd, want, record>>
      BY <1>15, <2>1 DEF ResumeAll, WordKept, AgentTypeOK
    <3>2. want = NoAgent => sales' = {}
      BY <1>15 DEF ResumeAll, WordKept
    <3> QED BY <1>15, <3>1, <3>2 DEF ResumeAll, WordKept, Idle
  <2>2. CASE record \in AgentSpecs
    <3>1. want \in {record, Unknown} /\ cr' = Applied(record) /\ UNCHANGED <<cmd, want, record>>
      BY <1>15, <2>2 DEF ResumeAll, WriteCR, WordKept, AgentTypeOK
    <3>2. want = record => cr' # NoAgent /\ cr'.spec = record /\ ~cr'.deleting
      <4>1. CASE cr = NoAgent
        BY <2>2, <3>1, <4>1, NewCRType DEF Applied, NewCR
      <4>2. CASE cr # NoAgent
        <5>1. cr \in CRs /\ cr' = [cr EXCEPT !.spec = record]
          BY <3>1, <4>2 DEF Applied, AgentTypeOK
        <5>2. cr' \in CRs /\ cr'.spec = record /\ cr'.deleting = cr.deleting
          BY <2>2, <5>1, CRWrites DEF CRs
        <5> QED BY <2>2, <4>2, <5>2 DEF WordKept
      <4> QED BY <4>1, <4>2
    <3> QED BY <1>15, <2>2, <3>1, <3>2 DEF ResumeAll, WordKept, Idle
  <2> QED BY <2>1, <2>2 DEF AgentTypeOK
<1> QED
  BY <1>0, <1>1, <1>3, <1>4, <1>5, <1>6, <1>7, <1>8, <1>9, <1>10, <1>11, <1>12, <1>13, <1>14,
     <1>15 DEF AgentNext, PassStep

-----------------------------------------------------------------------------
(* What a command that reported success did outlives the cluster, an agent *)
(* that is gone leaves nothing, and a published address can be signed for  *)
(* (agent.go:345-367, agent.go:149-165, agent_wallet.go:83-119).           *)
THEOREM AgentHolds == AgentSpec => []AgentInv
<1>1. AgentInit => AgentIInv
  <2> SUFFICES ASSUME AgentInit PROVE AgentIInv
    OBVIOUS
  <2>1. kids = NoKids /\ cr = NoAgent /\ ctl = Idle /\ cmd = Idle /\ want = NoAgent /\ sales = {} /\ record = NoAgent
    BY DEF AgentInit
  <2>2. NoKids \in KidSet
    BY DEF NoKids, KidSet
  <2>3. faults \in 0..MaxAgentFaults /\ cmds \in 0..MaxAgentCmds
    BY AgentAssumption DEF AgentInit
  <2>4. AgentTypeOK
    BY <2>1, <2>2, <2>3, CommandValues, PassValues DEF AgentInit, AgentTypeOK, KidSet
  <2>5. Childless
    BY <2>1, <2>4, ChildlessIs DEF Childless
  <2>6. PassFits /\ ChildrenHeld
    BY <2>1, <2>5 DEF PassFits, ChildrenHeld, Idle, Provisioning
  <2>7. KeysHeld /\ WordKept
    BY <2>1, Marks DEF KeysHeld, AddressIsKeystores, WordKept, Idle
  <2> QED BY <2>4, <2>6, <2>7 DEF AgentIInv
<1>2. AgentIInv /\ [AgentNext]_agentVars => AgentIInv'
  BY AgentTypeStep, PassFitsStep, ChildrenHeldStep, KeysHeldStep, WordKeptStep DEF AgentIInv
<1>3. AgentIInv => AgentInv
  <2> SUFFICES ASSUME AgentIInv PROVE AgentInv
    OBVIOUS
  <2>1. AgentCommandIsDurable
    BY Marks DEF AgentIInv, AgentTypeOK, AgentCommandIsDurable, WordKept
  <2>2. AgentGoneLeavesNothing
    BY DEF AgentIInv, AgentGoneLeavesNothing, ChildrenHeld, Childless
  <2> QED BY <2>1, <2>2 DEF AgentIInv, AgentInv, KeysHeld
<1> QED BY <1>1, <1>2, <1>3, PTL DEF AgentSpec
-----------------------------------------------------------------------------
(* Wallets: the inductive invariant *)

WalletSteps == {"generate", "values", "metadata", "archive"}
Named == wcmd.pc \in WalletSteps \cup {"apply"}

\* Between the two files of one wallet: onboard and restore have written the
\* password, an import the metadata.
Midway == (wcmd.pc = "metadata" /\ wcmd.kind # "import") \/ (wcmd.pc = "values" /\ wcmd.kind = "import")

\* Whatever an archive, a command or a file names was made.
NumbersMade ==
    /\ warch # Nothing => /\ warch.dir.pw \in 0..wnew /\ warch.dir.meta \in 0..wnew /\ warch.data \subseteq 1..wnew
                          /\ warch.backup # Nothing => warch.backup.ks \in 1..wnew /\ warch.backup.pw \in 1..wnew
    /\ Named => wcmd.ks # 0 /\ wcmd.pw # 0 /\ (wcmd.pw <= wnew \/ (wcmd.pc = "generate" /\ wcmd.pw = wcmd.ks))
    /\ Named /\ wcmd.pc # "generate" => wcmd.ks \in 1..wnew
    /\ wcmd.pc \in WalletSteps \cup {"sync", "apply", "export", "keystores", "cluster"} => wdir # Nothing
    /\ wcmd.pc = "keystores" => warch # Nothing
    /\ wcmd.pc = "archive" => wcmd.kind # "onboard"
    /\ wcmd.pc = "apply" => wcmd.kind = "restore"
    /\ ~wcl.up => wcl.signer = Nothing

\* Keystore and password are a pair wherever they are kept, but for the two
\* files of the wallet that is being written.
PairsKept ==
    ~wtorn =>
        /\ \A b \in wback : Opens(b)
        /\ warch # Nothing => /\ warch.dir.pw = warch.dir.meta
                              /\ warch.backup # Nothing => Opens(warch.backup)
        /\ wcmd.pc \in {"generate", "values", "metadata"} => wcmd.ks = wcmd.pw
        /\ wcmd.pc = "metadata" /\ wcmd.kind # "import" => wdir.pw = wcmd.pw
        /\ ~Midway /\ wdir # Nothing => wdir.pw = wdir.meta

\* The keystore wallet.json names is in the data directory.
KeystoreHeld ==
    /\ wcmd.pc \in {"archive", "apply"} \/ (wcmd.pc = "values" /\ wcmd.kind = "import")
         => wdir.meta = wcmd.ks /\ ~wleft
    /\ Named /\ wcmd.pc # "generate" => wcmd.ks \in wvol
    /\ ~wtorn /\ ~wleft /\ ~Midway /\ wdir # Nothing /\ wdir.meta # 0 => wdir.meta \in wvol
    /\ wcmd.pc = "cluster" /\ wcmd.clean => ~wleft

\* After a command without a warning the cluster has what the files say.
Agreed ==
    wok => /\ wcmd = WIdle /\ wdir # Nothing /\ ~wtorn /\ ~wleft /\ wdir.meta # 0
           /\ wcl.published = wdir.meta /\ wcl.secret = wdir.meta
           /\ wcl.signer # Nothing => wcl.signer.pw = wdir.meta /\ wdir.meta \in wcl.signer.files

WalletIInv == WalletTypeOK /\ NumbersMade /\ PairsKept /\ KeystoreHeld /\ Agreed

-----------------------------------------------------------------------------
(* Wallets: lemmas about commands, backups and the cluster *)

Clusters == [up : BOOLEAN, secret : Nat, published : Nat, signer : Signers \cup {Nothing}]
NamedCommands == [pc : WalletSteps \cup {"sync", "apply"}, kind : WalletKinds, ks : Nat, pw : Nat, old : Nat]

LEMMA NothingElse ==
    Nothing \notin WalletDirs /\ Nothing \notin WalletBackups /\ Nothing \notin Signers /\ Nothing \notin Archives
BY WalletAssumption

LEMMA WalletFields ==
    ASSUME WalletTypeOK
    PROVE  /\ wcmd.pc \in WalletSteps \cup {"idle", "sync", "apply", "export", "keystores", "cluster"}
           /\ wcmd.pc = "idle" <=> wcmd = WIdle
           /\ Named => wcmd \in NamedCommands
           /\ wcmd.pc = "sync" => wcmd.kind \in WalletKinds
           /\ wcmd.pc = "keystores" => wcmd.pass \in BOOLEAN
           /\ wcmd.pc = "cluster" => wcmd.written \in BOOLEAN /\ wcmd.clean \in BOOLEAN
BY DEF WalletTypeOK, WalletCommands, WIdle, Named, NamedCommands, WalletSteps, WalletKinds

LEMMA WalletCommandValues ==
    /\ WIdle \in WalletCommands /\ NamedCommands \subseteq WalletCommands
    /\ [pc |-> "sync", kind |-> "onboard"] \in WalletCommands /\ [pc |-> "export"] \in WalletCommands
    /\ \A b \in BOOLEAN : [pc |-> "keystores", pass |-> b] \in WalletCommands
    /\ \A b, c \in BOOLEAN : [pc |-> "cluster", written |-> b, clean |-> c] \in WalletCommands
BY DEF WalletCommands, NamedCommands, WalletSteps

\* The order of the writes, and what a command carries from one to the next.
LEMMA AdvanceIs ==
    ASSUME wcmd \in NamedCommands, wcmd.pc \in WalletSteps, wcmd.pc = "archive" => wcmd.kind # "onboard", Advance
    PROVE  /\ wcmd' \in NamedCommands /\ wcmd'.kind = wcmd.kind /\ wcmd'.ks = wcmd.ks /\ wcmd'.pw = wcmd.pw
           /\ wcmd.pc = "generate" => wcmd'.pc = IF wcmd.kind = "import" THEN "metadata" ELSE "values"
           /\ wcmd.pc = "values" => wcmd'.pc = IF wcmd.kind = "import" THEN "archive" ELSE "metadata"
           /\ wcmd.pc = "metadata" => wcmd'.pc = CASE wcmd.kind = "import" -> "values"
                                                   [] wcmd.kind = "restore" -> "archive" [] OTHER -> "sync"
           /\ wcmd.pc = "archive" => wcmd'.pc = IF wcmd.kind = "import" THEN "sync" ELSE "apply"
<1> DEFINE next == Steps[wcmd.kind][wcmd.pc]
<1>1. wcmd.kind \in WalletKinds
  BY DEF NamedCommands
<1>2. /\ wcmd.pc = "generate" => next = IF wcmd.kind = "import" THEN "metadata" ELSE "values"
      /\ wcmd.pc = "values" => next = IF wcmd.kind = "import" THEN "archive" ELSE "metadata"
      /\ wcmd.pc = "metadata" => next = CASE wcmd.kind = "import" -> "values"
                                          [] wcmd.kind = "restore" -> "archive" [] OTHER -> "sync"
      /\ wcmd.pc = "archive" => next = IF wcmd.kind = "import" THEN "sync" ELSE "apply"
  BY <1>1 DEF Steps, WalletKinds
<1>3. next \in WalletSteps \cup {"sync", "apply"}
  BY <1>1, <1>2 DEF WalletSteps, WalletKinds
<1>4. wcmd' = [wcmd EXCEPT !.pc = next]
  BY DEF Advance
<1> HIDE DEF next
<1>5. wcmd' \in NamedCommands /\ wcmd'.kind = wcmd.kind /\ wcmd'.ks = wcmd.ks /\ wcmd'.pw = wcmd.pw /\ wcmd'.pc = next
  BY <1>3, <1>4 DEF NamedCommands
<1> QED BY <1>2, <1>5

LEMMA StartIs ==
    ASSUME NEW c \in Clusters, wvol \subseteq Nat
    PROVE  /\ Start(c) \in Clusters /\ Start(c).up = c.up /\ Start(c).secret = c.secret
           /\ Start(c).published = c.published
           /\ Start(c).signer = IF c.secret = 0 THEN Nothing ELSE [pw |-> c.secret, files |-> wvol]
<1> DEFINE s == IF c.secret = 0 THEN Nothing ELSE [pw |-> c.secret, files |-> wvol]
<1>1. s \in Signers \cup {Nothing}
  BY DEF Signers, Clusters
<1>2. Start(c) = [c EXCEPT !.signer = s]
  BY DEF Start
<1> HIDE DEF s
<1>3. /\ Start(c) \in Clusters /\ Start(c).up = c.up /\ Start(c).secret = c.secret
      /\ Start(c).published = c.published /\ Start(c).signer = s
  BY <1>1, <1>2 DEF Clusters
<1> QED BY <1>3 DEF s

LEMMA AppliedIs ==
    ASSUME NEW c \in Clusters, wdir \in WalletDirs
    PROVE  /\ WithPassword(c) \in Clusters /\ WithPassword(c) = [c EXCEPT !.secret = wdir.pw]
           /\ WithPassword(c).secret = wdir.pw /\ WithPassword(c).published = c.published
           /\ WithPassword(c).up = c.up /\ WithPassword(c).signer = c.signer
           /\ WithMetadata(c) \in Clusters
           /\ WithMetadata(c).published = (IF wdir.meta # 0 THEN wdir.meta ELSE c.published)
           /\ WithMetadata(c).secret = c.secret
           /\ WithMetadata(c).up = c.up /\ WithMetadata(c).signer = c.signer
BY DEF WithPassword, WithMetadata, Clusters, WalletDirs

LEMMA SyncedIs ==
    ASSUME NEW c \in Clusters, wdir \in WalletDirs, wvol \subseteq Nat
    PROVE  /\ Synced(c) \in Clusters /\ Synced(c).up = c.up /\ Synced(c).secret = wdir.pw
           /\ Synced(c).published = (IF wdir.meta # 0 THEN wdir.meta ELSE c.published)
           /\ c.signer # Nothing => Synced(c).signer = c.signer
           /\ c.signer = Nothing /\ wdir.pw # 0 => Synced(c).signer = [pw |-> wdir.pw, files |-> wvol]
<1> DEFINE new == WithMetadata(WithPassword(c))
<1>1. /\ new \in Clusters /\ new.up = c.up /\ new.secret = wdir.pw /\ new.signer = c.signer
      /\ new.published = (IF wdir.meta # 0 THEN wdir.meta ELSE c.published)
  BY AppliedIs
<1>2. Synced(c) = IF c.signer = Nothing THEN Start(new) ELSE new
  BY DEF Synced
<1> HIDE DEF new
<1> QED BY <1>1, <1>2, StartIs

LEMMA BackupIs ==
    ASSUME WalletTypeOK, BuildHostWalletBackup # Nothing
    PROVE  /\ BuildHostWalletBackup = [ks |-> wdir.meta, pw |-> wdir.pw] /\ BuildHostWalletBackup \in WalletBackups
           /\ wdir \in WalletDirs /\ wdir.meta \in wvol /\ wdir.pw # 0
BY DEF BuildHostWalletBackup, WalletTypeOK, WalletDirs, WalletBackups
-----------------------------------------------------------------------------
(* Wallets: the values of the state *)

\* What a command has named so far stays made when another keystore is.
LEMMA WalletFaultStep ==
    ASSUME WalletTypeOK, WalletFault
    PROVE  wfaults' \in 0..MaxWalletFaults
BY WalletAssumption DEF WalletTypeOK, WalletFault

LEMMA WalletBeginStep ==
    ASSUME WalletTypeOK, NEW c \in WalletCommands, WBegin(c)
    PROVE  wcmd' \in WalletCommands /\ wcmds' \in 0..MaxWalletCmds /\ wok' \in BOOLEAN
<1>1. wcmds' \in 0..MaxWalletCmds
  BY WalletAssumption DEF WalletTypeOK, WBegin
<1> QED BY <1>1 DEF WBegin

LEMMA WalletNamed ==
    ASSUME WalletTypeOK, NEW k \in {"onboard", "import", "restore"}, NEW ks \in Nat, NEW pw \in Nat
    PROVE  /\ Wallet(k, ks, pw) \in NamedCommands /\ Wallet(k, ks, pw) \in WalletCommands
           /\ Wallet(k, ks, pw).pc = "generate" /\ Wallet(k, ks, pw).ks = ks /\ Wallet(k, ks, pw).pw = pw
BY NothingElse, WalletCommandValues DEF Wallet, NamedCommands, WalletKinds, WalletSteps, WalletTypeOK, WalletDirs

LEMMA WalletTypeStep ==
    ASSUME WalletTypeOK, NumbersMade, [WalletNext]_walletVars
    PROVE  WalletTypeOK'
<1> USE NothingElse, WalletFields DEF WalletCalm
<1>0. CASE UNCHANGED walletVars
  BY <1>0 DEF WalletTypeOK
<1>1. ASSUME UNCHANGED <<wdir, wvol, wold, wnew, wback>>,
             wcl' \in Clusters, wcl'.secret \in 0..wnew, wcl'.published \in 0..wnew,
             warch' \in Archives \cup {Nothing}, wcmd' \in WalletCommands,
             readable' \in BOOLEAN, wok' \in BOOLEAN, wtorn' \in BOOLEAN, wleft' \in BOOLEAN,
             wfaults' \in 0..MaxWalletFaults, wcmds' \in 0..MaxWalletCmds
      PROVE  WalletTypeOK'
  BY <1>1 DEF WalletTypeOK, Clusters
<1>2. /\ wcl \in Clusters /\ wcl.secret \in 0..wnew /\ wcl.published \in 0..wnew
      /\ wfaults \in 0..MaxWalletFaults /\ wcmds \in 0..MaxWalletCmds
      /\ readable \in BOOLEAN /\ wok \in BOOLEAN /\ wtorn \in BOOLEAN /\ wleft \in BOOLEAN
      /\ warch \in Archives \cup {Nothing} /\ wcmd \in WalletCommands
      /\ wvol \subseteq Nat /\ (wdir # Nothing => wdir \in WalletDirs)
  BY DEF WalletTypeOK, Clusters
<1>3. ASSUME NEW c \in WalletCommands, WBegin(c),
             UNCHANGED <<wdir, wvol, wold, wnew, wback, wcl, warch, readable, wtorn, wleft, wfaults>>
      PROVE  WalletTypeOK'
  BY <1>1, <1>2, <1>3, WalletBeginStep
<1>4. wnew + 1 \in Nat
  BY DEF WalletTypeOK
<1>5. CASE Onboard
  <2>1. wcmd' \in WalletCommands /\ wcmds' \in 0..MaxWalletCmds /\ wok' \in BOOLEAN
    BY <1>4, <1>5, WalletNamed, WalletBeginStep DEF Onboard
  <2>2. wdir' \in WalletDirs /\ wdir'.pw \in 0..wnew /\ wdir'.meta \in 0..wnew
    BY <1>2, <1>5 DEF Onboard, WalletDirs, WalletTypeOK
  <2> QED BY <1>5, <2>1, <2>2 DEF Onboard, WalletTypeOK
<1>6. CASE OnboardAgain
  BY <1>3, <1>6, WalletCommandValues DEF OnboardAgain
<1>7. CASE ImportPrivateKeyWallet
  BY <1>3, <1>4, <1>7, WalletNamed DEF ImportPrivateKeyWallet
<1>8. CASE RestoreWallet
  <2>1. PICK b \in wback : WBegin(Wallet("restore", b.ks, b.pw))
    BY <1>8 DEF RestoreWallet
  <2>2. b.ks \in Nat /\ b.pw \in Nat
    BY DEF WalletTypeOK, WalletBackups
  <2>3. UNCHANGED <<wdir, wvol, wold, wnew, wback, wcl, warch, readable, wtorn, wleft, wfaults>>
    BY <1>8 DEF RestoreWallet
  <2> QED BY <1>3, <2>1, <2>2, <2>3, WalletNamed
<1>9. wcmd.pc \in WalletSteps =>
        wcmd \in NamedCommands /\ wdir \in WalletDirs /\ (wcmd.pc = "archive" => wcmd.kind # "onboard")
  BY <1>2 DEF Named, NumbersMade
<1>10. ASSUME wcmd.pc \in WalletSteps, Advance PROVE wcmd' \in WalletCommands
  BY <1>9, <1>10, AdvanceIs, WalletCommandValues
<1>11. CASE GenerateWallet
  <2>1. wcmd' \in WalletCommands /\ wcmd.ks \in Nat \ {0}
    BY <1>9, <1>10, <1>11 DEF GenerateWallet, WalletSteps, NumbersMade, Named, NamedCommands
  <2>2. wnew' \in Nat /\ wnew <= wnew' /\ wcmd.ks <= wnew'
    BY <1>11, <2>1 DEF GenerateWallet, WalletTypeOK
  <2>3. 0..wnew \subseteq 0..wnew' /\ 1..wnew \subseteq 1..wnew' /\ wcmd.ks \in 1..wnew'
    BY <2>1, <2>2 DEF WalletTypeOK
  <2>4. wvol' \cup wold' \subseteq 1..wnew' /\ readable' \in BOOLEAN
    BY <1>11, <2>3, <1>2 DEF GenerateWallet, FixRuntimeVolumeOwnership, WalletTypeOK, Clusters
  <2>5. UNCHANGED <<wdir, wcl, wback, warch, wok, wtorn, wleft, wfaults, wcmds>>
    BY <1>11 DEF GenerateWallet
  <2> QED BY <2>1, <2>2, <2>3, <2>4, <2>5 DEF WalletTypeOK
<1>12. CASE WriteRemoteSignerValues
  <2>1. wcmd' \in WalletCommands /\ wcmd \in NamedCommands /\ wdir \in WalletDirs
    BY <1>9, <1>10, <1>12 DEF WriteRemoteSignerValues, WalletSteps
  <2>2. wcmd.pw \in 0..wnew
    BY <1>12, <2>1 DEF WriteRemoteSignerValues, NumbersMade, Named, WalletSteps, NamedCommands, WalletTypeOK
  <2>3. wdir' \in WalletDirs /\ wdir'.pw = wcmd.pw /\ wdir'.meta = wdir.meta
    BY <1>12, <2>1 DEF WriteRemoteSignerValues, WalletDirs, NamedCommands
  <2>4. UNCHANGED <<wvol, wold, readable, wcl, wback, warch, wnew, wok, wtorn, wleft, wfaults, wcmds>>
    BY <1>12 DEF WriteRemoteSignerValues
  <2> QED BY <2>1, <2>2, <2>3, <2>4 DEF WalletTypeOK
<1>13. CASE WriteWalletMetadata
  <2>1. wcmd' \in WalletCommands /\ wcmd \in NamedCommands /\ wdir \in WalletDirs
    BY <1>9, <1>10, <1>13 DEF WriteWalletMetadata, WalletSteps
  <2>2. wcmd.ks \in 0..wnew
    BY <1>13, <2>1 DEF WriteWalletMetadata, NumbersMade, Named, WalletSteps, NamedCommands, WalletTypeOK
  <2>3. wdir' \in WalletDirs /\ wdir'.pw = wdir.pw /\ wdir'.meta = wcmd.ks
    BY <1>13, <2>1 DEF WriteWalletMetadata, WalletDirs, NamedCommands
  <2>4. UNCHANGED <<wvol, wold, readable, wcl, wback, warch, wnew, wok, wtorn, wfaults, wcmds>> /\ wleft' = FALSE
    BY <1>13 DEF WriteWalletMetadata
  <2> QED BY <2>1, <2>2, <2>3, <2>4 DEF WalletTypeOK
<1>14. CASE ArchiveReplacedKeystore
  <2>1. wcmd' \in WalletCommands
    BY <1>10, <1>14 DEF ArchiveReplacedKeystore, WalletSteps
  <2>2. wvol' \cup wold' \subseteq 1..wnew /\ readable' \in BOOLEAN
    BY <1>14, <1>2 DEF ArchiveReplacedKeystore, Replaced, FixRuntimeVolumeOwnership, WalletTypeOK, Clusters
  <2>3. UNCHANGED <<wdir, wcl, wback, warch, wnew, wok, wtorn, wleft, wfaults, wcmds>>
    BY <1>14 DEF ArchiveReplacedKeystore
  <2> QED BY <2>1, <2>2, <2>3 DEF WalletTypeOK
<1>15. CASE WalletCommandStops
  <2>1. wdir' \in {wdir, Nothing} /\ wtorn' \in BOOLEAN /\ wcmd' \in WalletCommands /\ wok' \in BOOLEAN
    BY <1>15, WalletCommandValues DEF WalletCommandStops, WDone, WalletTypeOK
  <2>2. wfaults' \in 0..MaxWalletFaults
    BY <1>15, <1>2, WalletFaultStep DEF WalletCommandStops
  <2>3. UNCHANGED <<wvol, wold, readable, wcl, wback, warch, wnew, wleft, wcmds>>
    BY <1>15 DEF WalletCommandStops
  <2> QED BY <2>1, <2>2, <2>3 DEF WalletTypeOK
<1>16. ASSUME NEW ok \in BOOLEAN, WDone(ok) PROVE wcmd' \in WalletCommands /\ wok' \in BOOLEAN
  BY <1>16, WalletCommandValues DEF WDone
<1>17. CASE SyncStep
  <2>1. wdir \in WalletDirs /\ wdir.pw \in 0..wnew /\ wdir.meta \in 0..wnew
    BY <1>17, <1>2 DEF SyncStep, NumbersMade, WalletTypeOK
  <2>2. Synced(wcl) \in Clusters /\ Synced(wcl).secret \in 0..wnew /\ Synced(wcl).published \in 0..wnew
    BY <1>2, <2>1, SyncedIs
  <2>3. Rolled(Synced(wcl)) \in Clusters /\ Rolled(Synced(wcl)).secret \in 0..wnew /\ Rolled(Synced(wcl)).published \in 0..wnew
    BY <1>2, <2>2, StartIs DEF Rolled
  <2>4. wcl' \in Clusters /\ wcl'.secret \in 0..wnew /\ wcl'.published \in 0..wnew /\ readable' \in BOOLEAN
    BY <1>2, <1>17, <2>3 DEF SyncStep
  <2>5. wcmd' \in WalletCommands /\ wok' \in BOOLEAN
    BY <1>17, <1>2, WalletCommandValues DEF SyncStep, WDone
  <2>6. wfaults' \in 0..MaxWalletFaults
    BY <1>17, <1>2, WalletFaultStep DEF SyncStep
  <2> QED BY <1>1, <1>2, <1>17, <2>4, <2>5, <2>6 DEF SyncStep
<1>18. CASE RestoreApplies
  <2>1. wdir \in WalletDirs /\ wdir.pw \in 0..wnew /\ wdir.meta \in 0..wnew
    BY <1>18, <1>2 DEF RestoreApplies, NumbersMade, WalletTypeOK
  <2>2. \A c \in {wcl, WithMetadata(wcl), WithPassword(wcl), WithPassword(WithMetadata(wcl))} :
            c \in Clusters /\ c.secret \in 0..wnew /\ c.published \in 0..wnew
    BY <1>2, <2>1, AppliedIs
  <2>3. LET c == Start(WithPassword(WithMetadata(wcl)))
        IN  c \in Clusters /\ c.secret \in 0..wnew /\ c.published \in 0..wnew
    BY <1>2, <2>2, StartIs
  <2>4. wcl' \in Clusters /\ wcl'.secret \in 0..wnew /\ wcl'.published \in 0..wnew /\ readable' \in BOOLEAN
    BY <1>2, <1>18, <2>2, <2>3 DEF RestoreApplies
  <2>5. wcmd' \in WalletCommands /\ wok' \in BOOLEAN
    BY <1>18, <1>2, WalletCommandValues DEF RestoreApplies, WDone
  <2>6. wfaults' \in 0..MaxWalletFaults
    BY <1>18, <1>2, WalletFaultStep DEF RestoreApplies
  <2> QED BY <1>1, <1>2, <1>18, <2>4, <2>5, <2>6 DEF RestoreApplies
<1>19. CASE BackupWallet
  <2>1. wcmd' \in WalletCommands /\ wcmds' \in 0..MaxWalletCmds /\ wok' \in BOOLEAN
    BY <1>19, WalletCommandValues, WalletBeginStep DEF BackupWallet
  <2>2. wback' \subseteq WalletBackups /\ \A b \in wback' : b.ks \in 1..wnew /\ b.pw \in 1..wnew
    BY <1>19, BackupIs DEF BackupWallet, WalletTypeOK
  <2> QED BY <1>19, <2>1, <2>2 DEF BackupWallet, WalletTypeOK
<1>20. CASE ExportQuiesces
  <2>1. wcmd' \in WalletCommands /\ wcmds' \in 0..MaxWalletCmds /\ wok' \in BOOLEAN
    BY <1>20, WalletCommandValues, WalletBeginStep DEF ExportQuiesces
  <2>2. wcl' \in Clusters /\ wcl'.secret \in 0..wnew /\ wcl'.published \in 0..wnew
    BY <1>2, <1>20 DEF ExportQuiesces, Clusters
  <2> QED BY <1>1, <1>2, <1>20, <2>1, <2>2 DEF ExportQuiesces
<1>21. CASE ExportArchives
  <2>1. wcmd' \in WalletCommands /\ wok' \in BOOLEAN
    BY <1>21, <1>16 DEF ExportArchives
  <2>2. wcl' \in Clusters /\ wcl'.secret \in 0..wnew /\ wcl'.published \in 0..wnew
    <3>1. wcl' \in {wcl, Start(wcl)}
      BY <1>21 DEF ExportArchives
    <3> QED BY <1>2, <3>1, StartIs
  <2>3. warch' \in Archives \cup {Nothing}
    <3>1. wdir \in WalletDirs
      BY <1>2, <1>21 DEF ExportArchives, NumbersMade
    <3>2. ArchivedData \in SUBSET Nat /\ BuildHostWalletBackup \in WalletBackups \cup {Nothing}
      BY <1>2, BackupIs DEF ArchivedData
    <3>3. \A b \in BOOLEAN : [dir |-> wdir, data |-> ArchivedData, backup |-> BuildHostWalletBackup, sealed |-> b] \in Archives
      BY <3>1, <3>2 DEF Archives
    <3> QED BY <1>2, <1>21, <3>3 DEF ExportArchives
  <2>4. wfaults' \in 0..MaxWalletFaults
    BY <1>21, <1>2, WalletFaultStep DEF ExportArchives
  <2> QED BY <1>1, <1>2, <1>21, <2>1, <2>2, <2>3, <2>4 DEF ExportArchives
<1>22. CASE ImportExtracts
  <2>1. wcmd' \in WalletCommands /\ wcmds' \in 0..MaxWalletCmds /\ wok' \in BOOLEAN
    BY <1>22, WalletCommandValues, WalletBeginStep DEF ImportExtracts
  <2>2. warch \in Archives /\ UNCHANGED <<wold, readable, wnew, wcl, wback, warch, wtorn, wfaults>>
    BY <1>2, <1>22 DEF ImportExtracts
  <2>3. \/ UNCHANGED <<wdir, wvol, wleft>>
        \/ wdir' = warch.dir /\ wvol' = wvol \cup warch.data /\ wleft' = (warch.dir.meta \notin warch.data)
    BY <1>22 DEF ImportExtracts
  <2>4. warch.dir \in WalletDirs /\ warch.data \subseteq 1..wnew /\ warch.dir.pw \in 0..wnew /\ warch.dir.meta \in 0..wnew
    BY <2>2 DEF Archives, NumbersMade
  <2> QED BY <2>1, <2>2, <2>3, <2>4 DEF WalletTypeOK
<1>23. CASE RestoreOneWallet
  <2>1. wcmd' \in WalletCommands /\ wok' \in BOOLEAN /\ wleft' \in BOOLEAN
    <3>1. PICK b, c \in BOOLEAN : wcmd' = [pc |-> "cluster", written |-> b, clean |-> c] \/ wcmd' = WIdle
      <4>1. (readable /\ warch.backup # Nothing) \in BOOLEAN
        OBVIOUS
      <4> QED BY <1>23, <4>1 DEF RestoreOneWallet, WDone
    <3>2. wok' \in {wok, FALSE}
      BY <1>23 DEF RestoreOneWallet, WDone
    <3>3. wleft' \in BOOLEAN
      BY <1>2, <1>23 DEF RestoreOneWallet
    <3> QED BY <1>2, <3>1, <3>2, <3>3, WalletCommandValues
  <2>2. warch # Nothing
    BY <1>23 DEF RestoreOneWallet, NumbersMade
  <2>3. wvol' \subseteq 1..wnew
    BY <1>23, <2>2 DEF RestoreOneWallet, NumbersMade, WalletTypeOK
  <2>4. UNCHANGED <<wdir, wold, readable, wnew, wcl, wback, warch, wtorn, wfaults, wcmds>>
    BY <1>23 DEF RestoreOneWallet
  <2> QED BY <2>1, <2>3, <2>4 DEF WalletTypeOK
<1>24. CASE ImportCrashes
  <2>1. wcmd' \in WalletCommands /\ wok' \in BOOLEAN /\ wfaults' \in 0..MaxWalletFaults
    BY <1>16, <1>24, WalletFaultStep DEF ImportCrashes
  <2> QED BY <1>1, <1>2, <1>24, <2>1 DEF ImportCrashes
<1>25. CASE ImportApplies
  <2>1. wdir \in WalletDirs /\ wdir.pw \in 0..wnew /\ wdir.meta \in 0..wnew
    BY <1>25, <1>2 DEF ImportApplies, NumbersMade, WalletTypeOK
  <2> DEFINE c == EnsureImportCluster
  <2>2. c \in Clusters /\ c.published = wcl.published
    BY <1>2 DEF EnsureImportCluster, Clusters
  <2>3. Synced(c) \in Clusters /\ Synced(c).secret \in 0..wnew /\ Synced(c).published \in 0..wnew
    <3> HIDE DEF c
    <3> QED BY <1>2, <2>1, <2>2, SyncedIs
  <2>4. wcl' \in {wcl, Synced(c), Start(Synced(c))} /\ readable' \in BOOLEAN
    BY <1>25, <1>2 DEF ImportApplies, RestartSigners
  <2> HIDE DEF c
  <2>5. wcl' \in Clusters /\ wcl'.secret \in 0..wnew /\ wcl'.published \in 0..wnew
    BY <1>2, <2>3, <2>4, StartIs
  <2>6. wcmd' \in WalletCommands /\ wok' \in BOOLEAN
    BY <1>25, <1>2, WalletCommandValues DEF ImportApplies, WDone
  <2>7. wfaults' \in 0..MaxWalletFaults
    BY <1>25, <1>2, WalletFaultStep DEF ImportApplies
  <2> QED BY <1>1, <1>2, <1>25, <2>4, <2>5, <2>6, <2>7 DEF ImportApplies
<1>26. [NoCluster EXCEPT !.up = TRUE] \in Clusters /\ NoCluster \in Clusters
       /\ [NoCluster EXCEPT !.up = TRUE].secret = 0 /\ [NoCluster EXCEPT !.up = TRUE].published = 0
       /\ NoCluster.secret = 0 /\ NoCluster.published = 0 /\ 0 \in 0..wnew
  <2>1. NoCluster \in Clusters
    BY DEF NoCluster, Clusters
  <2>2. /\ [NoCluster EXCEPT !.up = TRUE] \in Clusters
        /\ [NoCluster EXCEPT !.up = TRUE].secret = NoCluster.secret
        /\ [NoCluster EXCEPT !.up = TRUE].published = NoCluster.published
    BY <2>1 DEF Clusters
  <2>3. NoCluster.secret = 0 /\ NoCluster.published = 0 /\ 0 \in 0..wnew
    BY DEF NoCluster, WalletTypeOK
  <2> QED BY <2>1, <2>2, <2>3
<1>27. CASE DeleteInstance
  <2>1. wcmd' \in WalletCommands /\ wcmds' \in 0..MaxWalletCmds /\ wok' \in BOOLEAN
    BY <1>27, WalletCommandValues, WalletBeginStep DEF DeleteInstance
  <2>2. wcl' \in Clusters /\ wcl'.secret \in 0..wnew /\ wcl'.published \in 0..wnew
    BY <1>2, <1>26, <1>27 DEF DeleteInstance
  <2> QED BY <1>27, <2>1, <2>2 DEF DeleteInstance, WalletTypeOK, Clusters
<1>28. CASE PurgeStack
  <2>1. wcmd' \in WalletCommands /\ wcmds' \in 0..MaxWalletCmds /\ wok' \in BOOLEAN
    BY <1>28, WalletCommandValues, WalletBeginStep DEF PurgeStack
  <2>2. wcl' \in Clusters /\ wcl'.secret \in 0..wnew /\ wcl'.published \in 0..wnew
    BY <1>26, <1>28 DEF PurgeStack
  <2>3. wvol' \cup wold' \subseteq 1..wnew /\ readable' \in BOOLEAN /\ wdir' = Nothing
        /\ UNCHANGED <<wnew, wback, warch, wtorn, wleft, wfaults>>
    BY <1>28 DEF PurgeStack, WalletTypeOK
  <2> QED BY <2>1, <2>2, <2>3 DEF WalletTypeOK, Clusters
<1>29. CASE StopOrStart
  <2>1. [wcl EXCEPT !.up = TRUE] \in Clusters /\ [wcl EXCEPT !.up = TRUE].secret = wcl.secret
        /\ [wcl EXCEPT !.up = TRUE].published = wcl.published
    BY <1>2 DEF Clusters
  <2>2. wcl' \in Clusters /\ wcl'.secret \in 0..wnew /\ wcl'.published \in 0..wnew
    <3>1. CASE wcl.up
      BY <1>2, <1>29, <3>1 DEF StopOrStart, Clusters
    <3>2. CASE ~wcl.up
      BY <1>2, <1>29, <2>1, <3>2, StartIs DEF StopOrStart
    <3> QED BY <3>1, <3>2
  <2>3. readable' \in BOOLEAN /\ wfaults' \in 0..MaxWalletFaults
    BY <1>29, WalletFaultStep DEF StopOrStart
  <2> QED BY <1>1, <1>2, <1>29, <2>2, <2>3 DEF StopOrStart
<1> QED
  BY <1>0, <1>5, <1>6, <1>7, <1>8, <1>11, <1>12, <1>13, <1>14, <1>15, <1>17, <1>18, <1>19, <1>20,
     <1>21, <1>22, <1>23, <1>24, <1>25, <1>27, <1>28, <1>29 DEF WalletNext
-----------------------------------------------------------------------------
(* Wallets: numbers, pairs, keystores and what was agreed *)

\* Of the steps from a wallet's keystore to its archive, what the next one is.
LEMMA WritingStep ==
    ASSUME WalletTypeOK, NumbersMade, wcmd.pc \in WalletSteps, Advance
    PROVE  /\ wcmd \in NamedCommands /\ wcmd' \in NamedCommands /\ wdir # Nothing /\ wdir \in WalletDirs
           /\ wcmd'.kind = wcmd.kind /\ wcmd'.ks = wcmd.ks /\ wcmd'.pw = wcmd.pw
           /\ wcmd.pc = "generate" => wcmd'.pc = IF wcmd.kind = "import" THEN "metadata" ELSE "values"
           /\ wcmd.pc = "values" => wcmd'.pc = IF wcmd.kind = "import" THEN "archive" ELSE "metadata"
           /\ wcmd.pc = "metadata" => wcmd'.pc = CASE wcmd.kind = "import" -> "values"
                                                   [] wcmd.kind = "restore" -> "archive" [] OTHER -> "sync"
           /\ wcmd.pc = "archive" => wcmd'.pc = IF wcmd.kind = "import" THEN "sync" ELSE "apply"
<1>1. wcmd \in NamedCommands /\ wdir # Nothing /\ (wcmd.pc = "archive" => wcmd.kind # "onboard")
  BY WalletFields DEF Named, NumbersMade
<1>2. wdir \in WalletDirs
  BY <1>1 DEF WalletTypeOK
<1> QED BY <1>1, <1>2, AdvanceIs

LEMMA NumbersMadeStep ==
    ASSUME WalletTypeOK, NumbersMade, [WalletNext]_walletVars
    PROVE  NumbersMade'
<1> USE NothingElse, WalletFields DEF WalletCalm
<1>0. CASE UNCHANGED walletVars
  BY <1>0 DEF NumbersMade, Named
<1>1. ASSUME UNCHANGED <<wnew, warch>>,
             wcmd'.pc \in {"idle", "sync", "export", "cluster"} \/ (wcmd'.pc = "keystores" /\ warch # Nothing),
             wcmd'.pc # "idle" => wdir' # Nothing, ~wcl'.up => wcl'.signer = Nothing
      PROVE  NumbersMade'
  BY <1>1 DEF NumbersMade, Named, WalletSteps
<1>2. WIdle.pc = "idle" /\ wcl \in Clusters /\ (wdir # Nothing => wdir \in WalletDirs) /\ wvol \subseteq Nat
      /\ (~wcl.up => wcl.signer = Nothing)
  BY DEF WIdle, WalletTypeOK, Clusters, NumbersMade
<1>3. ASSUME NEW k \in {"onboard", "import", "restore"}, NEW ks \in Nat \ {0}, NEW pw \in Nat \ {0},
             pw <= wnew \/ pw = ks, wcmd' = Wallet(k, ks, pw), wdir' # Nothing, UNCHANGED <<wnew, warch, wcl>>
      PROVE  NumbersMade'
  <2>1. wcmd'.pc = "generate" /\ wcmd'.ks = ks /\ wcmd'.pw = pw
    BY <1>3, WalletNamed
  <2> QED BY <1>2, <1>3, <2>1 DEF NumbersMade, Named, WalletSteps
<1>4. wnew + 1 \in Nat \ {0}
  BY DEF WalletTypeOK
<1>5. CASE Onboard
  BY <1>3, <1>4, <1>5 DEF Onboard, WBegin, WalletDirs
<1>6. CASE OnboardAgain
  BY <1>1, <1>2, <1>6 DEF OnboardAgain, WBegin
<1>7. CASE ImportPrivateKeyWallet
  BY <1>3, <1>4, <1>7 DEF ImportPrivateKeyWallet, WBegin
<1>8. CASE RestoreWallet
  <2>1. PICK b \in wback : wcmd' = Wallet("restore", b.ks, b.pw)
    BY <1>8 DEF RestoreWallet, WBegin
  <2>2. b.ks \in Nat \ {0} /\ b.pw \in Nat \ {0} /\ b.pw <= wnew
    BY DEF WalletTypeOK, WalletBackups
  <2>3. wdir' # Nothing /\ UNCHANGED <<wnew, warch, wcl>>
    BY <1>8 DEF RestoreWallet
  <2> QED BY <1>3, <2>1, <2>2, <2>3
\* One more write of the wallet.
<1>9. ASSUME wcmd.pc \in WalletSteps \ {"generate"}, Advance, UNCHANGED <<wnew, warch, wcl>>, wdir' # Nothing
      PROVE  NumbersMade'
  <2>1. wcmd.ks \in 1..wnew /\ wcmd.pw # 0 /\ wcmd.pw <= wnew
    BY <1>9 DEF NumbersMade, Named
  <2>2. /\ wcmd'.ks = wcmd.ks /\ wcmd'.pw = wcmd.pw
        /\ wcmd'.pc \in {"values", "metadata", "archive", "sync", "apply"}
        /\ wcmd'.pc = "archive" => wcmd'.kind # "onboard"
        /\ wcmd'.pc = "apply" => wcmd'.kind = "restore"
    BY <1>9, WritingStep DEF WalletSteps, NumbersMade, NamedCommands, WalletKinds
  <2>3. wcmd.ks # 0
    BY <1>9 DEF NumbersMade, Named
  <2> QED BY <1>2, <1>9, <2>1, <2>2, <2>3 DEF NumbersMade, Named, WalletSteps
<1>10. CASE GenerateWallet
  <2>1. /\ wcmd.pc = "generate" /\ Advance /\ UNCHANGED <<wdir, wcl, warch>>
        /\ wnew' = IF wcmd.ks > wnew THEN wcmd.ks ELSE wnew
    BY <1>10 DEF GenerateWallet
  <2>2. wcmd.ks \in Nat \ {0} /\ wcmd.pw \in Nat \ {0} /\ (wcmd.pw <= wnew \/ wcmd.pw = wcmd.ks)
        /\ wcmd \in NamedCommands
    BY <2>1 DEF NumbersMade, Named, WalletSteps, NamedCommands
  <2>3. wnew \in Nat /\ wnew' \in Nat /\ wnew <= wnew' /\ wcmd.ks \in 1..wnew' /\ wcmd.pw <= wnew'
    BY <2>1, <2>2 DEF WalletTypeOK
  <2>4. 0..wnew \subseteq 0..wnew' /\ 1..wnew \subseteq 1..wnew'
    BY <2>3
  <2>5. /\ wcmd'.ks = wcmd.ks /\ wcmd'.pw = wcmd.pw /\ wcmd'.pc \in {"metadata", "values"} /\ wdir # Nothing
    BY <2>1, WritingStep DEF WalletSteps
  <2>6. warch' # Nothing => /\ warch'.dir.pw \in 0..wnew' /\ warch'.dir.meta \in 0..wnew' /\ warch'.data \subseteq 1..wnew'
                            /\ warch'.backup # Nothing => warch'.backup.ks \in 1..wnew' /\ warch'.backup.pw \in 1..wnew'
    BY <2>1, <2>4 DEF NumbersMade
  <2> QED BY <1>2, <2>1, <2>2, <2>3, <2>5, <2>6 DEF NumbersMade, Named, WalletSteps
<1>11. CASE WriteRemoteSignerValues
  <2>1. wcmd.pc \in WalletSteps \ {"generate"} /\ Advance /\ UNCHANGED <<wnew, warch, wcl>>
    BY <1>11 DEF WriteRemoteSignerValues, WalletSteps
  <2>2. wdir' # Nothing
    BY <1>11, <2>1, WritingStep DEF WriteRemoteSignerValues, WalletDirs, NamedCommands
  <2> QED BY <1>9, <2>1, <2>2
<1>12. CASE WriteWalletMetadata
  <2>1. wcmd.pc \in WalletSteps \ {"generate"} /\ Advance /\ UNCHANGED <<wnew, warch, wcl>>
    BY <1>12 DEF WriteWalletMetadata, WalletSteps
  <2>2. wdir' # Nothing
    BY <1>12, <2>1, WritingStep DEF WriteWalletMetadata, WalletDirs, NamedCommands
  <2> QED BY <1>9, <2>1, <2>2
<1>13. CASE ArchiveReplacedKeystore
  <2>1. wcmd.pc \in WalletSteps \ {"generate"} /\ Advance /\ UNCHANGED <<wnew, warch, wcl, wdir>>
    BY <1>13 DEF ArchiveReplacedKeystore, WalletSteps
  <2> QED BY <1>9, <2>1, WritingStep
<1>14. CASE WalletCommandStops
  BY <1>1, <1>2, <1>14 DEF WalletCommandStops, WDone
<1>15. CASE SyncStep
  <2>1. wdir # Nothing
    BY <1>15 DEF SyncStep, NumbersMade
  <2>2. wcmd'.pc = "idle" /\ UNCHANGED <<wnew, warch, wdir>>
    BY <1>2, <1>15 DEF SyncStep, WDone
  <2>3. Synced(wcl) \in Clusters /\ Synced(wcl).up = wcl.up
    BY <1>2, <2>1, SyncedIs
  <2>4. Rolled(Synced(wcl)).up = wcl.up
    BY <1>2, <2>3, StartIs DEF Rolled
  <2>5. ~wcl'.up => wcl'.signer = Nothing
    BY <1>2, <1>15, <2>4 DEF SyncStep
  <2> QED BY <1>1, <2>2, <2>5
<1>16. CASE RestoreApplies
  <2>1. wdir # Nothing
    BY <1>16 DEF RestoreApplies, NumbersMade
  <2>2. wcmd'.pc = "idle" /\ UNCHANGED <<wnew, warch, wdir>>
    BY <1>2, <1>16 DEF RestoreApplies, WDone
  <2>3. \A c \in {wcl, WithMetadata(wcl), WithPassword(wcl), WithPassword(WithMetadata(wcl))} :
            c \in Clusters /\ c.up = wcl.up
    BY <1>2, <2>1, AppliedIs
  <2>4. Start(WithPassword(WithMetadata(wcl))).up = wcl.up
    BY <1>2, <2>3, StartIs
  <2>5. wcl'.up = wcl.up /\ (~wcl.up => wcl' = wcl)
    BY <1>16, <2>3, <2>4 DEF RestoreApplies
  <2> QED BY <1>1, <1>2, <2>2, <2>5
<1>17. CASE BackupWallet
  BY <1>1, <1>2, <1>17 DEF BackupWallet, WBegin
<1>18. CASE ExportQuiesces
  <2>1. wcl'.signer = Nothing
    BY <1>2, <1>18 DEF ExportQuiesces, Clusters
  <2> QED BY <1>1, <1>18, <2>1 DEF ExportQuiesces, WBegin
<1>19. CASE ExportArchives
  <2>1. wcmd'.pc = "idle" /\ wdir # Nothing /\ wdir \in WalletDirs /\ UNCHANGED <<wdir, wvol, wnew>>
    BY <1>2, <1>19 DEF ExportArchives, WDone, NumbersMade
  <2>2. ~wcl'.up => wcl'.signer = Nothing
    <3>1. wcl' = wcl \/ (wcl.up /\ wcl' = Start(wcl))
      BY <1>19 DEF ExportArchives
    <3> QED BY <1>2, <3>1, StartIs
  <2>3. ASSUME NEW b \in BOOLEAN,
               warch' = [dir |-> wdir, data |-> ArchivedData, backup |-> BuildHostWalletBackup, sealed |-> b]
        PROVE  NumbersMade'
    <3>1. wdir.pw \in 0..wnew /\ wdir.meta \in 0..wnew /\ ArchivedData \subseteq 1..wnew
      BY <2>1 DEF ArchivedData, WalletTypeOK
    <3>2. BuildHostWalletBackup # Nothing => BuildHostWalletBackup.ks \in 1..wnew /\ BuildHostWalletBackup.pw \in 1..wnew
      BY <3>1, BackupIs DEF WalletTypeOK, WalletBackups
    <3>3. /\ warch'.dir.pw \in 0..wnew /\ warch'.dir.meta \in 0..wnew /\ warch'.data \subseteq 1..wnew
          /\ warch'.backup # Nothing => warch'.backup.ks \in 1..wnew /\ warch'.backup.pw \in 1..wnew
      BY <2>3, <3>1, <3>2
    <3> QED BY <2>1, <2>2, <3>3 DEF NumbersMade, Named, WalletSteps
  <2>4. CASE UNCHANGED warch
    BY <1>1, <2>1, <2>2, <2>4
  <2> QED BY <1>19, <2>3, <2>4 DEF ExportArchives
<1>20. CASE ImportExtracts
  <2>1. warch # Nothing /\ wcmd'.pc = "keystores" /\ UNCHANGED <<wnew, warch, wcl>>
    BY <1>20 DEF ImportExtracts, WBegin
  <2>2. wdir' # Nothing
    BY <1>20, <2>1 DEF ImportExtracts, WalletTypeOK, Archives
  <2> QED BY <1>1, <1>2, <2>1, <2>2
<1>21. CASE RestoreOneWallet
  <2>1. wdir' # Nothing /\ UNCHANGED <<wnew, warch, wcl>>
    BY <1>21 DEF RestoreOneWallet, NumbersMade
  <2>2. wcmd'.pc \in {"idle", "cluster"}
    BY <1>2, <1>21 DEF RestoreOneWallet, WDone
  <2> QED BY <1>1, <1>2, <2>1, <2>2
<1>22. CASE ImportCrashes
  BY <1>1, <1>2, <1>22 DEF ImportCrashes, WDone
<1>23. CASE ImportApplies
  <2>1. wdir # Nothing
    BY <1>23 DEF ImportApplies, NumbersMade
  <2>2. wcmd'.pc = "idle" /\ UNCHANGED <<wnew, warch, wdir>>
    BY <1>2, <1>23 DEF ImportApplies, WDone
  <2> DEFINE c == EnsureImportCluster
  <2>3. c \in Clusters /\ c.up
    BY <1>2 DEF EnsureImportCluster, Clusters
  <2>4. wcl' \in {wcl, Synced(c), Start(Synced(c))}
    BY <1>23 DEF ImportApplies, RestartSigners
  <2> HIDE DEF c
  <2>5. Synced(c) \in Clusters /\ Synced(c).up /\ Start(Synced(c)).up
    BY <1>2, <2>1, <2>3, SyncedIs, StartIs
  <2> QED BY <1>1, <1>2, <2>2, <2>4, <2>5
<1>24. CASE DeleteInstance
  <2>1. wcmd'.pc = "idle" /\ UNCHANGED <<wnew, warch>>
    BY <1>2, <1>24 DEF DeleteInstance, WBegin
  <2>2. ~wcl'.up => wcl'.signer = Nothing
    BY <1>2, <1>24 DEF DeleteInstance, NoCluster
  <2> QED BY <1>1, <2>1, <2>2
<1>25. CASE PurgeStack
  <2>1. wcmd'.pc = "idle" /\ UNCHANGED <<wnew, warch>> /\ wcl'.signer = Nothing
    BY <1>2, <1>25 DEF PurgeStack, WBegin, NoCluster
  <2> QED BY <1>1, <2>1
<1>26. CASE StopOrStart
  <2>1. wcmd'.pc = "idle" /\ UNCHANGED <<wnew, warch, wdir>>
    BY <1>2, <1>26 DEF StopOrStart
  <2>2. CASE wcl.up
    BY <1>1, <1>2, <1>26, <2>1, <2>2 DEF StopOrStart, Clusters
  <2>3. CASE ~wcl.up
    <3>1. [wcl EXCEPT !.up = TRUE] \in Clusters /\ [wcl EXCEPT !.up = TRUE].up
      BY <1>2 DEF Clusters
    <3>2. wcl' = Start([wcl EXCEPT !.up = TRUE])
      BY <1>26, <2>3 DEF StopOrStart
    <3> QED BY <1>1, <1>2, <2>1, <3>1, <3>2, StartIs
  <2> QED BY <2>2, <2>3
<1> QED
  BY <1>0, <1>5, <1>6, <1>7, <1>8, <1>10, <1>11, <1>12, <1>13, <1>14, <1>15, <1>16, <1>17, <1>18,
     <1>19, <1>20, <1>21, <1>22, <1>23, <1>24, <1>25, <1>26 DEF WalletNext
LEMMA PairsKeptStep ==
    ASSUME WalletTypeOK, NumbersMade, PairsKept, KeystoreHeld, [WalletNext]_walletVars
    PROVE  PairsKept'
<1> USE NothingElse, WalletFields DEF WalletCalm
<1>0. CASE UNCHANGED walletVars
  BY <1>0 DEF PairsKept, Midway, Opens
<1>1. ASSUME UNCHANGED <<wback, warch, wtorn>>, wdir' \in {wdir, Nothing}, ~Midway,
             wcmd'.pc \in {"idle", "sync", "export", "keystores", "cluster"}
      PROVE  PairsKept'
  BY <1>1 DEF PairsKept, Midway, Opens
<1>2. WIdle.pc = "idle" /\ (wdir # Nothing => wdir \in WalletDirs) /\ (wcmd = WIdle => ~Midway)
  BY DEF WIdle, WalletTypeOK, Midway
<1>3. ASSUME NEW k \in {"onboard", "import", "restore"}, NEW ks \in Nat, NEW pw \in Nat, ~wtorn => ks = pw,
             wcmd = WIdle, wcmd' = Wallet(k, ks, pw), UNCHANGED <<wback, warch, wtorn>>,
             wdir' = wdir \/ (wdir'.pw = 0 /\ wdir'.meta = 0)
      PROVE  PairsKept'
  <2>1. wcmd'.pc = "generate" /\ wcmd'.ks = ks /\ wcmd'.pw = pw
    BY <1>3, WalletNamed
  <2> QED BY <1>2, <1>3, <2>1 DEF PairsKept, Midway, Opens
<1>4. wnew + 1 \in Nat
  BY DEF WalletTypeOK
<1>5. CASE Onboard
  <2>1. wdir' = wdir \/ (wdir'.pw = 0 /\ wdir'.meta = 0)
    BY <1>5 DEF Onboard
  <2> QED BY <1>3, <1>4, <1>5, <2>1 DEF Onboard, WBegin
<1>6. CASE OnboardAgain
  BY <1>1, <1>2, <1>6 DEF OnboardAgain, WBegin
<1>7. CASE ImportPrivateKeyWallet
  BY <1>3, <1>4, <1>7 DEF ImportPrivateKeyWallet, WBegin
<1>8. CASE RestoreWallet
  <2>1. PICK b \in wback : wcmd' = Wallet("restore", b.ks, b.pw)
    BY <1>8 DEF RestoreWallet, WBegin
  <2>2. b.ks \in Nat /\ b.pw \in Nat /\ (~wtorn => b.ks = b.pw)
    BY DEF WalletTypeOK, WalletBackups, PairsKept, Opens
  <2>3. wcmd = WIdle /\ UNCHANGED <<wdir, wback, warch, wtorn>>
    BY <1>8 DEF RestoreWallet, WBegin
  <2> QED BY <1>3, <2>1, <2>2, <2>3
<1>9. CASE GenerateWallet
  <2>1. wcmd.pc = "generate" /\ Advance /\ UNCHANGED <<wdir, wback, warch, wtorn>>
    BY <1>9 DEF GenerateWallet
  <2>2. /\ wcmd'.ks = wcmd.ks /\ wcmd'.pw = wcmd.pw /\ wcmd'.kind = wcmd.kind
        /\ wcmd'.pc = IF wcmd.kind = "import" THEN "metadata" ELSE "values"
    BY <2>1, WritingStep DEF WalletSteps
  <2> QED BY <2>1, <2>2 DEF PairsKept, Midway, Opens
<1>10. CASE WriteRemoteSignerValues
  <2>1. wcmd.pc = "values" /\ Advance /\ UNCHANGED <<wback, warch, wtorn>> /\ wdir' = [wdir EXCEPT !.pw = wcmd.pw]
    BY <1>10 DEF WriteRemoteSignerValues
  <2>2. /\ wcmd'.ks = wcmd.ks /\ wcmd'.pw = wcmd.pw /\ wcmd'.kind = wcmd.kind
        /\ wcmd'.pc = IF wcmd.kind = "import" THEN "archive" ELSE "metadata"
        /\ wdir \in WalletDirs
    BY <2>1, WritingStep DEF WalletSteps
  <2>3. wdir'.pw = wcmd.pw /\ wdir'.meta = wdir.meta
    BY <2>1, <2>2 DEF WalletDirs
  <2>4. ~wtorn => wcmd.ks = wcmd.pw
    BY <2>1 DEF PairsKept
  <2>5. ~wtorn /\ wcmd.kind = "import" => wdir.meta = wcmd.ks
    BY <2>1 DEF KeystoreHeld
  <2> QED BY <2>1, <2>2, <2>3, <2>4, <2>5 DEF PairsKept, Midway, Opens
<1>11. CASE WriteWalletMetadata
  <2>1. wcmd.pc = "metadata" /\ Advance /\ UNCHANGED <<wback, warch, wtorn>> /\ wdir' = [wdir EXCEPT !.meta = wcmd.ks]
    BY <1>11 DEF WriteWalletMetadata
  <2>2. /\ wcmd'.ks = wcmd.ks /\ wcmd'.pw = wcmd.pw /\ wcmd'.kind = wcmd.kind /\ wcmd.kind \in WalletKinds
        /\ wcmd'.pc = CASE wcmd.kind = "import" -> "values" [] wcmd.kind = "restore" -> "archive" [] OTHER -> "sync"
        /\ wdir \in WalletDirs
    BY <2>1, WritingStep DEF WalletSteps, NamedCommands
  <2>3. wdir'.pw = wdir.pw /\ wdir'.meta = wcmd.ks
    BY <2>1, <2>2 DEF WalletDirs
  <2>4. ~wtorn => wcmd.ks = wcmd.pw /\ (wcmd.kind # "import" => wdir.pw = wcmd.pw)
    BY <2>1 DEF PairsKept
  <2> QED BY <2>1, <2>2, <2>3, <2>4 DEF PairsKept, Midway, Opens, WalletKinds
<1>12. CASE ArchiveReplacedKeystore
  <2>1. wcmd.pc = "archive" /\ Advance /\ UNCHANGED <<wdir, wback, warch, wtorn>>
    BY <1>12 DEF ArchiveReplacedKeystore
  <2>2. wcmd'.pc = IF wcmd.kind = "import" THEN "sync" ELSE "apply"
    BY <2>1, WritingStep DEF WalletSteps
  <2> QED BY <2>1, <2>2 DEF PairsKept, Midway, Opens
<1>13. CASE WalletCommandStops
  <2>1. wcmd'.pc = "idle" /\ UNCHANGED <<wback, warch>> /\ (wtorn' <=> wtorn \/ wdir' # Nothing)
    BY <1>2, <1>13 DEF WalletCommandStops, WDone
  <2> QED BY <2>1 DEF PairsKept, Midway, Opens
<1>14. CASE SyncStep
  BY <1>1, <1>2, <1>14 DEF SyncStep, WDone, Midway
<1>15. CASE RestoreApplies
  BY <1>1, <1>2, <1>15 DEF RestoreApplies, WDone, Midway
<1>16. CASE BackupWallet
  <2>1. wcmd = WIdle /\ wcmd' = WIdle /\ UNCHANGED <<wdir, warch, wtorn>> /\ BuildHostWalletBackup # Nothing
        /\ wback' = wback \cup {BuildHostWalletBackup}
    BY <1>16 DEF BackupWallet, WBegin
  <2>2. ~wtorn => Opens(BuildHostWalletBackup)
    BY <1>2, <2>1, BackupIs DEF PairsKept, Opens
  <2> QED BY <1>2, <2>1, <2>2 DEF PairsKept, Midway, Opens
<1>17. CASE ExportQuiesces
  BY <1>1, <1>2, <1>17 DEF ExportQuiesces, WBegin
<1>18. CASE ExportArchives
  <2>1. wcmd'.pc = "idle" /\ wdir # Nothing /\ ~Midway /\ UNCHANGED <<wdir, wback, wtorn>>
    BY <1>2, <1>18 DEF ExportArchives, WDone, NumbersMade, Midway
  <2>2. ASSUME NEW b \in BOOLEAN,
               warch' = [dir |-> wdir, data |-> ArchivedData, backup |-> BuildHostWalletBackup, sealed |-> b]
        PROVE  PairsKept'
    <3>1. ~wtorn => wdir.pw = wdir.meta /\ (BuildHostWalletBackup # Nothing => Opens(BuildHostWalletBackup))
      BY <2>1, BackupIs DEF PairsKept, Opens
    <3>2. warch'.dir = wdir /\ warch'.backup = BuildHostWalletBackup
      BY <2>2
    <3> QED BY <2>1, <3>1, <3>2 DEF PairsKept, Midway, Opens
  <2>3. CASE UNCHANGED warch
    BY <1>1, <2>1, <2>3
  <2> QED BY <1>18, <2>2, <2>3 DEF ExportArchives
<1>19. CASE ImportExtracts
  <2>1. warch # Nothing /\ wcmd = WIdle /\ wcmd'.pc = "keystores" /\ UNCHANGED <<wback, warch, wtorn>>
    BY <1>19 DEF ImportExtracts, WBegin
  <2>2. CASE wdir' = wdir
    BY <1>1, <1>2, <2>1, <2>2
  <2>3. CASE wdir' = warch.dir
    BY <1>2, <2>1, <2>3 DEF PairsKept, Midway, Opens
  <2> QED BY <1>19, <2>2, <2>3 DEF ImportExtracts
<1>20. CASE RestoreOneWallet
  <2>1. wcmd'.pc \in {"idle", "cluster"} /\ ~Midway /\ UNCHANGED <<wdir, wback, warch, wtorn>>
    BY <1>2, <1>20 DEF RestoreOneWallet, WDone, Midway
  <2> QED BY <1>1, <2>1
<1>21. CASE ImportCrashes
  BY <1>1, <1>2, <1>21 DEF ImportCrashes, WDone, Midway
<1>22. CASE ImportApplies
  BY <1>1, <1>2, <1>22 DEF ImportApplies, WDone, Midway
<1>23. CASE DeleteInstance
  BY <1>1, <1>2, <1>23 DEF DeleteInstance, WBegin
<1>24. CASE PurgeStack
  BY <1>1, <1>2, <1>24 DEF PurgeStack, WBegin
<1>25. CASE StopOrStart
  BY <1>1, <1>2, <1>25 DEF StopOrStart
<1> QED
  BY <1>0, <1>5, <1>6, <1>7, <1>8, <1>9, <1>10, <1>11, <1>12, <1>13, <1>14, <1>15, <1>16, <1>17,
     <1>18, <1>19, <1>20, <1>21, <1>22, <1>23, <1>24, <1>25 DEF WalletNext

LEMMA KeystoreHeldStep ==
    ASSUME WalletTypeOK, NumbersMade, KeystoreHeld, [WalletNext]_walletVars
    PROVE  KeystoreHeld'
<1> USE NothingElse, WalletFields DEF WalletCalm
<1>0. CASE UNCHANGED walletVars
  BY <1>0 DEF KeystoreHeld, Midway, Named
<1>1. ASSUME UNCHANGED <<wvol, wtorn, wleft>>, wdir' \in {wdir, Nothing}, ~Midway,
             wcmd'.pc \in {"idle", "sync", "export", "keystores"}
      PROVE  KeystoreHeld'
  BY <1>1 DEF KeystoreHeld, Midway, Named, WalletSteps
<1>2. WIdle.pc = "idle" /\ (wdir # Nothing => wdir \in WalletDirs) /\ (wcmd = WIdle => ~Midway)
  BY DEF WIdle, WalletTypeOK, Midway
<1>3. ASSUME NEW k \in {"onboard", "import", "restore"}, NEW ks \in Nat, NEW pw \in Nat,
             wcmd = WIdle, wcmd' = Wallet(k, ks, pw), UNCHANGED <<wvol, wtorn, wleft>>,
             wdir' = wdir \/ (wdir'.pw = 0 /\ wdir'.meta = 0)
      PROVE  KeystoreHeld'
  <2>1. wcmd'.pc = "generate" /\ wcmd'.ks = ks /\ wcmd'.pw = pw
    BY <1>3, WalletNamed
  <2> QED BY <1>2, <1>3, <2>1 DEF KeystoreHeld, Midway, Named
<1>4. wnew + 1 \in Nat
  BY DEF WalletTypeOK
<1>5. CASE Onboard
  <2>1. wdir' = wdir \/ (wdir'.pw = 0 /\ wdir'.meta = 0)
    BY <1>5 DEF Onboard
  <2> QED BY <1>3, <1>4, <1>5, <2>1 DEF Onboard, WBegin
<1>6. CASE OnboardAgain
  BY <1>1, <1>2, <1>6 DEF OnboardAgain, WBegin
<1>7. CASE ImportPrivateKeyWallet
  BY <1>3, <1>4, <1>7 DEF ImportPrivateKeyWallet, WBegin
<1>8. CASE RestoreWallet
  <2>1. PICK b \in wback : wcmd' = Wallet("restore", b.ks, b.pw)
    BY <1>8 DEF RestoreWallet, WBegin
  <2>2. b.ks \in Nat /\ b.pw \in Nat
    BY DEF WalletTypeOK, WalletBackups
  <2>3. wcmd = WIdle /\ UNCHANGED <<wdir, wvol, wtorn, wleft>>
    BY <1>8 DEF RestoreWallet, WBegin
  <2> QED BY <1>3, <2>1, <2>2, <2>3
<1>9. CASE GenerateWallet
  <2>1. wcmd.pc = "generate" /\ Advance /\ UNCHANGED <<wdir, wtorn, wleft>> /\ wvol' = wvol \cup {wcmd.ks}
    BY <1>9 DEF GenerateWallet
  <2>2. /\ wcmd'.ks = wcmd.ks /\ wcmd'.kind = wcmd.kind
        /\ wcmd'.pc = IF wcmd.kind = "import" THEN "metadata" ELSE "values"
    BY <2>1, WritingStep DEF WalletSteps
  <2> QED BY <2>1, <2>2 DEF KeystoreHeld, Midway, Named
<1>10. CASE WriteRemoteSignerValues
  <2>1. wcmd.pc = "values" /\ Advance /\ UNCHANGED <<wvol, wtorn, wleft>> /\ wdir' = [wdir EXCEPT !.pw = wcmd.pw]
    BY <1>10 DEF WriteRemoteSignerValues
  <2>2. /\ wcmd'.ks = wcmd.ks /\ wcmd'.kind = wcmd.kind
        /\ wcmd'.pc = IF wcmd.kind = "import" THEN "archive" ELSE "metadata"
        /\ wdir \in WalletDirs
    BY <2>1, WritingStep DEF WalletSteps
  <2>3. wdir'.meta = wdir.meta
    BY <2>1, <2>2 DEF WalletDirs
  <2>4. wcmd.ks \in wvol /\ (wcmd.kind = "import" => wdir.meta = wcmd.ks /\ ~wleft)
    BY <2>1 DEF KeystoreHeld, Named, WalletSteps
  <2>5. CASE wcmd.kind = "import"
    BY <2>1, <2>2, <2>3, <2>4, <2>5 DEF KeystoreHeld, Midway, Named
  <2>6. CASE wcmd.kind # "import"
    BY <2>1, <2>2, <2>3, <2>4, <2>6 DEF KeystoreHeld, Midway, Named
  <2> QED BY <2>5, <2>6
<1>11. CASE WriteWalletMetadata
  <2>1. wcmd.pc = "metadata" /\ Advance /\ UNCHANGED <<wvol, wtorn>> /\ wleft' = FALSE
        /\ wdir' = [wdir EXCEPT !.meta = wcmd.ks]
    BY <1>11 DEF WriteWalletMetadata
  <2>2. /\ wcmd'.ks = wcmd.ks /\ wcmd'.kind = wcmd.kind /\ wcmd.kind \in WalletKinds
        /\ wcmd'.pc \in {"values", "archive", "sync"} /\ wdir \in WalletDirs
    BY <2>1, WritingStep DEF WalletSteps, NamedCommands, WalletKinds
  <2>3. wdir'.meta = wcmd.ks
    BY <2>1, <2>2 DEF WalletDirs
  <2>4. wcmd.ks \in wvol
    BY <2>1 DEF KeystoreHeld, Named, WalletSteps
  <2> QED BY <2>1, <2>2, <2>3, <2>4 DEF KeystoreHeld, Midway, Named
<1>12. CASE ArchiveReplacedKeystore
  <2>1. wcmd.pc = "archive" /\ Advance /\ UNCHANGED <<wdir, wtorn, wleft>>
        /\ (wvol' = wvol \/ (wvol' = wvol \ {wcmd.old} /\ wcmd.old # wcmd.ks))
    BY <1>12 DEF ArchiveReplacedKeystore, Replaced
  <2>2. wcmd'.ks = wcmd.ks /\ wcmd'.pc \in {"sync", "apply"}
    BY <2>1, WritingStep DEF WalletSteps
  <2>3. wcmd.ks \in wvol /\ wdir.meta = wcmd.ks
    BY <2>1 DEF KeystoreHeld, Named, WalletSteps
  <2> QED BY <2>1, <2>2, <2>3 DEF KeystoreHeld, Midway, Named
<1>13. CASE WalletCommandStops
  <2>1. wcmd'.pc = "idle" /\ (wtorn' <=> wtorn \/ wdir' # Nothing)
    BY <1>2, <1>13 DEF WalletCommandStops, WDone
  <2> QED BY <2>1 DEF KeystoreHeld, Midway, Named, WalletSteps
<1>14. CASE SyncStep
  BY <1>1, <1>2, <1>14 DEF SyncStep, WDone, Midway
<1>15. CASE RestoreApplies
  BY <1>1, <1>2, <1>15 DEF RestoreApplies, WDone, Midway
<1>16. CASE BackupWallet
  BY <1>1, <1>2, <1>16 DEF BackupWallet, WBegin
<1>17. CASE ExportQuiesces
  BY <1>1, <1>2, <1>17 DEF ExportQuiesces, WBegin
<1>18. CASE ExportArchives
  BY <1>1, <1>2, <1>18 DEF ExportArchives, WDone, Midway
<1>19. CASE ImportExtracts
  <2>1. wcmd = WIdle /\ wcmd'.pc = "keystores" /\ UNCHANGED wtorn
    BY <1>19 DEF ImportExtracts, WBegin
  <2>2. CASE UNCHANGED <<wdir, wvol, wleft>>
    BY <1>1, <1>2, <2>1, <2>2
  <2>3. CASE wdir' = warch.dir /\ wvol' = wvol \cup warch.data /\ wleft' = (warch.dir.meta \notin warch.data)
    BY <2>1, <2>3 DEF KeystoreHeld, Midway, Named, WalletSteps
  <2> QED BY <1>19, <2>2, <2>3 DEF ImportExtracts
<1>20. CASE RestoreOneWallet
  <2>1. ~Midway /\ UNCHANGED <<wdir, wtorn>>
    BY <1>20 DEF RestoreOneWallet, Midway
  <2>2. CASE warch.backup = Nothing \/ KeystorePresent(wdir.meta)
    <3>1. /\ wcmd' = [pc |-> "cluster", written |-> FALSE, clean |-> readable /\ warch.backup # Nothing]
          /\ wleft' = (wleft /\ (readable => warch.backup = Nothing)) /\ wvol' = wvol
      BY <1>20, <2>2 DEF RestoreOneWallet
    <3>2. wcmd'.pc = "cluster" /\ (wcmd'.clean <=> readable /\ warch.backup # Nothing)
      BY <3>1
    <3>3. ~wleft' => ~wleft \/ (readable /\ warch.backup # Nothing)
      BY <3>1
    <3>4. readable /\ warch.backup # Nothing => wdir.meta \in wvol
      BY <2>2 DEF KeystorePresent
    <3>5. ~wtorn' /\ ~wleft' /\ wdir' # Nothing /\ wdir'.meta # 0 => wdir'.meta \in wvol'
      BY <2>1, <3>1, <3>3, <3>4 DEF KeystoreHeld
    <3>6. wcmd'.clean => ~wleft'
      BY <3>1, <3>2
    <3> QED BY <3>2, <3>5, <3>6 DEF KeystoreHeld, Midway, Named, WalletSteps
  <2>3. CASE ~(warch.backup = Nothing \/ KeystorePresent(wdir.meta)) /\ Verified(warch.backup)
    <3>1. wcmd'.pc = "cluster" /\ wvol' = wvol \cup {warch.backup.ks} /\ wleft' = FALSE
      BY <1>20, <2>3 DEF RestoreOneWallet
    <3>2. wdir.meta \in {0, warch.backup.ks}
      BY <2>3 DEF Verified
    <3> QED BY <2>1, <3>1, <3>2 DEF KeystoreHeld, Midway, Named, WalletSteps
  <2>4. CASE ~(warch.backup = Nothing \/ KeystorePresent(wdir.meta)) /\ ~Verified(warch.backup)
    BY <1>1, <1>2, <1>20, <2>1, <2>4 DEF RestoreOneWallet, WDone
  <2> QED BY <2>2, <2>3, <2>4
<1>21. CASE ImportCrashes
  BY <1>1, <1>2, <1>21 DEF ImportCrashes, WDone, Midway
<1>22. CASE ImportApplies
  BY <1>1, <1>2, <1>22 DEF ImportApplies, WDone, Midway
<1>23. CASE DeleteInstance
  BY <1>1, <1>2, <1>23 DEF DeleteInstance, WBegin
<1>24. CASE PurgeStack
  <2>1. wdir' = Nothing /\ wcmd'.pc = "idle"
    BY <1>2, <1>24 DEF PurgeStack, WBegin
  <2> QED BY <2>1 DEF KeystoreHeld, Midway, Named, WalletSteps
<1>25. CASE StopOrStart
  BY <1>1, <1>2, <1>25 DEF StopOrStart
<1> QED
  BY <1>0, <1>5, <1>6, <1>7, <1>8, <1>9, <1>10, <1>11, <1>12, <1>13, <1>14, <1>15, <1>16, <1>17,
     <1>18, <1>19, <1>20, <1>21, <1>22, <1>23, <1>24, <1>25 DEF WalletNext

LEMMA AgreedStep ==
    ASSUME WalletTypeOK, NumbersMade, PairsKept, KeystoreHeld, Agreed, [WalletNext]_walletVars
    PROVE  Agreed'
<1> USE NothingElse, WalletFields
<1>0. CASE UNCHANGED walletVars
  BY <1>0 DEF Agreed
<1>1. ~wok' => Agreed'
  BY DEF Agreed
<1>2. WIdle.pc = "idle" /\ wcl \in Clusters /\ wvol \subseteq Nat /\ (wdir # Nothing => wdir \in WalletDirs)
  BY DEF WIdle, WalletTypeOK, Clusters
<1>3. CASE UNCHANGED wok /\ wcmd # WIdle
  BY <1>1, <1>3 DEF Agreed
<1>4. ASSUME NEW c, WBegin(c) PROVE Agreed'
  BY <1>1, <1>4 DEF WBegin
<1>5. CASE Onboard \/ OnboardAgain \/ ImportPrivateKeyWallet
  BY <1>4, <1>5 DEF Onboard, OnboardAgain, ImportPrivateKeyWallet
<1>6. CASE RestoreWallet \/ BackupWallet \/ ExportQuiesces \/ ImportExtracts
  BY <1>4, <1>6 DEF RestoreWallet, BackupWallet, ExportQuiesces, ImportExtracts
<1>7. CASE DeleteInstance \/ PurgeStack
  BY <1>4, <1>7 DEF DeleteInstance, PurgeStack
<1>8. CASE GenerateWallet \/ WriteRemoteSignerValues \/ WriteWalletMetadata \/ ArchiveReplacedKeystore
  BY <1>2, <1>3, <1>8 DEF GenerateWallet, WriteRemoteSignerValues, WriteWalletMetadata, ArchiveReplacedKeystore
<1>9. CASE WalletCommandStops \/ ExportArchives \/ ImportCrashes
  BY <1>1, <1>9 DEF WalletCommandStops, ExportArchives, ImportCrashes, WDone
<1>10. CASE RestoreOneWallet
  BY <1>1, <1>2, <1>3, <1>10 DEF RestoreOneWallet, WDone
\* What the three commands that bring files to the cluster start from.
<1>11. ASSUME wcmd.pc \in {"sync", "apply", "cluster"}, ~wtorn, ~wleft, wdir.pw # 0 \/ wcmd.pc = "apply"
       PROVE  /\ wdir \in WalletDirs /\ wdir.meta # 0 /\ wdir.pw = wdir.meta /\ wdir.meta \in wvol
  <2>1. ~Midway /\ wdir # Nothing
    BY <1>11 DEF NumbersMade, Midway
  <2>2. wdir \in WalletDirs /\ wdir.pw = wdir.meta
    BY <1>2, <1>11, <2>1 DEF PairsKept
  <2>3. wdir.meta # 0
    BY <1>11, <2>2 DEF KeystoreHeld, NumbersMade, Named
  <2> QED BY <1>11, <2>1, <2>2, <2>3 DEF KeystoreHeld
<1>12. ASSUME NEW c \in Clusters, wcl' = c, wcmd' = WIdle, UNCHANGED <<wdir, wtorn, wleft>>,
              wdir \in WalletDirs, ~wtorn, ~wleft, wdir.meta # 0, wdir.pw = wdir.meta, wdir.meta \in wvol,
              c.published = wdir.meta, c.secret = wdir.meta, c.signer = [pw |-> wdir.meta, files |-> wvol]
       PROVE  Agreed'
  BY <1>12 DEF Agreed
<1>13. CASE SyncStep
  <2>1. SUFFICES ASSUME wok' PROVE Agreed'
    BY <1>1
  <2>2. /\ wcmd.pc = "sync" /\ wcl' = Rolled(Synced(wcl)) /\ wcmd' = WIdle /\ wdir.pw # 0 /\ UNCHANGED <<wdir, wtorn, wleft>>
        /\ ~wtorn /\ ~wleft /\ (wcmd.kind = "import" \/ wcl.signer = Nothing)
    BY <1>13, <2>1 DEF SyncStep, WDone
  <2>3. wdir \in WalletDirs /\ wdir.meta # 0 /\ wdir.pw = wdir.meta /\ wdir.meta \in wvol
    BY <1>11, <2>2
  <2>4. /\ Synced(wcl) \in Clusters /\ Synced(wcl).secret = wdir.meta /\ Synced(wcl).published = wdir.meta
        /\ wcl.signer = Nothing => Synced(wcl).signer = [pw |-> wdir.meta, files |-> wvol]
    BY <1>2, <2>3, SyncedIs
  <2>5. CASE wcmd.kind = "import"
    BY <1>2, <1>12, <2>2, <2>3, <2>4, <2>5, StartIs DEF Rolled
  <2>6. CASE wcmd.kind # "import"
    BY <1>12, <2>2, <2>3, <2>4, <2>6 DEF Rolled
  <2> QED BY <2>5, <2>6
<1>14. CASE RestoreApplies
  <2>1. SUFFICES ASSUME wok' PROVE Agreed'
    BY <1>1
  <2>2. /\ wcmd.pc = "apply" /\ wcl' = Start(WithPassword(WithMetadata(wcl))) /\ wcmd' = WIdle
        /\ UNCHANGED <<wdir, wtorn, wleft>> /\ ~wtorn
    BY <1>14, <2>1 DEF RestoreApplies, WDone
  <2>3. ~wleft
    BY <2>2 DEF KeystoreHeld
  <2>4. wdir \in WalletDirs /\ wdir.meta # 0 /\ wdir.pw = wdir.meta /\ wdir.meta \in wvol
    BY <1>11, <2>2, <2>3
  <2>5. WithMetadata(wcl) \in Clusters /\ WithMetadata(wcl).published = wdir.meta
    BY <1>2, <2>4, AppliedIs
  <2>6. /\ WithPassword(WithMetadata(wcl)) \in Clusters /\ WithPassword(WithMetadata(wcl)).secret = wdir.meta
        /\ WithPassword(WithMetadata(wcl)).published = wdir.meta
    BY <2>4, <2>5, AppliedIs
  <2> QED BY <1>2, <1>12, <2>2, <2>3, <2>4, <2>6, StartIs
<1>15. CASE ImportApplies
  <2>1. SUFFICES ASSUME wok' PROVE Agreed'
    BY <1>1
  <2> DEFINE up == EnsureImportCluster
  <2>2. /\ wcmd.pc = "cluster" /\ wcmd' = WIdle /\ UNCHANGED <<wdir, wtorn, wleft>> /\ wdir.pw # 0
        /\ ~wtorn /\ wcmd.clean /\ (~wcl.up \/ wcl.signer = Nothing \/ wcmd.written)
        /\ wcl' = IF wcl.up /\ wcl.signer # Nothing /\ wcmd.written THEN Start(Synced(up)) ELSE Synced(up)
    BY <1>15, <2>1 DEF ImportApplies, WDone, RestartSigners
  <2>3. up \in Clusters /\ up.signer = wcl.signer
    BY <1>2 DEF EnsureImportCluster, Clusters
  <2> HIDE DEF up
  <2>4. ~wleft
    BY <2>2 DEF KeystoreHeld
  <2>5. wdir \in WalletDirs /\ wdir.meta # 0 /\ wdir.pw = wdir.meta /\ wdir.meta \in wvol
    BY <1>11, <2>2, <2>4
  <2>6. /\ Synced(up) \in Clusters /\ Synced(up).secret = wdir.meta /\ Synced(up).published = wdir.meta
        /\ wcl.signer = Nothing => Synced(up).signer = [pw |-> wdir.meta, files |-> wvol]
    BY <1>2, <2>3, <2>5, SyncedIs
  <2>7. CASE wcl.signer # Nothing
    <3>1. wcl' = Start(Synced(up))
      BY <2>2, <2>7 DEF NumbersMade
    <3> QED BY <1>2, <1>12, <2>2, <2>4, <2>5, <2>6, <3>1, StartIs
  <2>8. CASE wcl.signer = Nothing
    BY <1>12, <2>2, <2>4, <2>5, <2>6, <2>8
  <2> QED BY <2>7, <2>8
<1>16. CASE StopOrStart
  <2>1. SUFFICES ASSUME wok PROVE Agreed'
    BY <1>1, <1>16 DEF StopOrStart
  <2>2. /\ wcmd = WIdle /\ UNCHANGED <<wdir, wvol, wcmd, wok, wtorn, wleft>>
        /\ wcl' = IF wcl.up THEN [wcl EXCEPT !.up = FALSE, !.signer = Nothing] ELSE Start([wcl EXCEPT !.up = TRUE])
    BY <1>16 DEF StopOrStart
  <2>3. /\ wdir # Nothing /\ ~wtorn /\ ~wleft /\ wdir.meta # 0
        /\ wcl.published = wdir.meta /\ wcl.secret = wdir.meta
    BY <2>1 DEF Agreed
  <2>4. wdir.meta \in wvol
    BY <1>2, <2>2, <2>3 DEF KeystoreHeld, Midway
  <2>5. CASE wcl.up
    <3>1. wcl'.published = wcl.published /\ wcl'.secret = wcl.secret /\ wcl'.signer = Nothing
      BY <1>2, <2>2, <2>5 DEF Clusters
    <3> QED BY <2>2, <2>3, <3>1 DEF Agreed
  <2>6. CASE ~wcl.up
    <3>1. /\ [wcl EXCEPT !.up = TRUE] \in Clusters /\ [wcl EXCEPT !.up = TRUE].secret = wcl.secret
          /\ [wcl EXCEPT !.up = TRUE].published = wcl.published
      BY <1>2 DEF Clusters
    <3>2. wcl'.published = wcl.published /\ wcl'.secret = wcl.secret
          /\ wcl'.signer = [pw |-> wdir.meta, files |-> wvol]
      BY <1>2, <2>2, <2>3, <2>6, <3>1, StartIs
    <3> QED BY <2>2, <2>3, <2>4, <3>2 DEF Agreed
  <2> QED BY <2>5, <2>6
<1> QED
  BY <1>0, <1>5, <1>6, <1>7, <1>8, <1>9, <1>10, <1>13, <1>14, <1>15, <1>16 DEF WalletNext

-----------------------------------------------------------------------------
(* What the run checks of the wallets, for every number of commands and faults *)

(***************************************************************************)
(* A command that ended without a warning has brought the wallet of the    *)
(* files to the cluster, password and keystore of it, and what was backed  *)
(* up opens, until a command is cut between the two files of a wallet      *)
(* (wallet_import.go:79-100, wallet_export.go:49-78, import.go:126-170).   *)
(***************************************************************************)
THEOREM WalletHolds == WalletSpec => []WalletInv
<1>1. WalletInit => WalletIInv
  <2> SUFFICES ASSUME WalletInit PROVE WalletIInv
    OBVIOUS
  <2>1. /\ wdir = Nothing /\ wcmd.pc = "idle" /\ warch = Nothing /\ wback = {} /\ wok = FALSE
        /\ wcl.up = TRUE /\ wcl.secret = 0 /\ wcl.published = 0 /\ wcl.signer = Nothing
    BY DEF WalletInit, WIdle, NoCluster
  <2>2. WalletTypeOK
    <3>1. wcl \in Clusters
      BY DEF WalletInit, NoCluster, Clusters
    <3>2. wcmd \in WalletCommands
      BY DEF WalletInit, WalletCommands
    <3>3. wfaults \in 0..MaxWalletFaults /\ wcmds \in 0..MaxWalletCmds
      BY WalletAssumption DEF WalletInit
    <3>4. wnew = 0 /\ wvol = {} /\ wold = {} /\ readable = TRUE /\ wtorn = FALSE /\ wleft = FALSE
      BY DEF WalletInit
    <3>5. {wcl.secret, wcl.published} \subseteq 0..wnew /\ wcl \in Clusters
      BY <2>1, <3>1, <3>4
    <3>6. wvol \cup wold \subseteq 1..wnew /\ wback \subseteq WalletBackups
      BY <2>1, <3>4
    <3>7. wok \in BOOLEAN /\ readable \in BOOLEAN /\ wtorn \in BOOLEAN /\ wleft \in BOOLEAN /\ wnew \in Nat
      BY <2>1, <3>4
    <3>8. \A b \in wback : {b.ks, b.pw} \subseteq 1..wnew
      BY <2>1
    <3> QED BY <2>1, <3>2, <3>3, <3>5, <3>6, <3>7, <3>8 DEF WalletTypeOK, Clusters
  <2>3. NumbersMade /\ PairsKept /\ KeystoreHeld /\ Agreed
    BY <2>1 DEF NumbersMade, PairsKept, KeystoreHeld, Agreed, Named, Midway, WalletSteps
  <2> QED BY <2>2, <2>3 DEF WalletIInv
<1>2. WalletIInv /\ [WalletNext]_walletVars => WalletIInv'
  BY WalletTypeStep, NumbersMadeStep, PairsKeptStep, KeystoreHeldStep, AgreedStep DEF WalletIInv
<1>3. WalletIInv => WalletInv
  <2> SUFFICES ASSUME WalletIInv PROVE WalletInv
    OBVIOUS
  <2>1. PublishedWalletSigns
    BY DEF WalletIInv, Agreed, PublishedWalletSigns
  <2>2. BackupOpens
    BY DEF WalletIInv, PairsKept, BackupOpens
  <2> QED BY <2>1, <2>2 DEF WalletIInv, WalletInv
<1> QED BY <1>1, <1>2, <1>3, PTL DEF WalletSpec
-----------------------------------------------------------------------------
(* The stack: its inductive invariant *)

\* No k3s server of ours runs but one that an earlier command lost.
NoServer == Server \in orphans \/ Ours = {}
Clusterless == \A i \in StackIDs \ orphans : k3d[i].st = "none"

\* Where a command may be with what was recorded of the stack, and that a
\* destroy under way over live offers was agreed to.
CommandFits ==
    /\ scmd.pc = "idle" => scmd = SIdle
    /\ kubeconf \in {sid, Server, None}
    /\ scmd.pc \in {"upK3d", "upK3s", "record", "kubeconfig", "images", "synced", "backend"} => sid # None
    /\ scmd.pc \in {"upK3d", "stop", "delete"} => LoadBackend = "k3d"
    /\ scmd.pc \in {"upK3s", "record", "check", "signal", "killall"} => LoadBackend = "k3s"
    /\ scmd.pc \in {"switch", "destroy"} => scmd.name \in {"init", "purge"}
    /\ scmd.pc \in {"stop", "delete"} => scmd.name = "down"
    /\ scmd.pc = "id" => scmd.id # None /\ sid \in {None, scmd.id}
    /\ scmd.pc \in {"record", "signal"} => scmd.rec # None
    /\ scmd.pc = "signal" => scmd.was
    /\ scmd.pc \in {"destroy", "delete"} /\ scmd.held => scmd.yes

\* A cluster nobody lost is the recorded stack's; past a destroy, and before the
\* other backend is recorded, there is none.
ClustersKept ==
    /\ \A i \in StackIDs \ orphans : k3d[i].st # "none" => i = sid /\ LoadBackend = "k3d"
    /\ scmd.pc \in {"cleanup", "remove"} => Clusterless
    /\ scmd.pc \in {"config", "id", "backend"} /\ scmd.to = "k3s" => Clusterless

\* Whatever process has the PID and the start time of a record is our server.
Genuine(rec) ==
    /\ rec.start \in 1..clock
    /\ proc[rec.pid] # None /\ proc[rec.pid].start = rec.start => proc[rec.pid].kind = "ours"

\* The server nobody lost is the one on record, or the one up is about to record.
Recorded == IF scmd.pc = "record" THEN scmd.rec ELSE pidRec

ServersKept ==
    /\ pidRec # None => Genuine(pidRec)
    /\ scmd.rec # None => Genuine(scmd.rec)
    /\ NoServer \/ /\ LoadBackend = "k3s" /\ sid # None
                   /\ Recorded # None /\ Ours = {Recorded.pid} /\ proc[Recorded.pid].start = Recorded.start
    /\ scmd.pc = "signal" => NoServer \/ Ours = {scmd.rec.pid}
    /\ scmd.pc \in {"killall", "cleanup"} => NoServer
    /\ scmd.pc \in {"config", "id", "backend"} /\ scmd.to = "k3d" => NoServer

\* The cache of imports says of a cluster what was imported into it, and of an
\* earlier cluster of that name nothing that fits this one.
ImagesKept ==
    /\ \A i \in StackIDs :
         /\ imported[i].cid <= cids /\ k3d[i].cid <= cids
         /\ k3d[i].st # "none" => k3d[i].cid # 0
         /\ k3d[i].st # "none" /\ imported[i].cid = k3d[i].cid => k3d[i].img = imported[i].dig
    /\ SyncedClusterHasImage

StackIInv == StackTypeOK /\ CommandFits /\ ClustersKept /\ ServersKept /\ ImagesKept /\ harm = {}
USE DEF stackVars, hostVars, worldVars, countVars

LEMMA StackMarks ==
    /\ None \notin StackIDs /\ None # 0 /\ 0 \notin StackIDs /\ None \notin {"k3d", "k3s"}
    /\ None \notin PidRecords /\ None \notin Processes
    /\ MaxStackCmds \in Nat /\ MaxStackFaults \in Nat
BY StackAssumption DEF PidRecords, Processes

LEMMA ClusterEdits ==
    /\ NoStackCluster \in StackClusters
    /\ \A n \in Nat : [NoStackCluster EXCEPT !.st = "running", !.cid = n] \in StackClusters
    /\ \A c \in StackClusters, s \in {"none", "running", "stopped"} : [c EXCEPT !.st = s] \in StackClusters
    /\ \A c \in StackClusters, n \in Nat : [c EXCEPT !.img = n] \in StackClusters
    /\ \A c \in StackClusters : [c EXCEPT !.offers = TRUE] \in StackClusters
BY DEF NoStackCluster, StackClusters

LEMMA CommandEdits ==
    ASSUME NEW c \in StackCommands
    PROVE  /\ [c EXCEPT !.pc = "delete", !.yes = TRUE] \in StackCommands
           /\ [c EXCEPT !.pc = "killall"] \in StackCommands
           /\ \A r \in PidRecords, b \in BOOLEAN :
                [c EXCEPT !.pc = "signal", !.rec = r, !.was = b] \in StackCommands
BY DEF StackCommands

LEMMA StackTypeStep ==
    ASSUME StackTypeOK, CommandFits, [StackNext]_stackVars
    PROVE  StackTypeOK'
<1> USE StackMarks
<1>a. SIdle \in StackCommands
  BY DEF SIdle, StackCommands
<1>b. ASSUME NEW c \in StackCommands, SBegin(c)
      PROVE  scmd' \in StackCommands /\ scmds' \in Nat
  BY <1>b DEF SBegin, StackTypeOK
<1>f. AtGate \in BOOLEAN
  BY DEF AtGate
<1>c. DOMAIN k3d = StackIDs /\ DOMAIN proc = Pids
  BY DEF StackTypeOK
<1>d. SFault => sfaults' \in Nat
  BY DEF SFault, StackTypeOK
<1>e. LoadBackend \in {"k3d", "k3s"}
  BY DEF LoadBackend, StackTypeOK
<1>0. CASE UNCHANGED stackVars
  BY <1>0 DEF StackTypeOK
<1>1. CASE InitStack
  <2>1. PICK yes \in BOOLEAN, b \in {"k3d", "k3s"}, p \in {"switch", "config"} :
          SBegin([SIdle EXCEPT !.pc = p, !.name = "init", !.yes = yes, !.to = b])
    BY <1>1 DEF InitStack
  <2>2. [SIdle EXCEPT !.pc = p, !.name = "init", !.yes = yes, !.to = b] \in StackCommands
    BY DEF SIdle, StackCommands
  <2> QED BY <1>1, <1>b, <2>1, <2>2 DEF InitStack, StackTypeOK
<1>2. CASE DestroyOldBackendIfSwitching
  <2>1. scmd' \in StackCommands
    BY <1>2, <1>a, ZenonT(60) DEF DestroyOldBackendIfSwitching, AtGate, Exists, StackCommands, StackTypeOK
  <2> QED BY <1>2, <2>1 DEF DestroyOldBackendIfSwitching, StackTypeOK
<1>3. CASE CleanupStaleBackendConfigs
  BY <1>3 DEF CleanupStaleBackendConfigs, SGoto, StackCommands, StackTypeOK
<1>4. CASE InitConfig
  <2>1. InitID \in StackIDs
    BY <1>4 DEF InitConfig, InitID, StackTypeOK
  <2>2. scmd' \in StackCommands /\ used' \subseteq StackIDs /\ conf' \subseteq {"k3d", "k3s"}
    BY <1>4, <2>1 DEF InitConfig, StackCommands, StackTypeOK
  <2> QED BY <1>4, <2>2 DEF InitConfig, StackTypeOK
<1>5. CASE InitWritesID
  BY <1>5 DEF InitWritesID, SGoto, StackCommands, StackTypeOK
<1>6. CASE SaveBackend
  BY <1>6, <1>a DEF SaveBackend, StackCommands, StackTypeOK
<1>7. CASE Up
  <2>1. PICK p \in {"upK3d", "upK3s"} : SBegin([SIdle EXCEPT !.pc = p, !.name = "up"])
    BY <1>7 DEF Up
  <2>2. [SIdle EXCEPT !.pc = p, !.name = "up"] \in StackCommands
    BY DEF SIdle, StackCommands
  <2> QED BY <1>7, <1>b, <2>1, <2>2 DEF Up, StackTypeOK
<1>8. CASE UpK3d
  <2>1. sid \in StackIDs
    BY <1>8 DEF UpK3d, CommandFits, StackTypeOK
  <2>4. k3d[sid] \in StackClusters /\ cids \in Nat
    BY <2>1 DEF StackTypeOK
  <2>5. /\ [NoStackCluster EXCEPT !.st = "running", !.cid = cids + 1] \in StackClusters
        /\ [k3d[sid] EXCEPT !.st = "running"] \in StackClusters
    <3>1. cids + 1 \in Nat /\ "running" \in {"none", "running", "stopped"}
      BY <2>4
    <3> QED BY <2>4, <3>1, ClusterEdits, Zenon
  <2>6. PICK c \in StackClusters : k3d' = [k3d EXCEPT ![sid] = c]
    BY <1>8, <2>1, <2>5 DEF UpK3d, StackTypeOK
  <2>2. k3d' \in [StackIDs -> StackClusters] /\ cids' \in Nat
    <3>1. k3d' \in [StackIDs -> StackClusters]
      BY <2>1, <2>6 DEF StackTypeOK
    <3> QED BY <1>8, <2>4, <3>1 DEF UpK3d
  <2>3. scmd' \in StackCommands
    BY <1>8 DEF UpK3d, SGoto, StackCommands, StackTypeOK
  <2> QED BY <1>8, <2>2, <2>3 DEF UpK3d, StackTypeOK
<1>9. CASE UpK3sRunning
  BY <1>9, <1>a DEF UpK3sRunning, StackCommands, StackTypeOK
<1>10. CASE UpK3sStarts
  <2>1. PICK p \in Pids :
          /\ proc' = [proc EXCEPT ![p] = [kind |-> "ours", start |-> clock + 1]]
          /\ clock' = clock + 1 /\ pidRec' = None /\ kubeconf' = None
          /\ scmd' = [scmd EXCEPT !.pc = "record", !.rec = [pid |-> p, start |-> clock + 1]]
          /\ UNCHANGED <<sid, backend, conf, k3d, k3sOffers, cids, imported, built, countVars, orphans, harm>>
    BY <1>10 DEF UpK3sStarts
  <2>2. [pid |-> p, start |-> clock + 1] \in PidRecords /\ [kind |-> "ours", start |-> clock + 1] \in Processes
    BY DEF PidRecords, Processes, StackTypeOK
  <2>3. proc' \in [Pids -> Processes \cup {None}]
    BY <2>1, <2>2 DEF StackTypeOK
  <2>4. scmd' \in StackCommands
    BY <2>1, <2>2 DEF StackCommands, StackTypeOK
  <2> QED BY <2>1, <2>3, <2>4 DEF StackTypeOK
<1>11. CASE RecordK3sPid
  BY <1>11 DEF RecordK3sPid, SGoto, StackCommands, StackTypeOK
<1>12. CASE WriteKubeconfig
  <2>1. kubeconf' \in StackIDs \cup {Server, None}
    BY <1>12 DEF WriteKubeconfig, CommandFits, StackTypeOK
  <2>2. scmd' \in StackCommands
    BY <1>12, <1>a DEF WriteKubeconfig, SGoto, StackCommands, StackTypeOK
  <2> QED BY <1>12, <2>1, <2>2 DEF WriteKubeconfig, StackTypeOK
<1>13. CASE SyncDefaults
  <2>1. sid \in StackIDs
    BY <1>13 DEF SyncDefaults, CommandFits, StackTypeOK
  <2>4. [k3d[sid] EXCEPT !.img = built] \in StackClusters
    BY <2>1, ClusterEdits DEF StackTypeOK
  <2>6. [dig |-> built, cid |-> k3d[sid].cid] \in [dig : Nat, cid : Nat]
    BY <2>1 DEF StackClusters, StackTypeOK
  <2>5. \/ UNCHANGED <<k3d, imported>>
        \/ /\ k3d' = [k3d EXCEPT ![sid] = [k3d[sid] EXCEPT !.img = built]]
           /\ imported' = [imported EXCEPT ![sid] = [dig |-> built, cid |-> k3d[sid].cid]]
    BY <1>13, <2>1 DEF SyncDefaults, StackTypeOK
  <2>2. k3d' \in [StackIDs -> StackClusters] /\ imported' \in [StackIDs -> [dig : Nat, cid : Nat]]
    <3>1. k3d' = k3d \/ \E c \in StackClusters : k3d' = [k3d EXCEPT ![sid] = c]
      BY <2>4, <2>5
    <3>2. imported' = imported \/ \E c \in [dig : Nat, cid : Nat] : imported' = [imported EXCEPT ![sid] = c]
      BY <2>5, <2>6
    <3> QED BY <3>1, <3>2 DEF StackTypeOK
  <2>3. scmd' \in StackCommands
    BY <1>13 DEF SyncDefaults, SGoto, StackCommands, StackTypeOK
  <2> QED BY <1>13, <2>2, <2>3 DEF SyncDefaults, StackTypeOK
<1>14. CASE UpEnds
  BY <1>14, <1>a DEF UpEnds, StackTypeOK
<1>15. CASE Down
  <2>1. PICK yes \in BOOLEAN, p \in {"stop", "check"} :
          SBegin([SIdle EXCEPT !.pc = p, !.name = "down", !.yes = yes, !.held = AtGate])
    BY <1>15 DEF Down
  <2>2. [SIdle EXCEPT !.pc = p, !.name = "down", !.yes = yes, !.held = AtGate] \in StackCommands
    BY <1>f DEF SIdle, StackCommands
  <2> QED BY <1>15, <1>b, <2>1, <2>2 DEF Down, StackTypeOK
<1>16. CASE StopK3d
  <2>1. scmd' \in StackCommands
    <3>1. scmd' = SIdle \/ scmd' = [scmd EXCEPT !.pc = "delete", !.yes = TRUE]
      BY <1>16 DEF StopK3d
    <3> QED BY <1>a, <3>1, CommandEdits DEF StackTypeOK
  <2>2. k3d' \in [StackIDs -> StackClusters]
    BY <1>16 DEF StopK3d, StackClusters, StackTypeOK
  <2> QED BY <1>16, <1>d, <2>1, <2>2 DEF StopK3d, StackTypeOK
<1>17. CASE Purge
  <2>1. PICK yes \in BOOLEAN, p \in {"destroy", "remove"} :
          SBegin([SIdle EXCEPT !.pc = p, !.name = "purge", !.yes = yes, !.held = AtGate])
    BY <1>17 DEF Purge
  <2>2. [SIdle EXCEPT !.pc = p, !.name = "purge", !.yes = yes, !.held = AtGate] \in StackCommands
    BY <1>f DEF SIdle, StackCommands
  <2> QED BY <1>17, <1>b, <2>1, <2>2 DEF Purge, StackTypeOK
<1>18. CASE Destroy
  <2>1. scmd' \in StackCommands
    BY <1>18, <1>a DEF Destroy, AfterDestroy, SGoto, StackCommands, StackTypeOK
  <2>4. NoStackCluster \in StackClusters
    BY DEF NoStackCluster, StackClusters
  <2>2. k3d' \in [StackIDs -> StackClusters]
    BY <1>18, <2>4 DEF Destroy, StackTypeOK
  <2>3. orphans' \subseteq StackIDs \cup {Server} /\ harm' \subseteq {"consent", "signal"} /\ sfaults' \in Nat
    BY <1>18, <1>d DEF Destroy, Exists, StackTypeOK
  <2> QED BY <1>18, <2>1, <2>2, <2>3 DEF Destroy, StackTypeOK
<1>19. CASE K3sDownChecks
  <2>1. scmd' \in StackCommands
    <3>1. CASE K3sIsRunning
      <4>1. pidRec \in PidRecords /\ (pidRec.pid \in Ours) \in BOOLEAN
        BY <3>1 DEF K3sIsRunning, StackTypeOK
      <4>2. scmd' = [scmd EXCEPT !.pc = "signal", !.rec = pidRec, !.was = pidRec.pid \in Ours]
        BY <1>19, <3>1 DEF K3sDownChecks
      <4> QED BY <4>1, <4>2, CommandEdits DEF StackTypeOK
    <3>2. CASE ~K3sIsRunning
      BY <1>19, <3>2, CommandEdits DEF K3sDownChecks, StackTypeOK
    <3> QED BY <3>1, <3>2
  <2> QED BY <1>19, <2>1 DEF K3sDownChecks, StackTypeOK
<1>20. CASE K3sSignal
  <2>1. scmd' \in StackCommands
    BY <1>20 DEF K3sSignal, SGoto, StackCommands, StackTypeOK
  <2>2. proc' \in [Pids -> Processes \cup {None}]
    BY <1>20 DEF K3sSignal, StackTypeOK
  <2>3. orphans' \subseteq StackIDs \cup {Server} /\ harm' \subseteq {"consent", "signal"} /\ sfaults' \in Nat
    BY <1>20, <1>d DEF K3sSignal, StackTypeOK
  <2> QED BY <1>20, <2>1, <2>2, <2>3 DEF K3sSignal, StackTypeOK
<1>21. CASE K3sKillall
  <2>1. scmd' \in StackCommands
    BY <1>21, <1>a DEF K3sKillall, AfterDestroy, StackCommands, StackTypeOK
  <2> QED BY <1>21, <2>1 DEF K3sKillall, StackTypeOK
<1>22. CASE PurgeRemoves
  BY <1>22, <1>a DEF PurgeRemoves, StackTypeOK
<1>23. CASE StackCrash
  BY <1>23, <1>a, <1>d DEF StackCrash, StackTypeOK
<1>24. CASE ProcessExits
  <2>1. proc' \in [Pids -> Processes \cup {None}] /\ clock' \in Nat
    BY <1>24 DEF ProcessExits, Processes, StackTypeOK
  <2> QED BY <1>24, <1>d, <2>1 DEF ProcessExits, StackTypeOK
<1>25. CASE Reboot
  <2>1. k3d' \in [StackIDs -> StackClusters]
    BY <1>25, SMTT(30) DEF Reboot, StackClusters, StackTypeOK
  <2> QED BY <1>25, <1>d, <2>1 DEF Reboot, StackTypeOK
<1>26. CASE OfferGoesLive
  <2>2. \A i \in StackIDs : [k3d[i] EXCEPT !.offers = TRUE] \in StackClusters
    BY ClusterEdits DEF StackTypeOK
  <2>3. (k3sOffers' = TRUE \/ k3sOffers' = k3sOffers)
        /\ (k3d' = k3d \/ \E i \in StackIDs : k3d' = [k3d EXCEPT ![i] = [k3d[i] EXCEPT !.offers = TRUE]])
    BY <1>26 DEF OfferGoesLive, StackTypeOK
  <2>1. k3d' \in [StackIDs -> StackClusters] /\ k3sOffers' \in BOOLEAN
    <3>1. k3d' = k3d \/ \E i \in StackIDs, c \in StackClusters : k3d' = [k3d EXCEPT ![i] = c]
      BY <2>2, <2>3
    <3>2. k3d' \in [StackIDs -> StackClusters]
      BY <3>1 DEF StackTypeOK
    <3>3. k3sOffers' \in BOOLEAN
      BY <2>3 DEF StackTypeOK
    <3> QED BY <3>2, <3>3
  <2> QED BY <1>26, <2>1 DEF OfferGoesLive, StackTypeOK
<1>27. CASE Rebuild
  BY <1>27 DEF Rebuild, StackTypeOK
<1> QED
  BY <1>0, <1>1, <1>2, <1>3, <1>4, <1>5, <1>6, <1>7, <1>8, <1>9, <1>10, <1>11, <1>12, <1>13, <1>14, <1>15,
     <1>16, <1>17, <1>18, <1>19, <1>20, <1>21, <1>22, <1>23, <1>24, <1>25, <1>26, <1>27 DEF StackNext

-----------------------------------------------------------------------------
(* The stack: what the steps of a command leave in its fields *)

LEMMA InitReads ==
    ASSUME InitStack
    PROVE  /\ scmd'.pc \in {"switch", "config"} /\ scmd'.name = "init" /\ scmd'.to \in {"k3d", "k3s"}
           /\ scmd'.rec = None /\ scmd.pc = "idle"
           /\ scmd'.pc = "config" => LoadBackend = scmd'.to \/ ~HasExistingConfig
<1>1. PICK yes \in BOOLEAN, b \in {"k3d", "k3s"} :
        SBegin([SIdle EXCEPT !.pc = IF HasExistingConfig /\ LoadBackend # b THEN "switch" ELSE "config",
                            !.name = "init", !.yes = yes, !.to = b])
  BY DEF InitStack
<1> QED BY <1>1 DEF SBegin, SIdle

LEMMA PurgeReads ==
    ASSUME Purge
    PROVE  /\ scmd'.pc \in {"destroy", "remove"} /\ scmd'.name = "purge" /\ scmd'.held = AtGate
           /\ scmd'.rec = None /\ scmd.pc = "idle"
           /\ scmd'.pc = "destroy" => sid # None /\ ConfirmClusterDestroy(scmd'.yes, FALSE)
<1>1. PICK yes \in BOOLEAN :
        /\ IF sid # None THEN ConfirmClusterDestroy(yes, FALSE) ELSE ConfirmRunningServicesLoss(yes)
        /\ SBegin([SIdle EXCEPT !.pc = IF sid # None THEN "destroy" ELSE "remove", !.name = "purge",
                               !.yes = yes, !.held = AtGate])
  BY DEF Purge
<1>2. /\ scmd'.pc = (IF sid # None THEN "destroy" ELSE "remove") /\ scmd'.name = "purge" /\ scmd'.yes = yes
      /\ scmd'.held = AtGate /\ scmd'.rec = None /\ scmd.pc = "idle"
  BY <1>1 DEF SBegin, SIdle
<1> QED BY <1>1, <1>2

LEMMA SwitchReads ==
    ASSUME StackTypeOK, DestroyOldBackendIfSwitching
    PROVE  \/ scmd' = SIdle
           \/ /\ scmd'.pc = "destroy" /\ scmd'.yes /\ scmd'.held = AtGate
              /\ scmd'.name = scmd.name /\ scmd'.to = scmd.to /\ scmd'.rec = scmd.rec
<1>1. CASE ConfirmClusterDestroy(scmd.yes, TRUE)
  <2>1. scmd' = [scmd EXCEPT !.pc = "destroy", !.held = AtGate] /\ scmd.yes
    BY <1>1 DEF DestroyOldBackendIfSwitching, ConfirmClusterDestroy, ConfirmLoss
  <2> QED BY <2>1 DEF StackTypeOK, StackCommands
<1> QED BY <1>1 DEF DestroyOldBackendIfSwitching

LEMMA ConfigReads ==
    ASSUME StackTypeOK, InitConfig
    PROVE  scmd'.pc = "id" /\ scmd'.id = InitID /\ scmd'.to = scmd.to /\ scmd'.rec = scmd.rec
BY DEF InitConfig, StackTypeOK, StackCommands

LEMMA StartsReads ==
    ASSUME StackTypeOK, UpK3sStarts
    PROVE  \E p \in Pids :
             /\ proc[p] = None /\ proc' = [proc EXCEPT ![p] = [kind |-> "ours", start |-> clock + 1]]
             /\ scmd'.pc = "record" /\ scmd'.rec = [pid |-> p, start |-> clock + 1]
             /\ scmd'.name = scmd.name /\ scmd'.to = scmd.to
<1>1. PICK p \in Pids :
        /\ proc[p] = None /\ proc' = [proc EXCEPT ![p] = [kind |-> "ours", start |-> clock + 1]]
        /\ scmd' = [scmd EXCEPT !.pc = "record", !.rec = [pid |-> p, start |-> clock + 1]]
  BY DEF UpK3sStarts
<1>2. /\ scmd'.pc = "record" /\ scmd'.rec = [pid |-> p, start |-> clock + 1]
      /\ scmd'.name = scmd.name /\ scmd'.to = scmd.to
  BY <1>1 DEF StackTypeOK, StackCommands
<1> QED BY <1>1, <1>2

LEMMA StopReads ==
    ASSUME StackTypeOK, StopK3d
    PROVE  \/ scmd' = SIdle
           \/ scmd'.pc = "delete" /\ scmd'.yes /\ scmd'.name = scmd.name /\ scmd'.rec = scmd.rec
<1>1. scmd' = SIdle \/ scmd' = [scmd EXCEPT !.pc = "delete", !.yes = TRUE]
  BY DEF StopK3d
<1> QED BY <1>1 DEF StackTypeOK, StackCommands

LEMMA DestroyReads ==
    ASSUME StackTypeOK, Destroy
    PROVE  /\ \/ scmd' = SIdle
              \/ /\ \/ scmd'.pc = "check" /\ LoadBackend = "k3s"
                    \/ scmd'.pc = "remove" /\ scmd.name = "purge" /\ LoadBackend = "k3d"
                    \/ scmd'.pc = "cleanup" /\ scmd.name = "init" /\ LoadBackend = "k3d"
                 /\ scmd'.name = scmd.name /\ scmd'.to = scmd.to /\ scmd'.rec = scmd.rec
           /\ LoadBackend = "k3s" => scmd'.pc = "check"
           /\ LoadBackend = "k3d" /\ scmd.name = "down" => scmd' = SIdle
<1>1. CASE LoadBackend = "k3d"
  <2>1. scmd' = IF AfterDestroy = "end" THEN SIdle ELSE [scmd EXCEPT !.pc = AfterDestroy]
    BY <1>1 DEF Destroy
  <2>2. CASE scmd.name = "purge"
    BY <1>1, <2>1, <2>2 DEF AfterDestroy, StackTypeOK, StackCommands
  <2>3. CASE scmd.name = "init"
    BY <1>1, <2>1, <2>3 DEF AfterDestroy, StackTypeOK, StackCommands
  <2>4. CASE scmd.name \notin {"purge", "init"}
    BY <1>1, <2>1, <2>4 DEF AfterDestroy
  <2> QED BY <2>2, <2>3, <2>4
<1>2. CASE LoadBackend = "k3s"
  <2>1. scmd' = [scmd EXCEPT !.pc = "check"]
    BY <1>2 DEF Destroy, SGoto
  <2> QED BY <1>2, <2>1 DEF StackTypeOK, StackCommands
<1> QED BY <1>1, <1>2 DEF LoadBackend, StackTypeOK

LEMMA ChecksReads ==
    ASSUME StackTypeOK, K3sDownChecks
    PROVE  /\ scmd'.name = scmd.name /\ scmd'.to = scmd.to
           /\ K3sIsRunning => /\ pidRec # None /\ pidRec' = pidRec
                              /\ scmd'.pc = "signal" /\ scmd'.rec = pidRec /\ scmd'.was = (pidRec.pid \in Ours)
           /\ ~K3sIsRunning => scmd'.pc = "killall" /\ scmd'.rec = scmd.rec
<1>1. CASE K3sIsRunning
  <2>1. /\ scmd' = [scmd EXCEPT !.pc = "signal", !.rec = pidRec, !.was = pidRec.pid \in Ours]
        /\ pidRec # None /\ pidRec' = pidRec
    BY <1>1 DEF K3sDownChecks, K3sIsRunning
  <2> QED BY <1>1, <2>1 DEF StackTypeOK, StackCommands
<1>2. CASE ~K3sIsRunning
  BY <1>2 DEF K3sDownChecks, StackTypeOK, StackCommands
<1> QED BY <1>1, <1>2

LEMMA KillallReads ==
    ASSUME StackTypeOK, K3sKillall
    PROVE  \/ scmd' = SIdle
           \/ /\ scmd'.pc \in {"remove", "cleanup"}
              /\ scmd'.name = scmd.name /\ scmd'.to = scmd.to /\ scmd'.rec = scmd.rec
<1>1. \/ scmd' = SIdle
      \/ scmd' = [scmd EXCEPT !.pc = "remove"] \/ scmd' = [scmd EXCEPT !.pc = "cleanup"]
  BY DEF K3sKillall, AfterDestroy
<1> QED BY <1>1 DEF StackTypeOK, StackCommands

-----------------------------------------------------------------------------
(* The stack: the inductive invariant is kept *)

LEMMA CommandFitsStep ==
    ASSUME StackTypeOK, CommandFits, ServersKept, [StackNext]_stackVars, StackTypeOK'
    PROVE  CommandFits'
<1> USE StackMarks DEF CommandFits, StackTypeOK, StackCommands, SIdle, SGoto, SBegin, LoadBackend, Server
<1>0. CASE UNCHANGED stackVars
  BY <1>0
<1>1. CASE InitStack
  BY <1>1 DEF InitStack
<1>2. CASE DestroyOldBackendIfSwitching
  <2>1. UNCHANGED hostVars /\ scmd.pc = "switch" /\ scmd.name \in {"init", "purge"}
    BY <1>2 DEF DestroyOldBackendIfSwitching
  <2>2. CASE scmd' = SIdle
    BY <2>1, <2>2
  <2>3. CASE scmd'.pc = "destroy" /\ scmd'.yes /\ scmd'.name = scmd.name
    BY <2>1, <2>3
  <2> QED BY <1>2, <2>2, <2>3, SwitchReads
<1>3. CASE CleanupStaleBackendConfigs
  BY <1>3 DEF CleanupStaleBackendConfigs
<1>4. CASE InitConfig
  <2>1. InitID # None /\ sid \in {None, InitID}
    BY <1>4 DEF InitConfig, InitID
  <2> QED BY <1>4, <2>1, ConfigReads DEF InitConfig
<1>5. CASE InitWritesID
  BY <1>5 DEF InitWritesID
<1>6. CASE SaveBackend
  BY <1>6 DEF SaveBackend
<1>7. CASE Up
  BY <1>7 DEF Up
<1>8. CASE UpK3d
  BY <1>8 DEF UpK3d
<1>9. CASE UpK3sRunning
  BY <1>9 DEF UpK3sRunning
<1>10. CASE UpK3sStarts
  <2>1. scmd'.pc = "record" /\ scmd'.rec # None
    <3>1. PICK p \in Pids : scmd'.pc = "record" /\ scmd'.rec = [pid |-> p, start |-> clock + 1]
      BY <1>10, StartsReads
    <3>2. [pid |-> p, start |-> clock + 1] \in PidRecords
      BY DEF PidRecords
    <3> QED BY <3>1, <3>2
  <2>2. UNCHANGED <<sid, backend>> /\ kubeconf' = None /\ scmd.pc = "upK3s"
    BY <1>10 DEF UpK3sStarts
  <2> QED BY <2>1, <2>2
<1>11. CASE RecordK3sPid
  BY <1>11 DEF RecordK3sPid
<1>12. CASE WriteKubeconfig
  BY <1>12 DEF WriteKubeconfig
<1>13. CASE SyncDefaults
  BY <1>13 DEF SyncDefaults
<1>14. CASE UpEnds
  BY <1>14 DEF UpEnds
<1>15. CASE Down
  BY <1>15 DEF Down
<1>16. CASE StopK3d
  BY <1>16, StopReads DEF StopK3d
<1>17. CASE Purge
  <2>1. scmd'.pc = "destroy" /\ AtGate => scmd'.yes
    <3>1. SUFFICES ASSUME sid # None, DiscoverLiveOffers = "idle", AtGate PROVE FALSE
      BY <1>17, PurgeReads DEF ConfirmClusterDestroy, ConfirmLoss
    <3>2. kubeconf # Server
      BY <3>1 DEF AtGate, DiscoverLiveOffers, ServersKept, NoServer
    <3>3. kubeconf = sid /\ sid \in StackIDs
      BY <3>1, <3>2 DEF DiscoverLiveOffers
    <3> QED BY <3>1, <3>2, <3>3 DEF AtGate, DiscoverLiveOffers
  <2>2. UNCHANGED <<sid, backend, kubeconf>>
    BY <1>17 DEF Purge
  <2>3. scmd'.pc \in {"destroy", "remove"} /\ scmd'.name = "purge" /\ scmd'.held = AtGate
    BY <1>17, PurgeReads
  <2> QED BY <2>1, <2>2, <2>3
<1>18. CASE Destroy
  <2>1. UNCHANGED hostVars
    BY <1>18 DEF Destroy
  <2> QED BY <1>18, <2>1, DestroyReads
<1>19. CASE K3sDownChecks
  <2>1. K3sIsRunning => pidRec.pid \in Ours
    BY DEF K3sIsRunning, CheckK3sPid, Ours, ServersKept, Genuine, PidRecords, Processes
  <2> QED BY <1>19, <2>1, ChecksReads DEF K3sDownChecks
<1>20. CASE K3sSignal
  BY <1>20 DEF K3sSignal
<1>21. CASE K3sKillall
  <2>1. UNCHANGED <<sid, backend, kubeconf>>
    BY <1>21 DEF K3sKillall
  <2> QED BY <1>21, <2>1, KillallReads
<1>22. CASE PurgeRemoves
  BY <1>22 DEF PurgeRemoves
<1>23. CASE StackCrash
  BY <1>23 DEF StackCrash
<1>24. CASE ProcessExits
  BY <1>24 DEF ProcessExits
<1>25. CASE Reboot
  BY <1>25 DEF Reboot
<1>26. CASE OfferGoesLive
  BY <1>26 DEF OfferGoesLive
<1>27. CASE Rebuild
  BY <1>27 DEF Rebuild
<1> QED
  BY <1>0, <1>1, <1>2, <1>3, <1>4, <1>5, <1>6, <1>7, <1>8, <1>9, <1>10, <1>11, <1>12, <1>13,
     <1>14, <1>15, <1>16, <1>17, <1>18, <1>19, <1>20, <1>21, <1>22, <1>23, <1>24, <1>25, <1>26, <1>27 DEF
          StackNext

LEMMA ClustersStep ==
    ASSUME StackTypeOK, CommandFits, ClustersKept, [StackNext]_stackVars, StackTypeOK'
    PROVE  ClustersKept'
<1> USE StackMarks DEF ClustersKept, CommandFits, Clusterless, StackTypeOK, StackCommands, SIdle,
     SGoto, SBegin, LoadBackend, NoStackCluster, Exists
<1>0. CASE UNCHANGED stackVars
  BY <1>0
<1>1. CASE InitStack
  <2>1. ~HasExistingConfig => sid = None
    BY DEF HasExistingConfig
  <2>2. UNCHANGED <<sid, backend, k3d, orphans>>
    BY <1>1 DEF InitStack
  <2> QED BY <1>1, <2>1, <2>2, InitReads
<1>2. CASE DestroyOldBackendIfSwitching
  BY <1>2 DEF DestroyOldBackendIfSwitching
<1>3. CASE CleanupStaleBackendConfigs
  BY <1>3 DEF CleanupStaleBackendConfigs
<1>4. CASE InitConfig
  BY <1>4 DEF InitConfig
<1>5. CASE InitWritesID
  BY <1>5 DEF InitWritesID
<1>6. CASE SaveBackend
  BY <1>6 DEF SaveBackend
<1>7. CASE Up
  BY <1>7 DEF Up
<1>8. CASE UpK3d
  BY <1>8 DEF UpK3d
<1>9. CASE UpK3sRunning
  BY <1>9 DEF UpK3sRunning
<1>10. CASE UpK3sStarts
  BY <1>10 DEF UpK3sStarts
<1>11. CASE RecordK3sPid
  BY <1>11 DEF RecordK3sPid
<1>12. CASE WriteKubeconfig
  BY <1>12 DEF WriteKubeconfig
<1>13. CASE SyncDefaults
  BY <1>13 DEF SyncDefaults
<1>14. CASE UpEnds
  BY <1>14 DEF UpEnds
<1>15. CASE Down
  BY <1>15 DEF Down
<1>16. CASE StopK3d
  <2>1. k3d' = k3d \/ k3d' = [k3d EXCEPT ![sid].st = IF @ = "none" THEN "none" ELSE "stopped"]
    BY <1>16 DEF StopK3d
  <2>2. \A i \in StackIDs : k3d'[i].st # "none" => k3d[i].st # "none"
    <3>1. CASE k3d' = k3d
      BY <3>1
    <3>2. CASE k3d' = [k3d EXCEPT ![sid].st = IF @ = "none" THEN "none" ELSE "stopped"]
      <4>1. \A i \in StackIDs : i # sid => k3d'[i] = k3d[i]
        BY <3>2
      <4>2. sid \in StackIDs /\ k3d[sid].st = "none" => k3d'[sid].st = "none"
        BY <3>2 DEF StackClusters
      <4> QED BY <4>1, <4>2
    <3> QED BY <2>1, <3>1, <3>2
  <2>3. UNCHANGED <<sid, backend, orphans>>
    BY <1>16 DEF StopK3d
  <2> QED BY <1>16, <2>2, <2>3, StopReads
<1>17. CASE Purge
  BY <1>17 DEF Purge
<1>18. CASE Destroy
  <2>1. UNCHANGED hostVars
    BY <1>18 DEF Destroy
  <2>2. \A i \in StackIDs \ orphans' : k3d'[i].st # "none" => k3d[i].st # "none" /\ i \notin orphans
    BY <1>18 DEF Destroy
  <2>3. CASE LoadBackend = "k3s" \/ scmd.pc = "delete"
    <3>1. scmd'.pc \in {"check", "idle"}
      BY <1>18, <2>3, DestroyReads
    <3> QED BY <2>1, <2>2, <3>1
  <2>4. CASE LoadBackend = "k3d" /\ scmd.pc = "destroy"
    <3>1. \A i \in StackIDs \ orphans' : i = sid => k3d'[i].st = "none"
      BY <1>18, <2>4 DEF Destroy
    <3>2. Clusterless'
      BY <2>2, <3>1
    <3>3. scmd'.pc \notin {"config", "id", "backend"}
      BY <1>18, <2>4, DestroyReads
    <3> QED BY <2>1, <3>2, <3>3
  <2> QED BY <1>18, <2>3, <2>4 DEF Destroy
<1>19. CASE K3sDownChecks
  BY <1>19 DEF K3sDownChecks
<1>20. CASE K3sSignal
  BY <1>20 DEF K3sSignal
<1>21. CASE K3sKillall
  BY <1>21 DEF K3sKillall
<1>22. CASE PurgeRemoves
  BY <1>22 DEF PurgeRemoves
<1>23. CASE StackCrash
  BY <1>23 DEF StackCrash
<1>24. CASE ProcessExits
  BY <1>24 DEF ProcessExits
<1>25. CASE Reboot
  BY <1>25 DEF Reboot
<1>26. CASE OfferGoesLive
  <2>1. UNCHANGED <<sid, backend, orphans, scmd>>
    BY <1>26 DEF OfferGoesLive
  <2>2. \A i \in StackIDs : k3d'[i].st = k3d[i].st
    <3>1. CASE k3d' = k3d
      BY <3>1
    <3>2. CASE \E i \in StackIDs : k3d' = [k3d EXCEPT ![i].offers = TRUE]
      <4>1. PICK i \in StackIDs : k3d' = [k3d EXCEPT ![i].offers = TRUE]
        BY <3>2
      <4>2. k3d[i] \in StackClusters
        OBVIOUS
      <4> QED BY <4>1, <4>2 DEF StackClusters
    <3> QED BY <1>26, <3>1, <3>2 DEF OfferGoesLive
  <2> QED BY <2>1, <2>2
<1>27. CASE Rebuild
  BY <1>27 DEF Rebuild
<1> QED
  BY <1>0, <1>1, <1>2, <1>3, <1>4, <1>5, <1>6, <1>7, <1>8, <1>9, <1>10, <1>11, <1>12, <1>13,
     <1>14, <1>15, <1>16, <1>17, <1>18, <1>19, <1>20, <1>21, <1>22, <1>23, <1>24, <1>25, <1>26, <1>27 DEF
          StackNext

LEMMA ServersStep ==
    ASSUME StackTypeOK, CommandFits, ServersKept, [StackNext]_stackVars, StackTypeOK'
    PROVE  ServersKept'
<1> USE StackMarks DEF ServersKept, CommandFits, NoServer, Ours, Genuine, Recorded, StackTypeOK,
     StackCommands, SIdle, SGoto, SBegin, LoadBackend, PidRecords, Processes, Server
<1>0. CASE UNCHANGED stackVars
  BY <1>0
<1>1. CASE InitStack
  <2>1. ~HasExistingConfig => sid = None
    BY DEF HasExistingConfig
  <2>2. UNCHANGED <<hostVars, proc, clock, orphans>>
    BY <1>1 DEF InitStack
  <2> QED BY <1>1, <2>1, <2>2, InitReads
<1>2. CASE DestroyOldBackendIfSwitching
  <2>1. UNCHANGED <<hostVars, proc, clock, orphans>> /\ scmd.pc = "switch"
    BY <1>2 DEF DestroyOldBackendIfSwitching
  <2> QED BY <1>2, <2>1, SwitchReads
<1>3. CASE CleanupStaleBackendConfigs
  BY <1>3 DEF CleanupStaleBackendConfigs
<1>4. CASE InitConfig
  BY <1>4 DEF InitConfig
<1>5. CASE InitWritesID
  BY <1>5 DEF InitWritesID
<1>6. CASE SaveBackend
  BY <1>6 DEF SaveBackend
<1>7. CASE Up
  BY <1>7 DEF Up
<1>8. CASE UpK3d
  BY <1>8 DEF UpK3d
<1>9. CASE UpK3sRunning
  BY <1>9 DEF UpK3sRunning
<1>10. CASE UpK3sStarts
  <2>1. PICK p \in Pids :
          /\ proc[p] = None /\ proc' = [proc EXCEPT ![p] = [kind |-> "ours", start |-> clock + 1]]
          /\ scmd'.pc = "record" /\ scmd'.rec = [pid |-> p, start |-> clock + 1]
    BY <1>10, StartsReads
  <2>2. /\ clock' = clock + 1 /\ pidRec' = None /\ UNCHANGED <<sid, backend, orphans>>
        /\ scmd.pc = "upK3s" /\ ~K3sIsRunning
    BY <1>10 DEF UpK3sStarts
  <2>3. NoServer
    <3>1. SUFFICES ASSUME ~NoServer PROVE FALSE
      OBVIOUS
    <3>2. pidRec # None /\ proc[pidRec.pid] # None /\ proc[pidRec.pid].kind = "ours"
          /\ proc[pidRec.pid].start = pidRec.start
      BY <2>2, <3>1
    <3> QED BY <2>2, <3>2 DEF K3sIsRunning, CheckK3sPid
  <2>4. proc'[p] = [kind |-> "ours", start |-> clock + 1] /\ \A q \in Pids : q # p => proc'[q] = proc[q]
    BY <2>1
  <2>5. NoServer' \/ (Ours' = {p} /\ proc'[p].start = clock + 1)
    BY <2>2, <2>3, <2>4
  <2>6. Genuine(scmd.rec)'
    BY <2>1, <2>2, <2>4
  <2>7. LoadBackend' = "k3s" /\ sid' # None
    BY <2>2
  <2> QED BY <2>1, <2>2, <2>5, <2>6, <2>7
<1>11. CASE RecordK3sPid
  BY <1>11 DEF RecordK3sPid
<1>12. CASE WriteKubeconfig
  BY <1>12 DEF WriteKubeconfig
<1>13. CASE SyncDefaults
  BY <1>13 DEF SyncDefaults
<1>14. CASE UpEnds
  BY <1>14 DEF UpEnds
<1>15. CASE Down
  BY <1>15 DEF Down
<1>16. CASE StopK3d
  <2>1. UNCHANGED <<hostVars, proc, clock, orphans>> /\ scmd.pc = "stop"
    BY <1>16 DEF StopK3d
  <2> QED BY <1>16, <2>1, StopReads
<1>17. CASE Purge
  BY <1>17 DEF Purge
<1>18. CASE Destroy
  <2>1. UNCHANGED <<hostVars, proc, clock>> /\ orphans \subseteq orphans'
    BY <1>18 DEF Destroy
  <2>2. (NoServer => NoServer') /\ scmd.pc \in {"destroy", "delete"}
    BY <1>18, <2>1 DEF Destroy
  <2>3. scmd'.pc \in {"idle", "check", "remove", "cleanup"} /\ scmd'.rec \in {None, scmd.rec}
        /\ (scmd'.pc = "cleanup" => LoadBackend = "k3d")
    BY <1>18, DestroyReads
  <2> QED BY <2>1, <2>2, <2>3
<1>19. CASE K3sDownChecks
  <2>1. UNCHANGED <<sid, backend, proc, clock, orphans>> /\ scmd.pc = "check" /\ pidRec' \in {pidRec, None}
    BY <1>19 DEF K3sDownChecks
  <2>2. ~K3sIsRunning => NoServer
    <3>1. SUFFICES ASSUME ~NoServer PROVE K3sIsRunning
      OBVIOUS
    <3>2. pidRec # None /\ proc[pidRec.pid] # None /\ proc[pidRec.pid].kind = "ours"
          /\ proc[pidRec.pid].start = pidRec.start
      BY <2>1, <3>1
    <3> QED BY <3>2 DEF K3sIsRunning, CheckK3sPid
  <2> QED BY <1>19, <2>1, <2>2, ChecksReads
<1>20. CASE K3sSignal
  BY <1>20 DEF K3sSignal
<1>21. CASE K3sKillall
  BY <1>21 DEF K3sKillall
<1>22. CASE PurgeRemoves
  BY <1>22 DEF PurgeRemoves
<1>23. CASE StackCrash
  BY <1>23 DEF StackCrash
<1>24. CASE ProcessExits
  BY <1>24 DEF ProcessExits
<1>25. CASE Reboot
  BY <1>25 DEF Reboot
<1>26. CASE OfferGoesLive
  BY <1>26 DEF OfferGoesLive
<1>27. CASE Rebuild
  BY <1>27 DEF Rebuild
<1> QED
  BY <1>0, <1>1, <1>2, <1>3, <1>4, <1>5, <1>6, <1>7, <1>8, <1>9, <1>10, <1>11, <1>12, <1>13,
     <1>14, <1>15, <1>16, <1>17, <1>18, <1>19, <1>20, <1>21, <1>22, <1>23, <1>24, <1>25, <1>26, <1>27 DEF
          StackNext

LEMMA ImagesStep ==
    ASSUME StackTypeOK, CommandFits, ImagesKept, [StackNext]_stackVars, StackTypeOK'
    PROVE  ImagesKept'
<1> USE StackMarks DEF ImagesKept, SyncedClusterHasImage, CommandFits, StackTypeOK, StackCommands,
     SIdle, SGoto, SBegin, LoadBackend, NoStackCluster, StackClusters, Exists
<1>0. CASE UNCHANGED stackVars
  BY <1>0
<1>1. CASE InitStack
  BY <1>1 DEF InitStack
<1>2. CASE DestroyOldBackendIfSwitching
  BY <1>2 DEF DestroyOldBackendIfSwitching
<1>3. CASE CleanupStaleBackendConfigs
  BY <1>3 DEF CleanupStaleBackendConfigs
<1>4. CASE InitConfig
  BY <1>4 DEF InitConfig
<1>5. CASE InitWritesID
  BY <1>5 DEF InitWritesID
<1>6. CASE SaveBackend
  BY <1>6 DEF SaveBackend
<1>7. CASE Up
  BY <1>7 DEF Up
<1>8. CASE UpK3d
  BY <1>8 DEF UpK3d
<1>9. CASE UpK3sRunning
  BY <1>9 DEF UpK3sRunning
<1>10. CASE UpK3sStarts
  BY <1>10 DEF UpK3sStarts
<1>11. CASE RecordK3sPid
  BY <1>11 DEF RecordK3sPid
<1>12. CASE WriteKubeconfig
  BY <1>12 DEF WriteKubeconfig
<1>13. CASE SyncDefaults
  <2>1. sid \in StackIDs /\ scmd'.pc = "synced" /\ UNCHANGED <<sid, backend, cids, built>>
    BY <1>13 DEF SyncDefaults
  <2>2. CASE LoadBackend = "k3d" /\ k3d[sid].st # "none" /\ ~ImportCacheHit
    <3>1. /\ k3d' = [k3d EXCEPT ![sid] = [k3d[sid] EXCEPT !.img = built]]
          /\ imported' = [imported EXCEPT ![sid] = [dig |-> built, cid |-> k3d[sid].cid]]
      BY <1>13, <2>2 DEF SyncDefaults
    <3>2. /\ k3d'[sid] = [k3d[sid] EXCEPT !.img = built] /\ imported'[sid] = [dig |-> built, cid |-> k3d[sid].cid]
          /\ \A i \in StackIDs : i # sid => k3d'[i] = k3d[i] /\ imported'[i] = imported[i]
      BY <2>1, <3>1
    <3>3. k3d'[sid].img = built /\ k3d'[sid].cid = k3d[sid].cid /\ k3d'[sid].st = k3d[sid].st
      BY <2>1, <3>2
    <3>4. imported'[sid].dig = built /\ imported'[sid].cid = k3d[sid].cid
      BY <3>2
    <3>5. \A i \in StackIDs :
            /\ imported'[i].cid <= cids /\ k3d'[i].cid <= cids
            /\ k3d'[i].st # "none" => k3d'[i].cid # 0
            /\ k3d'[i].st # "none" /\ imported'[i].cid = k3d'[i].cid => k3d'[i].img = imported'[i].dig
      <4> TAKE i \in StackIDs
      <4>1. CASE i = sid
        BY <2>1, <3>3, <3>4, <4>1
      <4>2. CASE i # sid
        BY <3>2, <4>2
      <4> QED BY <4>1, <4>2
    <3> QED BY <2>1, <3>3, <3>5
  <2>3. CASE ~(LoadBackend = "k3d" /\ k3d[sid].st # "none" /\ ~ImportCacheHit)
    <3>1. UNCHANGED <<k3d, imported>>
      BY <1>13, <2>3 DEF SyncDefaults
    <3> QED BY <2>1, <2>3, <3>1 DEF ImportCacheHit
  <2> QED BY <2>2, <2>3
<1>14. CASE UpEnds
  BY <1>14 DEF UpEnds
<1>15. CASE Down
  BY <1>15 DEF Down
<1>16. CASE StopK3d
  <2>1. \A i \in StackIDs : /\ k3d'[i].st # "none" => k3d[i].st # "none"
                            /\ k3d'[i].cid = k3d[i].cid /\ k3d'[i].img = k3d[i].img
    <3>1. k3d' = k3d \/ k3d' = [k3d EXCEPT ![sid].st = IF @ = "none" THEN "none" ELSE "stopped"]
      BY <1>16 DEF StopK3d
    <3> QED BY <3>1, SMTT(30)
  <2>2. UNCHANGED <<sid, backend, cids, imported, built>>
    BY <1>16 DEF StopK3d
  <2> QED BY <1>16, <2>1, <2>2, StopReads
<1>17. CASE Purge
  BY <1>17 DEF Purge
<1>18. CASE Destroy
  <2>1. \A i \in StackIDs : k3d'[i] = k3d[i] \/ k3d'[i] = NoStackCluster
    BY <1>18 DEF Destroy
  <2>2. UNCHANGED <<cids, imported>>
    BY <1>18 DEF Destroy
  <2> QED BY <1>18, <2>1, <2>2, DestroyReads
<1>19. CASE K3sDownChecks
  BY <1>19 DEF K3sDownChecks
<1>20. CASE K3sSignal
  BY <1>20 DEF K3sSignal
<1>21. CASE K3sKillall
  BY <1>21 DEF K3sKillall
<1>22. CASE PurgeRemoves
  BY <1>22 DEF PurgeRemoves
<1>23. CASE StackCrash
  BY <1>23 DEF StackCrash
<1>24. CASE ProcessExits
  BY <1>24 DEF ProcessExits
<1>25. CASE Reboot
  BY <1>25 DEF Reboot
<1>26. CASE OfferGoesLive
  <2>1. \A i \in StackIDs : /\ k3d'[i].st # "none" => k3d[i].st # "none"
                            /\ k3d'[i].cid = k3d[i].cid /\ k3d'[i].img = k3d[i].img
    <3>1. k3d' = k3d \/ \E i \in StackIDs : k3d' = [k3d EXCEPT ![i] = [k3d[i] EXCEPT !.offers = TRUE]]
      BY <1>26 DEF OfferGoesLive
    <3> QED BY <3>1
  <2>2. UNCHANGED <<sid, backend, scmd, cids, imported, built>>
    BY <1>26 DEF OfferGoesLive
  <2> QED BY <2>1, <2>2
<1>27. CASE Rebuild
  BY <1>27 DEF Rebuild
<1> QED
  BY <1>0, <1>1, <1>2, <1>3, <1>4, <1>5, <1>6, <1>7, <1>8, <1>9, <1>10, <1>11, <1>12, <1>13,
     <1>14, <1>15, <1>16, <1>17, <1>18, <1>19, <1>20, <1>21, <1>22, <1>23, <1>24, <1>25, <1>26, <1>27 DEF
          StackNext

LEMMA HarmStep ==
    ASSUME StackTypeOK, CommandFits, harm = {}, [StackNext]_stackVars
    PROVE  harm' = {}
<1>1. CASE Destroy
  BY <1>1 DEF Destroy, CommandFits
<1>2. CASE K3sSignal
  BY <1>2 DEF K3sSignal, CommandFits
<1>3. CASE harm' = harm
  BY <1>3
<1> QED
  BY <1>1, <1>2, <1>3 DEF StackNext, InitStack, DestroyOldBackendIfSwitching,
       CleanupStaleBackendConfigs, InitConfig, InitWritesID, SaveBackend, Up, UpK3d, UpK3sRunning,
       UpK3sStarts, RecordK3sPid, WriteKubeconfig, SyncDefaults, UpEnds, Down, StopK3d, Purge,
       K3sDownChecks, K3sKillall, PurgeRemoves, StackCrash, ProcessExits, Reboot, OfferGoesLive, Rebuild

LEMMA StackInitially ==
    ASSUME StackInit
    PROVE  StackIInv
<1> USE StackMarks DEF StackInit, SIdle, NoStackCluster, LoadBackend, Server
<1>1. StackTypeOK
  <2>1. scmd \in StackCommands
    BY DEF StackCommands
  <2>2. k3d \in [StackIDs -> StackClusters] /\ proc \in [Pids -> Processes \cup {None}]
    <3>1. NoStackCluster \in StackClusters
      BY ClusterEdits
    <3> QED BY <3>1, Zenon
  <2>3. imported \in [StackIDs -> [dig : Nat, cid : Nat]]
    OBVIOUS
  <2>4. {built, clock, cids, sfaults, scmds} \subseteq Nat
    OBVIOUS
  <2>6. k3sOffers \in BOOLEAN
    BY Zenon
  <2>5. sid \in StackIDs \cup {None} /\ backend \in {None, "k3d", "k3s"} /\ pidRec \in PidRecords \cup {None}
        /\ kubeconf \in StackIDs \cup {Server, None}
    OBVIOUS
  <2> QED BY <2>1, <2>2, <2>3, <2>4, <2>5, <2>6 DEF StackTypeOK
<1>2. CommandFits
  BY DEF CommandFits
<1>3. ClustersKept
  BY DEF ClustersKept
<1>4. ServersKept
  BY DEF ServersKept, NoServer, Ours
<1>5. ImagesKept
  BY DEF ImagesKept, SyncedClusterHasImage
<1> QED BY <1>1, <1>2, <1>3, <1>4, <1>5 DEF StackIInv

LEMMA StackInvHolds ==
    ASSUME StackIInv
    PROVE  StackInv
<1> USE StackMarks DEF StackIInv
<1>1. ClusterIsAddressable
  BY DEF ClusterIsAddressable, ClustersKept, ServersKept, NoServer, Recorded, SIdle
<1> QED BY <1>1 DEF StackInv, DestroyedOnlyByConsent, SignalledWasOurs, ImagesKept

(***************************************************************************)
(* For any number of commands, failures, crashes, exits and reboots over   *)
(* both backends: a cluster with live offers is destroyed only by consent, *)
(* only our own server is signalled, what runs can be addressed, and a     *)
(* synced cluster has the image (stack.go, backend_k3d.go, backend_k3s.go).*)
(***************************************************************************)
THEOREM StackHolds == StackSpec => []StackInv
<1>1. StackInit => StackIInv
  BY StackInitially
<1>2. StackIInv /\ [StackNext]_stackVars => StackIInv'
  <2>1. SUFFICES ASSUME StackIInv, [StackNext]_stackVars PROVE StackIInv'
    OBVIOUS
  <2>2. StackTypeOK'
    BY <2>1, StackTypeStep DEF StackIInv
  <2>3. CommandFits' /\ ClustersKept' /\ ServersKept' /\ ImagesKept' /\ harm' = {}
    BY <2>1, <2>2, CommandFitsStep, ClustersStep, ServersStep, ImagesStep, HarmStep, Zenon DEF StackIInv
  <2> QED BY <2>2, <2>3 DEF StackIInv
<1>3. StackIInv => StackInv
  BY StackInvHolds
<1> QED BY <1>1, <1>2, <1>3, PTL DEF StackSpec
-----------------------------------------------------------------------------
(* The defaults tree: its inductive invariant *)

Refreshing == tcmd.pc \in {"files", "stamp"}
NewDefault == Default(binary, tcmd.dig)

\* What obol lists or sets aside has no hand edit in it, so that a file with one
\* is always told apart.
NoEdit(t) == \A f \in TreeFiles : t[f] # Absent => t[f].edit = 0

EditsKept ==
    /\ HandEditsSurvive
    /\ (listed # Absent => NoEdit(listed)) /\ NoEdit(waiting)
    /\ tarball # Absent => tarball.listed # Absent /\ NoEdit(tarball.listed) /\ NoEdit(tarball.waiting)
    /\ tarball # Absent => \A f \in TreeFiles : tarball.disk[f] # Absent => tarball.disk[f].edit \in 0..tedits
    /\ stamp # 0 => listed # Absent
    /\ tcmd.pc = "stamp" => listed # Absent
    /\ tcmd.pc = "restore" => tarball # Absent /\ \A f \in TreeFiles : disk[f] = Absent
    /\ tcmd.pc = "record" => disk[Helmfile] # Absent /\ tcmd.before # Absent /\ tcmd.before.edit = disk[Helmfile].edit
                             /\ tcmd.before.rel = disk[Helmfile].rel /\ tcmd.before.dig = disk[Helmfile].dig

\* Every digest in a file, an archive or under way is the one its release was
\* first bound to, and the pins of the registry's tags say so.
Bound(t) == \A f \in TreeFiles : t[f] # Absent /\ t[f].dig # 0 => t[f].dig = bound[t[f].rel]

PinsKept ==
    /\ Bound(disk) /\ Bound(waiting)
    /\ tarball # Absent => Bound(tarball.disk) /\ Bound(tarball.waiting)
    /\ IF pins = Absent THEN \A r \in Releases : bound[r] = 0 ELSE pins = bound
    /\ Refreshing /\ tcmd.dig # 0 => tcmd.dig = bound[binary]

\* A file without a hand edit is what obol listed, or what a refresh that was
\* cut left: a file that looks edited and is not comes from no other refresh.
Told(t, l, f) == (t[f] # Absent /\ t[f].edit = 0) => (l # Absent /\ t[f] = l[f]) \/ t[f].rel \in cut

Renewed(f) == f \in Shipped[binary] \ tcmd.left /\ disk[f] = NewDefault

ToldKept ==
    /\ \A f \in TreeFiles :
         \/ Told(disk, listed, f)
         \/ tcmd.pc = "files" /\ Renewed(f)
         \/ tcmd.pc = "record" /\ f = Helmfile /\ listed # Absent /\ listed[f] = tcmd.before
    /\ tcmd.pc = "record" => \/ disk[Helmfile].edit # 0 \/ disk[Helmfile].rel \in cut
                             \/ listed # Absent /\ listed[Helmfile] = tcmd.before
    /\ tcmd.pc = "files" => \A f \in TreeFiles \ tcmd.left :
                               disk[f] # Absent /\ disk[f].edit = 0 => disk[f].rel \in cut \/ Renewed(f)
    /\ tarball # Absent => \A f \in TreeFiles : Told(tarball.disk, tarball.listed, f)

\* The file of a release: there, and of that release unless it was edited; the
\* tree of a release, and its manifest.
Fits(c, r) == c # Absent /\ (c.edit = 0 => c.rel = r)
Whole(t, r) == cut \subseteq {r} => \A f \in Shipped[r] : Fits(t[f], r)
Of(l, r) == \A f \in TreeFiles : l[f] # Absent => l[f].rel = r

WholeKept ==
    /\ tcmd.pc = "stamp" => tcmd.left = {} /\ Of(listed, binary)
    /\ Refreshing /\ cut \subseteq {binary} => \A f \in Shipped[binary] \ tcmd.left : Fits(disk[f], binary)
    /\ stamp # 0 /\ (Refreshing => stamp = binary) => Whole(disk, stamp)
    /\ stamp # 0 /\ tcmd.pc # "stamp" /\ cut \subseteq {stamp} => Of(listed, stamp)
    /\ tarball # Absent /\ tarball.stamp # 0 =>
         Whole(tarball.disk, tarball.stamp) /\ (cut \subseteq {tarball.stamp} => Of(tarball.listed, tarball.stamp))

\* A default that waits is the one listed, or one of a refresh that was cut; a
\* refresh leaves none for a file it wrote.
WaitingKept ==
    /\ \A f \in TreeFiles : Told(waiting, listed, f) \/ (tcmd.pc = "files" /\ f \in tcmd.keep)
    /\ tarball # Absent => \A f \in TreeFiles : Told(tarball.waiting, tarball.listed, f)
    /\ tcmd.pc = "files" =>
         \A f \in tcmd.keep : waiting[f] = NewDefault /\ f \in Shipped[binary] \ tcmd.left /\ disk[f] # NewDefault
    /\ tcmd.pc \in {"stamp", "bump"} /\ listed # Absent => \A f \in TreeFiles : waiting[f] # Absent => disk[f] # listed[f]
    /\ tcmd.pc = "record" /\ listed # Absent /\ listed[Helmfile] = tcmd.before => waiting[Helmfile] = Absent

\* The default of an edited file that is behind waits.
Pending(t, l, w) ==
    \A f \in TreeFiles : t[f] # Absent /\ l[f] # Absent /\ t[f].edit # 0 /\ t[f].rel # l[f].rel => w[f] # Absent

PendingKept ==
    /\ listed # Absent /\ cut = {} => Pending(disk, listed, waiting)
    /\ tarball # Absent /\ cut = {} => Pending(tarball.disk, tarball.listed, tarball.waiting)
    /\ tcmd.pc = "files" /\ cut = {} =>
         \A f \in Shipped[binary] \ tcmd.left :
             disk[f] # Absent /\ disk[f].edit # 0 /\ disk[f].rel # binary => f \in tcmd.keep

TreeIInv == TreeTypeOK /\ EditsKept /\ PinsKept /\ ToldKept /\ WholeKept /\ WaitingKept /\ PendingKept
-----------------------------------------------------------------------------
(* The defaults tree: values, and what the steps of a command leave *)

USE DEF treeVars, treeWorld, treeCluster

LEMMA TreeMarks ==
    /\ Absent \notin TreeContents /\ Absent \notin Trees /\ Absent \notin Tarballs /\ Absent \notin [Releases -> 0..2]
    /\ Helmfile \in TreeFiles /\ Releases \subseteq Nat \ {0}
    /\ \A r \in Releases : Shipped[r] \subseteq TreeFiles
BY TreeAssumption DEF Tarballs

LEMMA Defaults ==
    ASSUME NEW r \in Releases, NEW d \in 0..2
    PROVE  /\ Default(r, d) \in TreeContents /\ Default(r, d) # Absent
           /\ Default(r, d).edit = 0 /\ Default(r, d).rel = r /\ Default(r, d).dig = d
BY TreeMarks DEF Default, TreeContents

LEMMA CommandsAt ==
    /\ TIdle \in TreeCommands /\ TIdle.pc = "idle"
    /\ \A p \in {"idle", "bump", "sync", "restore"} : TAt(p) \in TreeCommands /\ TAt(p).pc = p
    /\ \A b \in TreeContents :
         /\ [TAt("record") EXCEPT !.before = b] \in TreeCommands
         /\ [TAt("record") EXCEPT !.before = b].pc = "record" /\ [TAt("record") EXCEPT !.before = b].before = b
<1>1. TIdle \in TreeCommands /\ TIdle.pc = "idle"
  BY DEF TIdle, TreeCommands
<1>2. ASSUME NEW p \in {"idle", "bump", "sync", "restore"}
      PROVE  TAt(p) \in TreeCommands /\ TAt(p).pc = p
  BY <1>1 DEF TAt, TreeCommands
<1>3. ASSUME NEW b \in TreeContents
      PROVE  /\ [TAt("record") EXCEPT !.before = b] \in TreeCommands
             /\ [TAt("record") EXCEPT !.before = b].pc = "record" /\ [TAt("record") EXCEPT !.before = b].before = b
  <2>1. TAt("record") \in TreeCommands /\ TAt("record").pc = "record"
    BY <1>1 DEF TAt, TreeCommands
  <2> QED BY <2>1 DEF TreeCommands
<1> QED BY <1>1, <1>2, <1>3

LEMMA BeginsReads ==
    ASSUME TreeTypeOK, RefreshBegins
    PROVE  /\ tcmd = TIdle /\ tcmd' \in TreeCommands /\ tcmds' \in Nat
           /\ tcmd'.pc = "files" /\ tcmd'.left = TreeFiles /\ tcmd'.keep = {}
           /\ tcmd'.dig \in Rendered /\ PersistDigest(tcmd'.dig)
<1>1. PICK m \in RefreshModes, d \in Rendered :
        /\ TBegin([TIdle EXCEPT !.pc = "files", !.reset = m.reset, !.dig = d, !.left = TreeFiles, !.then = m.then])
        /\ PersistDigest(d)
  BY DEF RefreshBegins
<1>2. m.reset \in BOOLEAN /\ m.then \in {"end", "bump", "sync"} /\ d \in 0..2
  <2>1. m = InitMode \/ \E r \in BOOLEAN : m = UpgradeMode(r) \/ m = UpMode(r)
    BY DEF RefreshModes
  <2>2. ASSUME NEW r \in BOOLEAN
        PROVE  /\ UpgradeMode(r).reset \in BOOLEAN /\ UpgradeMode(r).then = "bump"
               /\ UpMode(r).reset \in BOOLEAN /\ UpMode(r).then = "sync"
    BY DEF UpgradeMode, UpMode
  <2>3. InitMode.reset \in BOOLEAN /\ InitMode.then = "end"
    BY DEF InitMode
  <2>4. m.reset \in BOOLEAN /\ m.then \in {"end", "bump", "sync"}
    <3>1. CASE m = InitMode
      BY <2>3, <3>1, Zenon
    <3>2. CASE \E r \in BOOLEAN : m = UpgradeMode(r) \/ m = UpMode(r)
      <4>1. PICK r \in BOOLEAN : m = UpgradeMode(r) \/ m = UpMode(r)
        BY <3>2
      <4> QED BY <2>2, <4>1
    <3> QED BY <2>1, <3>1, <3>2
  <2>5. d \in 0..2
    BY DEF Rendered
  <2> QED BY <2>4, <2>5
<1>3. tcmd' = [pc |-> "files", reset |-> m.reset, dig |-> d, left |-> TreeFiles, keep |-> {}, then |-> m.then,
               before |-> Absent]
  BY <1>1 DEF TBegin, TIdle
<1>4. tcmd' \in TreeCommands
  BY <1>2, <1>3 DEF TreeCommands
<1>5. tcmd'.pc = "files" /\ tcmd'.left = TreeFiles /\ tcmd'.keep = {} /\ tcmd'.dig = d
  BY <1>3
<1> QED BY <1>1, <1>4, <1>5 DEF TBegin, TreeTypeOK

\* The file the release ships is left alone, its default set aside or not, or
\* overwritten, with a copy if it was edited.
KeptFile(f) == disk[f] # Absent /\ disk[f] # NewDefault /\ Edited(f) /\ ~tcmd.reset /\ listed # Absent

Advances(f) ==
    /\ tcmd.pc = "files" /\ tcmd'.pc = "files" /\ tcmd'.dig = tcmd.dig /\ tcmd'.left = tcmd.left \ {f}
    /\ tcmd' \in TreeCommands
    /\ UNCHANGED <<listed, stamp, pins, bound, tarball, tfaults, tcmds, cut, treeCluster, treeWorld>>

Overwritten(f) ==
    /\ ~KeptFile(f) /\ disk' = [disk EXCEPT ![f] = NewDefault]
    /\ saved \subseteq saved' /\ saved' \subseteq saved \cup ({disk[f]} \ {Absent})
    /\ disk[f] \notin {Absent, NewDefault} /\ Edited(f) => disk[f] \in saved'
    /\ UNCHANGED waiting /\ tcmd'.keep = tcmd.keep

SetAside(f) ==
    /\ KeptFile(f) /\ UNCHANGED <<disk, saved>>
    /\ waiting' = [waiting EXCEPT ![f] = NewDefault] /\ tcmd'.keep = tcmd.keep \cup {f}

LeftAlone(f) ==
    /\ KeptFile(f) /\ ~NewerDefault(f, NewDefault)
    /\ UNCHANGED <<disk, saved, waiting>> /\ tcmd'.keep = tcmd.keep

\* A file no longer shipped stays or goes.
Stays(f) ==
    /\ listed = Absent \/ listed[f] = Absent \/ disk[f] = Absent \/ Edited(f)
    /\ UNCHANGED <<disk, saved, waiting>> /\ tcmd'.keep = tcmd.keep

Goes(f) ==
    /\ disk[f] # Absent /\ disk' = [disk EXCEPT ![f] = Absent]
    /\ saved \subseteq saved' /\ saved' \subseteq saved \cup {disk[f]} /\ (Edited(f) => disk[f] \in saved')
    /\ UNCHANGED waiting /\ tcmd'.keep = tcmd.keep

LEMMA StepReads ==
    ASSUME TreeTypeOK, RefreshStep
    PROVE  \E f \in tcmd.left :
             /\ f \in TreeFiles /\ Advances(f)
             /\ \/ f \in Shipped[binary] /\ (Overwritten(f) \/ SetAside(f) \/ LeftAlone(f))
                \/ f \notin Shipped[binary] /\ (Stays(f) \/ Goes(f))
<1>1. PICK f \in tcmd.left : RefreshFile(f) \/ RefreshGone(f)
  BY DEF RefreshStep
<1>2. f \in TreeFiles /\ tcmd.pc = "files" /\ tcmd \in TreeCommands
  BY DEF RefreshStep, TreeTypeOK, TreeCommands
<1>3. UNCHANGED <<listed, stamp, pins, bound, tarball, tfaults, tcmds, cut, treeCluster, treeWorld>>
  BY DEF RefreshStep
<1>4. CASE RefreshFile(f)
  <2>1. f \in Shipped[binary]
    BY <1>4 DEF RefreshFile
  <2>2. PICK k \in SUBSET TreeFiles :
          /\ tcmd' = [tcmd EXCEPT !.left = @ \ {f}, !.keep = k]
          /\ k = IF KeptFile(f) /\ NewerDefault(f, NewDefault) THEN tcmd.keep \cup {f} ELSE tcmd.keep
    <3>1. tcmd.keep \cup {f} \in SUBSET TreeFiles /\ tcmd.keep \in SUBSET TreeFiles
      BY <1>2 DEF TreeCommands
    <3>2. tcmd' = [tcmd EXCEPT !.left = @ \ {f},
                               !.keep = IF KeptFile(f) /\ NewerDefault(f, NewDefault) THEN @ \cup {f} ELSE @]
      BY <1>4 DEF RefreshFile, KeptFile, NewDefault
    <3> QED BY <1>2, <3>1, <3>2 DEF TreeCommands
  <2>3. /\ tcmd'.pc = "files" /\ tcmd'.dig = tcmd.dig /\ tcmd'.left = tcmd.left \ {f} /\ tcmd'.keep = k
        /\ tcmd' \in TreeCommands
    BY <1>2, <2>2 DEF TreeCommands
  <2>4. CASE KeptFile(f)
    <3>1. disk' = disk /\ saved' = saved
      BY <1>4, <2>4 DEF RefreshFile, KeptFile, NewDefault
    <3>2. waiting' = IF NewerDefault(f, NewDefault) THEN [waiting EXCEPT ![f] = NewDefault] ELSE waiting
      BY <1>4, <2>4 DEF RefreshFile, KeptFile, NewDefault
    <3> QED BY <1>2, <1>3, <2>1, <2>2, <2>3, <2>4, <3>1, <3>2 DEF Advances, SetAside, LeftAlone
  <2>5. CASE ~KeptFile(f)
    <3>1. /\ disk' = [disk EXCEPT ![f] = NewDefault] /\ waiting' = waiting
          /\ saved' = IF disk[f] \notin {Absent, NewDefault} /\ Edited(f) THEN saved \cup {disk[f]} ELSE saved
      BY <1>4, <2>5 DEF RefreshFile, KeptFile, NewDefault
    <3> QED BY <1>2, <1>3, <2>1, <2>2, <2>3, <2>5, <3>1 DEF Advances, Overwritten
  <2> QED BY <2>4, <2>5
<1>5. CASE RefreshGone(f)
  <2>1. f \notin Shipped[binary] /\ waiting' = waiting /\ tcmd' = [tcmd EXCEPT !.left = @ \ {f}]
    BY <1>5 DEF RefreshGone
  <2>2. /\ tcmd'.pc = "files" /\ tcmd'.dig = tcmd.dig /\ tcmd'.left = tcmd.left \ {f} /\ tcmd'.keep = tcmd.keep
        /\ tcmd' \in TreeCommands
    BY <1>2, <2>1 DEF TreeCommands
  <2>3. Stays(f) \/ Goes(f)
    BY <1>5, <2>1, <2>2 DEF RefreshGone, Stays, Goes
  <2> QED BY <1>2, <1>3, <2>1, <2>2, <2>3 DEF Advances
<1> QED BY <1>1, <1>4, <1>5

LEMMA ManifestReads ==
    ASSUME TreeTypeOK, RefreshManifest
    PROVE  /\ tcmd.pc = "files" /\ tcmd.left = {} /\ tcmd' \in TreeCommands
           /\ tcmd'.pc = "stamp" /\ tcmd'.dig = tcmd.dig /\ tcmd'.left = {} /\ tcmd'.keep = tcmd.keep
BY DEF RefreshManifest, TreeTypeOK, TreeCommands

LEMMA EndsReads ==
    ASSUME TreeTypeOK, RefreshEnds
    PROVE  tcmd' \in TreeCommands /\ tcmd'.pc \in {"idle", "bump", "sync"}
<1>1. tcmd.then \in {"end", "bump", "sync"}
  BY DEF TreeTypeOK, TreeCommands
<1> QED BY <1>1, CommandsAt DEF RefreshEnds

LEMMA FileWrites ==
    ASSUME NEW t \in Trees, NEW f \in TreeFiles, NEW c \in TreeContents \cup {Absent}
    PROVE  [t EXCEPT ![f] = c] \in Trees
BY DEF Trees

LEMMA FileReads ==
    ASSUME TreeTypeOK, NEW f \in TreeFiles
    PROVE  /\ disk[f] \in TreeContents \cup {Absent} /\ waiting[f] \in TreeContents \cup {Absent}
           /\ listed # Absent => listed[f] \in TreeContents \cup {Absent}
           /\ disk[f] # Absent => disk[f] \in Contents
BY DEF TreeTypeOK, Trees, Contents

LEMMA ContentEdits ==
    ASSUME NEW c \in TreeContents
    PROVE  /\ [c EXCEPT !.bump = 1] \in TreeContents /\ [c EXCEPT !.bump = 1].edit = c.edit
           /\ [c EXCEPT !.bump = 1].rel = c.rel /\ [c EXCEPT !.bump = 1].dig = c.dig
           /\ \A n \in Nat : /\ [c EXCEPT !.edit = n] \in TreeContents /\ [c EXCEPT !.edit = n].edit = n
                             /\ [c EXCEPT !.edit = n].rel = c.rel /\ [c EXCEPT !.edit = n].dig = c.dig
BY DEF TreeContents

-----------------------------------------------------------------------------
(* The defaults tree: types *)

LEMMA FaultTyped ==
    ASSUME TreeTypeOK, TFault
    PROVE  tfaults' \in Nat
BY DEF TreeTypeOK, TFault

LEMMA BeginTyped ==
    ASSUME TreeTypeOK, NEW c, TBegin(c)
    PROVE  tcmds' \in Nat /\ tcmd' = c /\ tcmd = TIdle /\ tcmd.pc = "idle"
BY CommandsAt DEF TreeTypeOK, TBegin

LEMMA PinsTyped ==
    ASSUME TreeTypeOK, NEW d \in 0..2, PersistDigest(d)
    PROVE  pins' \in [Releases -> 0..2] \cup {Absent} /\ bound' \in [Releases -> 0..2]
<1>1. pins' \in [Releases -> 0..2] \cup {Absent}
  BY DEF PersistDigest, TreeTypeOK
<1>2. bound' \in [Releases -> 0..2]
  BY DEF PersistDigest, TreeTypeOK
<1> QED BY <1>1, <1>2

LEMMA ContentsBounded ==
    ASSUME NEW n, \A f \in TreeFiles : disk[f] # Absent => disk[f].edit \in 0..n,
           \A c \in saved : c.edit \in 0..n
    PROVE  \A c \in Contents \cup saved : c.edit \in 0..n
BY DEF Contents

LEMMA TreeTypeStep ==
    ASSUME TreeTypeOK, EditsKept, TreeNext
    PROVE  TreeTypeOK'
<1> USE TreeMarks
<1>1. CASE RefreshBegins
  <2>1. tcmd' \in TreeCommands /\ tcmds' \in Nat /\ tcmd'.dig \in 0..2 /\ PersistDigest(tcmd'.dig)
    BY <1>1, BeginsReads DEF Rendered
  <2>2. pins' \in [Releases -> 0..2] \cup {Absent} /\ bound' \in [Releases -> 0..2]
    BY <2>1, PinsTyped
  <2> QED BY <1>1, <2>1, <2>2 DEF TreeTypeOK, RefreshBegins, Contents
<1>2. CASE RefreshSkipped
  <2>1. tcmds' \in Nat /\ tcmd' \in TreeCommands
    BY <1>2, CommandsAt, BeginTyped DEF RefreshSkipped
  <2>2. waiting' \in Trees
    BY <1>2 DEF TreeTypeOK, RefreshSkipped, Trees
  <2> QED BY <1>2, <2>1, <2>2 DEF TreeTypeOK, RefreshSkipped, Contents
<1>3. CASE RefreshStep
  <2>1. PICK f \in TreeFiles :
          Advances(f) /\ (Overwritten(f) \/ SetAside(f) \/ LeftAlone(f) \/ Stays(f) \/ Goes(f))
    BY <1>3, StepReads
  <2>2. NewDefault \in TreeContents /\ NewDefault.edit = 0 /\ NewDefault # Absent
    BY Defaults DEF NewDefault, TreeTypeOK, TreeCommands
  <2>3. disk' \in Trees /\ waiting' \in Trees
    BY <2>1, <2>2, FileWrites DEF TreeTypeOK, Overwritten, SetAside, LeftAlone, Stays, Goes
  <2>4. saved' \subseteq saved \cup ({disk[f]} \ {Absent})
    BY <2>1 DEF Overwritten, SetAside, LeftAlone, Stays, Goes
  <2>5. disk[f] \in TreeContents \cup {Absent} /\ (disk[f] # Absent => disk[f].edit \in 0..tedits)
    BY FileReads DEF TreeTypeOK
  <2>6. tedits' = tedits
    BY <2>1 DEF Advances
  <2>7. \A c \in saved' : c.edit \in 0..tedits'
    BY <2>4, <2>5, <2>6 DEF TreeTypeOK
  <2>8. ASSUME NEW g \in TreeFiles, disk'[g] # Absent
        PROVE  disk'[g].edit \in 0..tedits'
    <3>1. disk[g] # Absent => disk[g].edit \in 0..tedits
      BY FileReads DEF TreeTypeOK
    <3>2. disk'[g] = disk[g] \/ disk'[g] = NewDefault
      BY <2>1, <2>8 DEF Overwritten, SetAside, LeftAlone, Stays, Goes, TreeTypeOK, Trees
    <3>3. tedits \in Nat
      BY DEF TreeTypeOK
    <3> QED BY <2>2, <2>6, <2>8, <3>1, <3>2, <3>3
  <2>9. \A c \in (Contents \cup saved)' : c.edit \in 0..tedits'
    BY <2>7, <2>8 DEF Contents
  <2>10. saved' \subseteq TreeContents
    BY <2>4, <2>5 DEF TreeTypeOK
  <2> QED BY <2>1, <2>3, <2>9, <2>10 DEF TreeTypeOK, Advances
<1>4. CASE RefreshManifest
  <2>1. tcmd' \in TreeCommands
    BY <1>4, ManifestReads
  <2>2. waiting' \in Trees
    BY <1>4 DEF TreeTypeOK, RefreshManifest, Trees
  <2>3. NewDefault \in TreeContents
    BY Defaults DEF NewDefault, TreeTypeOK, TreeCommands
  <2>4. listed' \in Trees
    BY <1>4, <2>3 DEF RefreshManifest, Trees, NewDefault
  <2> QED BY <1>4, <2>1, <2>2, <2>4 DEF TreeTypeOK, RefreshManifest, Contents
<1>5. CASE RefreshStamp
  BY <1>5 DEF TreeTypeOK, RefreshStamp, Contents
<1>6. CASE RefreshEnds
  BY <1>6, EndsReads DEF TreeTypeOK, RefreshEnds, Contents
<1>7. CASE BumpHelmfile
  <2>1. disk[Helmfile] \in TreeContents /\ tcmd' \in TreeCommands
    BY <1>7, FileReads, CommandsAt DEF BumpHelmfile
  <2>2. /\ [disk[Helmfile] EXCEPT !.bump = 1] \in TreeContents
        /\ [disk[Helmfile] EXCEPT !.bump = 1].edit = disk[Helmfile].edit
    BY <2>1, ContentEdits
  <2>3. disk' = [disk EXCEPT ![Helmfile] = [disk[Helmfile] EXCEPT !.bump = 1]]
    BY <1>7 DEF BumpHelmfile
  <2>4. disk' \in Trees
    BY <2>2, <2>3, FileWrites DEF TreeTypeOK
  <2>5. \A g \in TreeFiles : disk'[g] # Absent => disk'[g].edit \in 0..tedits
    BY <2>1, <2>2, <2>3, FileReads DEF TreeTypeOK, Trees
  <2>6. \A c \in (Contents \cup saved)' : c.edit \in 0..tedits'
    BY <1>7, <2>5 DEF Contents, BumpHelmfile, TreeTypeOK
  <2> QED BY <1>7, <2>1, <2>4, <2>6 DEF TreeTypeOK, BumpHelmfile
<1>8. CASE RecordRewrite
  <2>1. tcmd' \in TreeCommands
    BY <1>8, CommandsAt DEF RecordRewrite
  <2>2. disk[Helmfile] \in TreeContents \cup {Absent}
    BY FileReads
  <2>3. listed' \in Trees \cup {Absent}
    BY <1>8, <2>2, FileWrites DEF RecordRewrite, TreeTypeOK
  <2> QED BY <1>8, <2>1, <2>3 DEF TreeTypeOK, RecordRewrite, Contents
<1>9. CASE BumpInstance
  BY <1>9, CommandsAt DEF TreeTypeOK, BumpInstance, Contents
<1>10. CASE BumpSkipped
  BY <1>10, CommandsAt DEF TreeTypeOK, BumpSkipped, Contents
<1>11. CASE SyncTree
  <2>1. disk[Helmfile] \in TreeContents \cup {Absent}
    BY FileReads
  <2> QED BY <1>11, <2>1, CommandsAt DEF TreeTypeOK, SyncTree, Contents
<1>12. CASE TreeCrash
  <2>1. cut' \subseteq Releases
    BY <1>12 DEF TreeTypeOK, TreeCrash
  <2> QED BY <1>12, <2>1, CommandsAt, FaultTyped DEF TreeTypeOK, TreeCrash, Contents
<1>13. CASE ExportTree
  <2>1. tarball' \in Tarballs
    BY <1>13 DEF TreeTypeOK, ExportTree, Tarballs
  <2>2. tcmds' \in Nat /\ tcmd' \in TreeCommands
    BY <1>13, CommandsAt, BeginTyped DEF ExportTree
  <2> QED BY <1>13, <2>1, <2>2 DEF TreeTypeOK, ExportTree, Contents
<1>14. CASE ClearForRestore
  <2>1. tcmds' \in Nat /\ tcmd' \in TreeCommands
    BY <1>14, CommandsAt, BeginTyped DEF ClearForRestore
  <2>2. disk' \in Trees /\ waiting' \in Trees
    BY <1>14 DEF ClearForRestore, Trees
  <2>3. saved' \subseteq saved \cup Contents
    BY <1>14 DEF ClearForRestore
  <2>4. Contents \subseteq TreeContents
    BY FileReads DEF Contents
  <2>5. Contents' = {}
    BY <1>14 DEF ClearForRestore, Contents
  <2> QED BY <1>14, <2>1, <2>2, <2>3, <2>4, <2>5 DEF TreeTypeOK, ClearForRestore
<1>15. CASE RestoreTree
  <2>1. tcmd' \in TreeCommands /\ tarball \in Tarballs
    BY <1>15, CommandsAt DEF RestoreTree, EditsKept, TreeTypeOK
  <2>2. disk' \in Trees /\ waiting' \in Trees /\ listed' \in Trees \cup {Absent} /\ stamp' \in Releases \cup {0}
    BY <1>15, <2>1 DEF RestoreTree, Tarballs
  <2>3. \A f \in TreeFiles : disk'[f] # Absent => disk'[f].edit \in 0..tedits'
    BY <1>15, <2>1 DEF RestoreTree, EditsKept
  <2>4. \A c \in (Contents \cup saved)' : c.edit \in 0..tedits'
    BY <1>15, <2>3 DEF RestoreTree, Contents, TreeTypeOK
  <2> QED BY <1>15, <2>1, <2>2, <2>4 DEF TreeTypeOK, RestoreTree
<1>16. CASE HandEdit
  <2>1. PICK f \in TreeFiles :
          /\ disk[f] # Absent /\ tedits' = tedits + 1 /\ disk' = [disk EXCEPT ![f].edit = tedits + 1]
    BY <1>16 DEF HandEdit
  <2>2. disk[f] \in TreeContents /\ tedits \in Nat
    BY <2>1, FileReads DEF TreeTypeOK
  <2>3. disk' = [disk EXCEPT ![f] = [disk[f] EXCEPT !.edit = tedits + 1]]
    BY <2>1
  <2>4. /\ [disk[f] EXCEPT !.edit = tedits + 1] \in TreeContents
        /\ [disk[f] EXCEPT !.edit = tedits + 1].edit = tedits + 1
    <3>1. tedits + 1 \in Nat
      BY <2>2
    <3> QED BY <2>2, <3>1, ContentEdits
  <2>5. disk' \in Trees
    BY <2>3, <2>4, FileWrites DEF TreeTypeOK
  <2>6. \A g \in TreeFiles : disk'[g] # Absent => disk'[g].edit \in 0..tedits'
    BY <2>1, <2>2, <2>3, <2>4, FileReads DEF TreeTypeOK, Trees
  <2>7. \A c \in saved : c.edit \in 0..tedits'
    BY <2>1, <2>2 DEF TreeTypeOK
  <2>8. \A c \in (Contents \cup saved)' : c.edit \in 0..tedits'
    BY <1>16, <2>6, <2>7 DEF Contents, HandEdit
  <2> QED BY <1>16, <2>1, <2>2, <2>5, <2>8 DEF TreeTypeOK, HandEdit
<1>17. CASE TakePending
  <2>1. PICK f \in TreeFiles :
          /\ waiting[f] # Absent /\ disk[f] # Absent
          /\ disk' = [disk EXCEPT ![f] = waiting[f]] /\ saved' = saved \cup {disk[f]}
    BY <1>17 DEF TakePending
  <2>2. disk[f] \in TreeContents /\ waiting[f] \in TreeContents /\ disk[f].edit \in 0..tedits
    BY <2>1, FileReads DEF TreeTypeOK
  <2>3. waiting[f].edit = 0
    BY <2>1 DEF EditsKept, NoEdit
  <2>4. disk' \in Trees
    BY <2>1, <2>2, FileWrites DEF TreeTypeOK
  <2>5. \A g \in TreeFiles : disk'[g] # Absent => disk'[g].edit \in 0..tedits
    BY <2>1, <2>2, <2>3, FileReads DEF TreeTypeOK, Trees
  <2>6. \A c \in (Contents \cup saved)' : c.edit \in 0..tedits'
    BY <1>17, <2>1, <2>2, <2>5 DEF Contents, TakePending, TreeTypeOK
  <2> QED BY <1>17, <2>1, <2>2, <2>4, <2>6 DEF TreeTypeOK, TakePending
<1>18. CASE NewBinary
  <2>1. tcmds' \in Nat /\ tcmd' \in TreeCommands /\ binary' \in Releases
    BY <1>18, CommandsAt, BeginTyped DEF NewBinary
  <2> QED BY <1>18, <2>1 DEF TreeTypeOK, NewBinary, Contents
<1>19. CASE Retag
  <2>1. served' \in [Releases -> 1..2]
    BY <1>19 DEF TreeTypeOK, Retag
  <2> QED BY <1>19, <2>1, FaultTyped DEF TreeTypeOK, Retag, Contents
<1> QED
  BY <1>1, <1>2, <1>3, <1>4, <1>5, <1>6, <1>7, <1>8, <1>9, <1>10, <1>11, <1>12, <1>13, <1>14, <1>15, <1>16,
     <1>17, <1>18, <1>19 DEF TreeNext

-----------------------------------------------------------------------------
(* The defaults tree: the hand edits *)

\* An edit that leaves the tree is in the tree or a backup after the step.
LEMMA Survive ==
    ASSUME HandEditsSurvive, tedits' = tedits, saved \subseteq saved',
           \A f \in TreeFiles : disk[f] # Absent /\ disk[f].edit # 0 => disk[f] \in (Contents \cup saved)'
    PROVE  HandEditsSurvive'
<1> SUFFICES ASSUME NEW n \in 1..tedits
             PROVE  \E c \in (Contents \cup saved)' : c.edit = n
  BY DEF HandEditsSurvive
<1>1. PICK c \in Contents \cup saved : c.edit = n
  BY DEF HandEditsSurvive
<1>2. n # 0
  OBVIOUS
<1>3. c \in (Contents \cup saved)'
  BY <1>1, <1>2 DEF Contents
<1> QED BY <1>1, <1>3

LEMMA EditsQuiet ==
    ASSUME EditsKept, UNCHANGED <<disk, listed, waiting, saved, stamp, tarball, tedits>>,
           tcmd' = tcmd \/ tcmd'.pc \notin {"stamp", "restore", "record"}
    PROVE  EditsKept'
<1>1. HandEditsSurvive'
  BY DEF EditsKept, HandEditsSurvive, Contents
<1>2. (listed # Absent => NoEdit(listed))' /\ NoEdit(waiting)'
  BY DEF EditsKept, NoEdit
<1>3. /\ (tarball # Absent => tarball.listed # Absent /\ NoEdit(tarball.listed) /\ NoEdit(tarball.waiting))'
      /\ (tarball # Absent => \A f \in TreeFiles : tarball.disk[f] # Absent => tarball.disk[f].edit \in 0..tedits)'
  BY DEF EditsKept, NoEdit
<1> QED BY <1>1, <1>2, <1>3 DEF EditsKept

\* A file with a hand edit is told apart from what obol wrote.
LEMMA EditIsTold ==
    ASSUME TreeTypeOK, EditsKept, NEW f \in TreeFiles, disk[f] # Absent, disk[f].edit # 0
    PROVE  Edited(f) /\ disk[f] # NewDefault
<1>1. NewDefault.edit = 0
  BY Defaults DEF NewDefault, TreeTypeOK, TreeCommands
<1> QED BY <1>1 DEF EditsKept, NoEdit, Edited

LEMMA EditsStep ==
    ASSUME TreeTypeOK, EditsKept, TreeNext
    PROVE  EditsKept'
<1> USE TreeMarks
<1>0. tcmd.pc # "idle" => tcmd # TIdle
  BY CommandsAt
<1>1. CASE RefreshBegins
  BY <1>1, EditsQuiet, BeginsReads DEF RefreshBegins
<1>2. CASE RefreshSkipped
  <2>1. tcmd'.pc = "sync" /\ UNCHANGED <<disk, listed, saved, stamp, tarball, tedits>>
    BY <1>2, CommandsAt, BeginTyped DEF RefreshSkipped
  <2>2. HandEditsSurvive'
    BY <2>1 DEF EditsKept, HandEditsSurvive, Contents
  <2>3. NoEdit(waiting)'
    BY <1>2 DEF RefreshSkipped, EditsKept, NoEdit
  <2> QED BY <2>1, <2>2, <2>3 DEF EditsKept, NoEdit
<1>3. CASE RefreshStep
  <2>1. PICK f \in TreeFiles :
          Advances(f) /\ (Overwritten(f) \/ SetAside(f) \/ LeftAlone(f) \/ Stays(f) \/ Goes(f))
    BY <1>3, StepReads
  <2>2. NewDefault \in TreeContents /\ NewDefault.edit = 0 /\ NewDefault # Absent
    BY Defaults DEF NewDefault, TreeTypeOK, TreeCommands
  <2>3. ASSUME NEW g \in TreeFiles, disk[g] # Absent, disk[g].edit # 0
        PROVE  disk[g] \in (Contents \cup saved)'
    <3>1. Edited(g) /\ disk[g] # NewDefault
      BY <2>3, EditIsTold
    <3>2. disk'[g] = disk[g] \/ disk[g] \in saved'
      BY <2>1, <2>3, <3>1 DEF Overwritten, SetAside, LeftAlone, Stays, Goes, TreeTypeOK, Trees
    <3> QED BY <2>3, <3>2 DEF Contents
  <2>4. saved \subseteq saved' /\ tedits' = tedits /\ UNCHANGED <<listed, tarball, stamp>> /\ tcmd'.pc = "files"
    BY <2>1 DEF Advances, Overwritten, SetAside, LeftAlone, Stays, Goes
  <2>5. HandEditsSurvive'
    BY <2>3, <2>4, Survive DEF EditsKept
  <2>6. NoEdit(waiting)'
    BY <2>1, <2>2 DEF EditsKept, NoEdit, Overwritten, SetAside, LeftAlone, Stays, Goes, TreeTypeOK, Trees
  <2> QED BY <2>4, <2>5, <2>6 DEF EditsKept, NoEdit
<1>4. CASE RefreshManifest
  <2>1. tcmd'.pc = "stamp" /\ UNCHANGED <<disk, saved, stamp, tarball, tedits>>
    BY <1>4, ManifestReads DEF RefreshManifest
  <2>2. NewDefault \in TreeContents /\ NewDefault.edit = 0
    BY Defaults DEF NewDefault, TreeTypeOK, TreeCommands
  <2>3. listed' # Absent /\ NoEdit(listed)' /\ NoEdit(waiting)'
    <3>1. listed' \in Trees
      BY <1>4, <2>2 DEF RefreshManifest, Trees, NewDefault
    <3>2. \A f \in TreeFiles : listed'[f] # Absent => listed'[f] = NewDefault
      BY <1>4 DEF RefreshManifest, NewDefault
    <3>3. \A f \in TreeFiles : waiting'[f] # Absent => waiting'[f] = waiting[f]
      BY <1>4 DEF RefreshManifest
    <3> QED BY <2>2, <3>1, <3>2, <3>3 DEF EditsKept, NoEdit
  <2>4. HandEditsSurvive'
    BY <2>1 DEF EditsKept, HandEditsSurvive, Contents
  <2> QED BY <2>1, <2>3, <2>4 DEF EditsKept, NoEdit
<1>5. CASE RefreshStamp
  <2>1. UNCHANGED <<disk, listed, waiting, saved, tarball, tedits, tcmd>> /\ tcmd.pc = "stamp"
    BY <1>5 DEF RefreshStamp, StampLast
  <2>2. HandEditsSurvive'
    BY <2>1 DEF EditsKept, HandEditsSurvive, Contents
  <2> QED BY <2>1, <2>2 DEF EditsKept, NoEdit
<1>6. CASE RefreshEnds
  BY <1>6, EditsQuiet, EndsReads DEF RefreshEnds
<1>7. CASE BumpHelmfile
  <2>1. disk[Helmfile] \in TreeContents /\ tcmd'.pc = "record" /\ tcmd'.before = disk[Helmfile]
    BY <1>7, FileReads, CommandsAt DEF BumpHelmfile
  <2> DEFINE c == [disk[Helmfile] EXCEPT !.bump = 1]
  <2>2. c \in TreeContents /\ c.edit = disk[Helmfile].edit /\ c.rel = disk[Helmfile].rel /\ c.dig = disk[Helmfile].dig
    BY <2>1, ContentEdits
  <2>3. disk' = [disk EXCEPT ![Helmfile] = c] /\ UNCHANGED <<listed, waiting, saved, stamp, tarball, tedits>>
    BY <1>7 DEF BumpHelmfile
  <2> HIDE DEF c
  <2>4. disk'[Helmfile] = c /\ c # Absent /\ \A g \in TreeFiles \ {Helmfile} : disk'[g] = disk[g]
    BY <2>2, <2>3 DEF TreeTypeOK, Trees
  <2>5. HandEditsSurvive'
    <3> SUFFICES ASSUME NEW n \in 1..tedits
                 PROVE  \E e \in (Contents \cup saved)' : e.edit = n
      BY <2>3 DEF HandEditsSurvive
    <3>1. PICK e \in Contents \cup saved : e.edit = n
      BY DEF EditsKept, HandEditsSurvive
    <3>2. c \in Contents'
      BY <2>4 DEF Contents
    <3>3. e \in (Contents \cup saved)' \/ e = disk[Helmfile]
      BY <2>3, <2>4, <3>1 DEF Contents
    <3> QED BY <2>2, <3>1, <3>2, <3>3
  <2> QED BY <2>1, <2>2, <2>3, <2>4, <2>5 DEF EditsKept, NoEdit
<1>8. CASE RecordRewrite
  <2>1. tcmd'.pc = "sync" /\ UNCHANGED <<disk, waiting, saved, stamp, tarball, tedits>> /\ tcmd.pc = "record"
    BY <1>8, CommandsAt DEF RecordRewrite
  <2>2. disk[Helmfile] \in TreeContents
    BY <2>1, FileReads DEF EditsKept
  <2>3. listed # Absent => listed' # Absent
    <3>1. listed' = listed \/ (listed # Absent /\ listed' = [listed EXCEPT ![Helmfile] = disk[Helmfile]])
      BY <1>8 DEF RecordRewrite
    <3> QED BY <2>2, <3>1, FileWrites DEF TreeTypeOK
  <2>4. listed' # Absent => NoEdit(listed)'
    BY <1>8, <2>1, <2>2, <2>3 DEF EditsKept, NoEdit, RecordRewrite, TreeTypeOK, Trees
  <2>5. HandEditsSurvive'
    BY <2>1 DEF EditsKept, HandEditsSurvive, Contents
  <2> QED BY <2>1, <2>3, <2>4, <2>5 DEF EditsKept, NoEdit
<1>9. CASE BumpInstance
  BY <1>9, EditsQuiet, CommandsAt DEF BumpInstance
<1>10. CASE BumpSkipped
  BY <1>10, EditsQuiet, CommandsAt DEF BumpSkipped
<1>11. CASE SyncTree
  BY <1>11, EditsQuiet, CommandsAt DEF SyncTree
<1>12. CASE TreeCrash
  BY <1>12, EditsQuiet, CommandsAt DEF TreeCrash
<1>13. CASE ExportTree
  <2>1. tcmd'.pc = "idle" /\ UNCHANGED <<disk, listed, waiting, saved, stamp, tedits>> /\ stamp # 0
    BY <1>13, CommandsAt, BeginTyped DEF ExportTree
  <2>2. /\ tarball'.disk = disk /\ tarball'.listed = listed /\ tarball'.waiting = waiting
    BY <1>13 DEF ExportTree
  <2>3. HandEditsSurvive'
    BY <2>1 DEF EditsKept, HandEditsSurvive, Contents
  <2>4. \A f \in TreeFiles : disk[f] # Absent => disk[f].edit \in 0..tedits
    BY FileReads DEF TreeTypeOK
  <2> QED BY <2>1, <2>2, <2>3, <2>4 DEF EditsKept, NoEdit
<1>14. CASE ClearForRestore
  <2>1. tcmd'.pc = "restore" /\ UNCHANGED <<tarball, tedits>> /\ tarball # Absent /\ listed' = Absent /\ stamp' = 0
    BY <1>14, CommandsAt, BeginTyped DEF ClearForRestore
  <2>2. \A f \in TreeFiles : disk'[f] = Absent /\ waiting'[f] = Absent
    BY <1>14 DEF ClearForRestore
  <2>3. ASSUME NEW f \in TreeFiles, disk[f] # Absent, disk[f].edit # 0
        PROVE  disk[f] \in (Contents \cup saved)'
    <3>1. f \in HandEdited
      BY <2>3, EditIsTold DEF HandEdited
    <3> QED BY <1>14, <2>3, <3>1, FileReads DEF ClearForRestore
  <2>4. saved \subseteq saved'
    BY <1>14 DEF ClearForRestore
  <2>5. HandEditsSurvive'
    BY <2>1, <2>3, <2>4, Survive DEF EditsKept
  <2> QED BY <2>1, <2>2, <2>5 DEF EditsKept, NoEdit
<1>15. CASE RestoreTree
  <2>1. tcmd'.pc = "idle" /\ UNCHANGED <<saved, tarball, tedits>> /\ tarball # Absent
    BY <1>15, CommandsAt DEF RestoreTree, EditsKept
  <2>2. \A f \in TreeFiles : disk[f] = Absent
    BY <1>15 DEF RestoreTree, EditsKept
  <2>3. HandEditsSurvive'
    BY <2>1, <2>2, Survive DEF EditsKept
  <2>4. listed' = tarball.listed /\ waiting' = tarball.waiting
    BY <1>15 DEF RestoreTree
  <2> QED BY <2>1, <2>3, <2>4 DEF EditsKept, NoEdit
<1>16. CASE HandEdit
  <2>1. PICK f \in TreeFiles :
          /\ disk[f] # Absent /\ disk[f].edit = 0 /\ tedits' = tedits + 1 /\ disk' = [disk EXCEPT ![f].edit = tedits + 1]
          /\ UNCHANGED <<listed, waiting, saved, stamp, tarball, tcmd>> /\ tcmd = TIdle
    BY <1>16 DEF HandEdit
  <2>2. disk[f] \in TreeContents /\ tedits \in Nat /\ tedits + 1 \in Nat
    BY <2>1, FileReads DEF TreeTypeOK
  <2> DEFINE c == [disk[f] EXCEPT !.edit = tedits + 1]
  <2>3. c \in TreeContents /\ c.edit = tedits + 1
    BY <2>2, ContentEdits
  <2>4. disk' = [disk EXCEPT ![f] = c]
    BY <2>1
  <2> HIDE DEF c
  <2>5. disk'[f] = c /\ c # Absent /\ \A g \in TreeFiles \ {f} : disk'[g] = disk[g]
    BY <2>3, <2>4 DEF TreeTypeOK, Trees
  <2>6. ASSUME NEW n \in 1..tedits'
        PROVE  \E e \in (Contents \cup saved)' : e.edit = n
    <3>1. CASE n = tedits + 1
      BY <2>3, <2>5, <3>1 DEF Contents
    <3>2. CASE n # tedits + 1
      <4>1. n \in 1..tedits /\ n # 0
        BY <2>1, <2>2, <2>6, <3>2
      <4>2. PICK e \in Contents \cup saved : e.edit = n
        BY <4>1 DEF EditsKept, HandEditsSurvive
      <4>3. e # disk[f]
        BY <2>1, <4>1, <4>2
      <4>4. e \in (Contents \cup saved)'
        BY <2>1, <2>5, <4>2, <4>3 DEF Contents
      <4> QED BY <4>2, <4>4
    <3> QED BY <3>1, <3>2
  <2>7. HandEditsSurvive'
    BY <2>6 DEF HandEditsSurvive
  <2>8. tarball # Absent => \A g \in TreeFiles : tarball.disk[g] # Absent => tarball.disk[g].edit \in 0..tedits'
    BY <2>1, <2>2 DEF EditsKept
  <2> QED BY <2>1, <2>7, <2>8, CommandsAt DEF EditsKept, NoEdit
<1>17. CASE TakePending
  <2>1. PICK f \in TreeFiles :
          /\ waiting[f] # Absent /\ disk[f] # Absent
          /\ disk' = [disk EXCEPT ![f] = waiting[f]] /\ saved' = saved \cup {disk[f]}
          /\ UNCHANGED <<listed, waiting, stamp, tarball, tcmd, tedits>> /\ tcmd = TIdle
    BY <1>17 DEF TakePending
  <2>2. ASSUME NEW g \in TreeFiles, disk[g] # Absent, disk[g].edit # 0
        PROVE  disk[g] \in (Contents \cup saved)'
    <3>1. g = f \/ disk'[g] = disk[g]
      BY <2>1 DEF TreeTypeOK, Trees
    <3> QED BY <2>1, <2>2, <3>1 DEF Contents
  <2>3. HandEditsSurvive'
    BY <2>1, <2>2, Survive DEF EditsKept
  <2> QED BY <2>1, <2>3, CommandsAt DEF EditsKept, NoEdit
<1>18. CASE NewBinary
  BY <1>18, EditsQuiet, CommandsAt, BeginTyped DEF NewBinary
<1>19. CASE Retag
  BY <1>19, EditsQuiet DEF Retag
<1> QED
  BY <1>1, <1>2, <1>3, <1>4, <1>5, <1>6, <1>7, <1>8, <1>9, <1>10, <1>11, <1>12, <1>13, <1>14, <1>15, <1>16,
     <1>17, <1>18, <1>19 DEF TreeNext

-----------------------------------------------------------------------------
(* The defaults tree: the image pins *)

\* No refresh is under way after the step, or the same one goes on.
GoesOn == (tcmd'.pc \notin {"files", "stamp"}) \/ (Refreshing /\ tcmd'.dig = tcmd.dig /\ binary' = binary)

LEMMA PinsQuiet ==
    ASSUME PinsKept, UNCHANGED <<disk, waiting, tarball, pins, bound>>, GoesOn
    PROVE  PinsKept'
BY DEF PinsKept, GoesOn, Refreshing, Bound

\* The digest of the refresh under way is its release's.
LEMMA NewIsBound ==
    ASSUME TreeTypeOK, PinsKept, Refreshing
    PROVE  /\ NewDefault \in TreeContents /\ NewDefault # Absent /\ NewDefault.edit = 0 /\ NewDefault.rel = binary
           /\ (NewDefault.dig # 0 => NewDefault.dig = bound[binary])
BY Defaults DEF NewDefault, TreeTypeOK, TreeCommands, PinsKept

LEMMA PinsBegin ==
    ASSUME TreeTypeOK, PinsKept, NEW d \in Rendered, PersistDigest(d)
    PROVE  /\ \A r \in Releases : bound[r] # 0 => bound'[r] = bound[r]
           /\ d # 0 => d = bound'[binary]
           /\ IF pins' = Absent THEN \A r \in Releases : bound'[r] = 0 ELSE pins' = bound'
<1> USE TreeMarks
<1>1. d \in 0..2 /\ binary \in Releases /\ bound \in [Releases -> 0..2] /\ served[binary] # 0
  BY DEF Rendered, TreeTypeOK
<1>2. CASE pins # Absent /\ pins[binary] # 0
  <2>1. pins = bound /\ d = bound[binary] /\ d # 0
    BY <1>2 DEF PinsKept, Rendered, ResolvePinned, PinFirst
  <2>2. bound' = bound /\ pins' = [r \in Releases |-> IF r = binary THEN d ELSE bound[r]]
    BY <2>1, <1>2 DEF PersistDigest
  <2>3. pins' = bound
    BY <1>1, <2>1, <2>2
  <2> QED BY <1>1, <1>2, <2>1, <2>2, <2>3
<1>3. CASE pins = Absent \/ pins[binary] = 0
  <2>1. bound[binary] = 0
    BY <1>1, <1>3 DEF PinsKept
  <2>2. CASE d = 0
    BY <1>1, <2>2 DEF PersistDigest, PinsKept
  <2>3. CASE d # 0
    <3>1. bound' = [bound EXCEPT ![binary] = d]
      BY <2>1, <2>3 DEF PersistDigest
    <3>2. pins' = [r \in Releases |-> IF r = binary THEN d ELSE IF pins = Absent THEN 0 ELSE pins[r]]
      BY <2>3 DEF PersistDigest
    <3>3. \A r \in Releases : (IF pins = Absent THEN 0 ELSE pins[r]) = bound[r]
      BY DEF PinsKept
    <3>4. pins' = bound'
      BY <1>1, <3>1, <3>2, <3>3
    <3>5. pins' # Absent
      BY <1>1, <3>1, <3>4
    <3> QED BY <1>1, <2>1, <3>1, <3>4, <3>5
  <2> QED BY <2>2, <2>3
<1> QED BY <1>2, <1>3

LEMMA BoundStays ==
    ASSUME NEW t \in Trees, Bound(t), \A r \in Releases : bound[r] # 0 => bound'[r] = bound[r]
    PROVE  \A f \in TreeFiles : t[f] # Absent /\ t[f].dig # 0 => t[f].dig = bound'[t[f].rel]
<1> SUFFICES ASSUME NEW f \in TreeFiles, t[f] # Absent, t[f].dig # 0
             PROVE  t[f].dig = bound'[t[f].rel]
  OBVIOUS
<1>1. t[f].rel \in Releases
  BY DEF Trees, TreeContents
<1> QED BY <1>1 DEF Bound

LEMMA PinsStep ==
    ASSUME TreeTypeOK, EditsKept, PinsKept, TreeNext
    PROVE  PinsKept'
<1> USE TreeMarks
<1>1. CASE RefreshBegins
  <2>1. tcmd'.dig \in Rendered /\ PersistDigest(tcmd'.dig) /\ UNCHANGED <<disk, waiting, tarball, binary>>
    BY <1>1, BeginsReads DEF RefreshBegins
  <2>2. /\ \A r \in Releases : bound[r] # 0 => bound'[r] = bound[r]
        /\ tcmd'.dig # 0 => tcmd'.dig = bound'[binary]
        /\ IF pins' = Absent THEN \A r \in Releases : bound'[r] = 0 ELSE pins' = bound'
    BY <2>1, PinsBegin
  <2>3. Bound(disk)' /\ Bound(waiting)'
    <3>1. disk \in Trees /\ waiting \in Trees /\ Bound(disk) /\ Bound(waiting)
      BY DEF TreeTypeOK, PinsKept
    <3>2. /\ \A f \in TreeFiles : disk[f] # Absent /\ disk[f].dig # 0 => disk[f].dig = bound'[disk[f].rel]
          /\ \A f \in TreeFiles : waiting[f] # Absent /\ waiting[f].dig # 0 => waiting[f].dig = bound'[waiting[f].rel]
      BY <2>2, <3>1, BoundStays
    <3> QED BY <2>1, <3>2 DEF Bound
  <2>4. (tarball # Absent => Bound(tarball.disk) /\ Bound(tarball.waiting))'
    <3> SUFFICES ASSUME tarball # Absent
                 PROVE  Bound(tarball.disk)' /\ Bound(tarball.waiting)'
      BY <2>1
    <3>1. tarball.disk \in Trees /\ tarball.waiting \in Trees /\ Bound(tarball.disk) /\ Bound(tarball.waiting)
      BY DEF TreeTypeOK, PinsKept, Tarballs
    <3>2. /\ \A f \in TreeFiles : tarball.disk[f] # Absent /\ tarball.disk[f].dig # 0
                                    => tarball.disk[f].dig = bound'[tarball.disk[f].rel]
          /\ \A f \in TreeFiles : tarball.waiting[f] # Absent /\ tarball.waiting[f].dig # 0
                                    => tarball.waiting[f].dig = bound'[tarball.waiting[f].rel]
      BY <2>2, <3>1, BoundStays
    <3> QED BY <2>1, <3>2 DEF Bound
  <2> QED BY <2>1, <2>2, <2>3, <2>4 DEF PinsKept
<1>2. CASE RefreshSkipped
  <2>1. tcmd'.pc = "sync" /\ UNCHANGED <<disk, tarball, pins, bound>>
    BY <1>2, CommandsAt, BeginTyped DEF RefreshSkipped
  <2>2. Bound(waiting)'
    BY <1>2 DEF RefreshSkipped, PinsKept, Bound
  <2> QED BY <2>1, <2>2 DEF PinsKept, Refreshing, Bound
<1>3. CASE RefreshStep
  <2>1. PICK f \in TreeFiles :
          Advances(f) /\ (Overwritten(f) \/ SetAside(f) \/ LeftAlone(f) \/ Stays(f) \/ Goes(f))
    BY <1>3, StepReads
  <2>2. /\ NewDefault # Absent /\ NewDefault.rel = binary
        /\ (NewDefault.dig # 0 => NewDefault.dig = bound[binary])
    BY <1>3, NewIsBound DEF RefreshStep, Refreshing
  <2>3. UNCHANGED <<tarball, pins, bound, binary>> /\ tcmd'.dig = tcmd.dig /\ tcmd.pc = "files" /\ tcmd'.pc = "files"
    BY <2>1 DEF Advances
  <2>4. \A g \in TreeFiles : /\ disk'[g] \in {disk[g], NewDefault, Absent}
                             /\ waiting'[g] \in {waiting[g], NewDefault}
    BY <2>1 DEF Overwritten, SetAside, LeftAlone, Stays, Goes, TreeTypeOK, Trees
  <2>5. Bound(disk)' /\ Bound(waiting)'
    <3> SUFFICES ASSUME NEW g \in TreeFiles
                 PROVE  /\ disk'[g] # Absent /\ disk'[g].dig # 0 => disk'[g].dig = bound[disk'[g].rel]
                        /\ waiting'[g] # Absent /\ waiting'[g].dig # 0 => waiting'[g].dig = bound[waiting'[g].rel]
      BY <2>3 DEF Bound
    <3>1. /\ disk[g] # Absent /\ disk[g].dig # 0 => disk[g].dig = bound[disk[g].rel]
          /\ waiting[g] # Absent /\ waiting[g].dig # 0 => waiting[g].dig = bound[waiting[g].rel]
      BY DEF PinsKept, Bound
    <3>2. disk'[g] \in {disk[g], NewDefault, Absent} /\ waiting'[g] \in {waiting[g], NewDefault}
      BY <2>4
    <3> QED BY <2>2, <3>1, <3>2
  <2> QED BY <2>3, <2>5 DEF PinsKept, Refreshing, Bound
<1>4. CASE RefreshManifest
  <2>1. tcmd.pc = "files" /\ tcmd'.dig = tcmd.dig /\ UNCHANGED <<disk, tarball, pins, bound, binary>>
    BY <1>4, ManifestReads DEF RefreshManifest
  <2>2. Bound(waiting)'
    BY <1>4 DEF RefreshManifest, PinsKept, Bound
  <2> QED BY <2>1, <2>2 DEF PinsKept, Refreshing, Bound
<1>5. CASE RefreshStamp
  BY <1>5, PinsQuiet DEF RefreshStamp, StampLast, GoesOn, Refreshing
<1>6. CASE RefreshEnds
  BY <1>6, PinsQuiet, EndsReads DEF RefreshEnds, GoesOn
<1>7. CASE BumpHelmfile
  <2>1. disk[Helmfile] \in TreeContents /\ tcmd'.pc = "record"
    BY <1>7, FileReads, CommandsAt DEF BumpHelmfile
  <2> DEFINE c == [disk[Helmfile] EXCEPT !.bump = 1]
  <2>2. c \in TreeContents /\ c.rel = disk[Helmfile].rel /\ c.dig = disk[Helmfile].dig
    BY <2>1, ContentEdits
  <2>3. disk' = [disk EXCEPT ![Helmfile] = c] /\ UNCHANGED <<waiting, tarball, pins, bound>>
    BY <1>7 DEF BumpHelmfile
  <2> HIDE DEF c
  <2>4. Bound(disk)'
    BY <2>1, <2>2, <2>3 DEF TreeTypeOK, Trees, PinsKept, Bound
  <2> QED BY <2>1, <2>3, <2>4 DEF PinsKept, Refreshing, Bound
<1>8. CASE RecordRewrite
  BY <1>8, PinsQuiet, CommandsAt DEF RecordRewrite, GoesOn
<1>9. CASE BumpInstance
  BY <1>9, PinsQuiet, CommandsAt DEF BumpInstance, GoesOn
<1>10. CASE BumpSkipped
  BY <1>10, PinsQuiet, CommandsAt DEF BumpSkipped, GoesOn
<1>11. CASE SyncTree
  BY <1>11, PinsQuiet, CommandsAt DEF SyncTree, GoesOn
<1>12. CASE TreeCrash
  BY <1>12, PinsQuiet, CommandsAt DEF TreeCrash, GoesOn
<1>13. CASE ExportTree
  <2>1. tcmd'.pc = "idle" /\ UNCHANGED <<disk, waiting, pins, bound>>
    BY <1>13, CommandsAt, BeginTyped DEF ExportTree
  <2>2. tarball'.disk = disk /\ tarball'.waiting = waiting
    BY <1>13 DEF ExportTree
  <2> QED BY <2>1, <2>2 DEF PinsKept, Refreshing, Bound
<1>14. CASE ClearForRestore
  <2>1. tcmd'.pc = "restore" /\ UNCHANGED <<tarball, pins, bound>>
    BY <1>14, CommandsAt, BeginTyped DEF ClearForRestore
  <2>2. \A f \in TreeFiles : disk'[f] = Absent /\ waiting'[f] = Absent
    BY <1>14 DEF ClearForRestore
  <2> QED BY <2>1, <2>2 DEF PinsKept, Refreshing, Bound
<1>15. CASE RestoreTree
  <2>1. tcmd'.pc = "idle" /\ UNCHANGED <<tarball, pins, bound>> /\ tarball # Absent
    BY <1>15, CommandsAt DEF RestoreTree, EditsKept
  <2>2. disk' = tarball.disk /\ waiting' = tarball.waiting
    BY <1>15 DEF RestoreTree
  <2> QED BY <2>1, <2>2 DEF PinsKept, Refreshing, Bound
<1>16. CASE HandEdit
  <2>1. PICK f \in TreeFiles :
          /\ disk[f] # Absent /\ disk' = [disk EXCEPT ![f].edit = tedits + 1]
          /\ UNCHANGED <<waiting, tarball, pins, bound, tcmd>> /\ tcmd = TIdle
    BY <1>16 DEF HandEdit
  <2>2. disk[f] \in TreeContents /\ tedits + 1 \in Nat
    BY <2>1, FileReads DEF TreeTypeOK
  <2> DEFINE c == [disk[f] EXCEPT !.edit = tedits + 1]
  <2>3. c \in TreeContents /\ c.rel = disk[f].rel /\ c.dig = disk[f].dig
    BY <2>2, ContentEdits
  <2>4. disk' = [disk EXCEPT ![f] = c]
    BY <2>1
  <2> HIDE DEF c
  <2>5. Bound(disk)'
    BY <2>1, <2>3, <2>4 DEF TreeTypeOK, Trees, PinsKept, Bound
  <2> QED BY <2>1, <2>5, CommandsAt DEF PinsKept, Refreshing, Bound
<1>17. CASE TakePending
  <2>1. PICK f \in TreeFiles :
          /\ disk' = [disk EXCEPT ![f] = waiting[f]]
          /\ UNCHANGED <<waiting, tarball, pins, bound, tcmd>> /\ tcmd = TIdle
    BY <1>17 DEF TakePending
  <2>2. Bound(disk)'
    BY <2>1 DEF TreeTypeOK, Trees, PinsKept, Bound
  <2> QED BY <2>1, <2>2, CommandsAt DEF PinsKept, Refreshing, Bound
<1>18. CASE NewBinary
  BY <1>18, PinsQuiet, CommandsAt, BeginTyped DEF NewBinary, GoesOn
<1>19. CASE Retag
  <2>1. UNCHANGED <<disk, waiting, tarball, pins, bound, tcmd, binary>>
    BY <1>19 DEF Retag
  <2> QED BY <2>1 DEF PinsKept, Refreshing, Bound
<1> QED
  BY <1>1, <1>2, <1>3, <1>4, <1>5, <1>6, <1>7, <1>8, <1>9, <1>10, <1>11, <1>12, <1>13, <1>14, <1>15, <1>16,
     <1>17, <1>18, <1>19 DEF TreeNext

-----------------------------------------------------------------------------
(* The defaults tree: what obol wrote is told apart from what it did not *)

LEMMA NewIsDefault ==
    ASSUME TreeTypeOK
    PROVE  NewDefault \in TreeContents /\ NewDefault # Absent /\ NewDefault.edit = 0 /\ NewDefault.rel = binary
BY Defaults DEF NewDefault, TreeTypeOK, TreeCommands

\* Outside a refresh and a rewrite every file is told.
LEMMA QuietTold ==
    ASSUME ToldKept, tcmd.pc \notin {"files", "record"}
    PROVE  \A f \in TreeFiles : Told(disk, listed, f)
BY DEF ToldKept

LEMMA ToldQuiet ==
    ASSUME ToldKept, UNCHANGED <<disk, listed, tarball, cut>>, tcmd.pc \notin {"files", "record"},
           tcmd'.pc \notin {"files", "record"}
    PROVE  ToldKept'
BY DEF ToldKept, Told

\* What becomes of a file in a refresh, told by what it was.
LEMMA StepTells ==
    ASSUME TreeTypeOK, ToldKept, NEW f \in tcmd.left, f \in TreeFiles, tcmd.pc = "files",
           disk[f] # Absent, disk[f].edit = 0,
           Edited(f) \/ listed = Absent \/ listed[f] = Absent
    PROVE  disk[f].rel \in cut
BY DEF ToldKept, Told, Edited, Renewed

LEMMA ToldStep ==
    ASSUME TreeTypeOK, EditsKept, ToldKept, WaitingKept, TreeNext
    PROVE  ToldKept'
<1> USE TreeMarks
<1>1. CASE RefreshBegins
  <2>1. tcmd.pc = "idle" /\ tcmd'.pc = "files" /\ tcmd'.left = TreeFiles /\ UNCHANGED <<disk, listed, tarball, cut, binary>>
    BY <1>1, BeginsReads, CommandsAt DEF RefreshBegins
  <2> QED BY <2>1 DEF ToldKept, Told
<1>2. CASE RefreshSkipped
  BY <1>2, CommandsAt, BeginTyped, ToldQuiet DEF RefreshSkipped
<1>3. CASE RefreshStep
  <2>1. PICK f \in tcmd.left :
          /\ f \in TreeFiles /\ Advances(f)
          /\ \/ f \in Shipped[binary] /\ (Overwritten(f) \/ SetAside(f) \/ LeftAlone(f))
             \/ f \notin Shipped[binary] /\ (Stays(f) \/ Goes(f))
    BY <1>3, StepReads
  <2>2. /\ UNCHANGED <<listed, tarball, cut, binary>> /\ tcmd.pc = "files" /\ tcmd'.pc = "files"
        /\ tcmd'.left = tcmd.left \ {f} /\ NewDefault' = NewDefault
    BY <2>1 DEF Advances, NewDefault
  <2>3. NewDefault \in TreeContents /\ NewDefault # Absent
    BY NewIsDefault
  <2>4. \A g \in TreeFiles \ {f} : disk'[g] = disk[g] /\ (Renewed(g) => Renewed(g)')
    BY <2>1, <2>2 DEF Overwritten, SetAside, LeftAlone, Stays, Goes, TreeTypeOK, Trees, Renewed
  <2>5. \/ Renewed(f)'
        \/ disk'[f] = Absent
        \/ disk'[f] = disk[f] /\ (disk[f] # Absent /\ disk[f].edit = 0 => disk[f].rel \in cut)
    <3>1. CASE f \in Shipped[binary] /\ Overwritten(f)
      BY <2>1, <2>2, <3>1 DEF Overwritten, Renewed, TreeTypeOK, Trees
    <3>2. CASE SetAside(f) \/ LeftAlone(f)
      BY <2>1, <2>2, <3>2, StepTells DEF SetAside, LeftAlone, KeptFile
    <3>3. CASE Stays(f)
      BY <2>1, <2>2, <3>3, StepTells DEF Stays
    <3>4. CASE Goes(f)
      BY <2>1, <3>4 DEF Goes, TreeTypeOK, Trees
    <3> QED BY <2>1, <3>1, <3>2, <3>3, <3>4
  <2>6. Told(disk, listed, f)' \/ Renewed(f)'
    BY <2>2, <2>5 DEF Told
  <2>7. \A g \in TreeFiles : Told(disk, listed, g)' \/ (tcmd'.pc = "files" /\ Renewed(g)')
    BY <2>2, <2>4, <2>6 DEF ToldKept, Told
  <2>8. \A g \in TreeFiles \ tcmd'.left :
           disk'[g] # Absent /\ disk'[g].edit = 0 => disk'[g].rel \in cut' \/ Renewed(g)'
    <3> SUFFICES ASSUME NEW g \in TreeFiles \ tcmd'.left, disk'[g] # Absent, disk'[g].edit = 0
                 PROVE  disk'[g].rel \in cut' \/ Renewed(g)'
      OBVIOUS
    <3>1. CASE g = f
      BY <2>2, <2>5, <3>1
    <3>2. CASE g # f
      BY <2>2, <2>4, <3>2 DEF ToldKept
    <3> QED BY <3>1, <3>2
  <2>9. (tarball # Absent => \A g \in TreeFiles : Told(tarball.disk, tarball.listed, g))'
    BY <2>2 DEF ToldKept, Told
  <2> QED BY <2>2, <2>7, <2>8, <2>9 DEF ToldKept
<1>4. CASE RefreshManifest
  <2>1. tcmd.pc = "files" /\ tcmd.left = {} /\ tcmd'.pc = "stamp" /\ UNCHANGED <<disk, tarball, cut>>
    BY <1>4, ManifestReads DEF RefreshManifest
  <2>2. NewDefault \in TreeContents
    BY NewIsDefault
  <2>3. listed' \in Trees /\ \A f \in Shipped[binary] : f \in TreeFiles => listed'[f] = NewDefault
    BY <1>4, <2>2 DEF RefreshManifest, Trees, NewDefault
  <2>4. \A f \in TreeFiles : Told(disk, listed, f)'
    BY <2>1, <2>3 DEF ToldKept, Told, Renewed
  <2> QED BY <2>1, <2>4 DEF ToldKept, Told
<1>5. CASE RefreshStamp
  BY <1>5, ToldQuiet DEF RefreshStamp, StampLast
<1>6. CASE RefreshEnds
  BY <1>6, ToldQuiet, EndsReads DEF RefreshEnds
<1>7. CASE BumpHelmfile
  <2>1. /\ disk[Helmfile] \in TreeContents /\ tcmd.pc = "bump" /\ tcmd'.pc = "record" /\ tcmd'.before = disk[Helmfile]
        /\ disk[Helmfile] # Absent
    BY <1>7, FileReads, CommandsAt DEF BumpHelmfile
  <2> DEFINE c == [disk[Helmfile] EXCEPT !.bump = 1]
  <2>2. c \in TreeContents /\ c.edit = disk[Helmfile].edit /\ c.rel = disk[Helmfile].rel
    BY <2>1, ContentEdits
  <2>3. disk' = [disk EXCEPT ![Helmfile] = c] /\ UNCHANGED <<listed, tarball, cut>>
    BY <1>7 DEF BumpHelmfile
  <2> HIDE DEF c
  <2>4. disk'[Helmfile] = c /\ \A g \in TreeFiles \ {Helmfile} : disk'[g] = disk[g]
    BY <2>3 DEF TreeTypeOK, Trees
  <2>5. \A f \in TreeFiles : Told(disk, listed, f)
    BY <2>1, QuietTold
  <2>6. \A f \in TreeFiles \ {Helmfile} : Told(disk, listed, f)'
    BY <2>3, <2>4, <2>5 DEF Told
  <2>7. /\ disk'[Helmfile].edit # 0 \/ disk'[Helmfile].rel \in cut' \/ (listed' # Absent /\ listed'[Helmfile] = tcmd'.before)
        /\ Told(disk, listed, Helmfile)' \/ (listed' # Absent /\ listed'[Helmfile] = tcmd'.before)
    BY <2>1, <2>2, <2>3, <2>4, <2>5 DEF Told
  <2>8. (tarball # Absent => \A g \in TreeFiles : Told(tarball.disk, tarball.listed, g))'
    BY <2>3 DEF ToldKept, Told
  <2> QED BY <2>1, <2>6, <2>7, <2>8 DEF ToldKept
<1>8. CASE RecordRewrite
  <2>1. tcmd'.pc = "sync" /\ tcmd.pc = "record" /\ UNCHANGED <<disk, tarball, cut>>
    BY <1>8, CommandsAt DEF RecordRewrite
  <2>2. disk[Helmfile] \in TreeContents
    BY <2>1, FileReads DEF EditsKept
  <2>3. CASE listed # Absent /\ listed[Helmfile] = tcmd.before
    <3>1. listed' = [listed EXCEPT ![Helmfile] = disk[Helmfile]] /\ listed \in Trees
      BY <1>8, <2>3 DEF RecordRewrite, TreeTypeOK
    <3>2. listed' \in Trees /\ listed'[Helmfile] = disk[Helmfile] /\ \A f \in TreeFiles \ {Helmfile} : listed'[f] = listed[f]
      BY <2>2, <3>1, FileWrites DEF Trees
    <3>3. \A f \in TreeFiles : Told(disk, listed, f)'
      BY <2>1, <2>3, <3>2 DEF ToldKept, Told
    <3> QED BY <2>1, <3>3 DEF ToldKept, Told
  <2>4. CASE ~(listed # Absent /\ listed[Helmfile] = tcmd.before)
    <3>1. listed' = listed
      BY <1>8, <2>4 DEF RecordRewrite
    <3>2. \A f \in TreeFiles : Told(disk, listed, f)'
      BY <2>1, <2>4, <3>1 DEF ToldKept, Told
    <3> QED BY <2>1, <3>1, <3>2 DEF ToldKept, Told
  <2> QED BY <2>3, <2>4
<1>9. CASE BumpInstance
  BY <1>9, ToldQuiet, CommandsAt DEF BumpInstance
<1>10. CASE BumpSkipped
  BY <1>10, ToldQuiet, CommandsAt DEF BumpSkipped
<1>11. CASE SyncTree
  BY <1>11, ToldQuiet, CommandsAt DEF SyncTree
<1>12. CASE TreeCrash
  <2>1. UNCHANGED <<disk, listed, tarball>> /\ tcmd'.pc = "idle" /\ cut \subseteq cut'
    BY <1>12, CommandsAt DEF TreeCrash
  <2>2. (tcmd.pc = "files" => binary \in cut') /\ (tcmd.pc = "record" => Releases \subseteq cut')
    BY <1>12 DEF TreeCrash
  <2>3. ASSUME NEW f \in TreeFiles
        PROVE  Told(disk, listed, f)'
    <3>1. disk[f] # Absent => disk[f].rel \in Releases
      BY FileReads DEF TreeContents
    <3>2. CASE tcmd.pc = "record"
      BY <2>1, <2>2, <3>1, <3>2 DEF Told
    <3>3. CASE tcmd.pc = "files" /\ Renewed(f)
      BY <2>1, <2>2, <3>3, NewIsDefault DEF Told, Renewed
    <3>4. CASE Told(disk, listed, f)
      BY <2>1, <3>4 DEF Told
    <3> QED BY <3>2, <3>3, <3>4 DEF ToldKept
  <2> QED BY <2>1, <2>3 DEF ToldKept, Told
<1>13. CASE ExportTree
  <2>1. tcmd.pc = "idle" /\ tcmd'.pc = "idle" /\ UNCHANGED <<disk, listed, cut>>
    BY <1>13, CommandsAt, BeginTyped DEF ExportTree
  <2>2. tarball'.disk = disk /\ tarball'.listed = listed
    BY <1>13 DEF ExportTree
  <2>3. \A f \in TreeFiles : Told(disk, listed, f)
    BY <2>1, QuietTold
  <2> QED BY <2>1, <2>2, <2>3 DEF ToldKept, Told
<1>14. CASE ClearForRestore
  <2>1. tcmd'.pc = "restore" /\ UNCHANGED <<tarball, cut>>
    BY <1>14, CommandsAt, BeginTyped DEF ClearForRestore
  <2>2. \A f \in TreeFiles : disk'[f] = Absent
    BY <1>14 DEF ClearForRestore
  <2> QED BY <2>1, <2>2 DEF ToldKept, Told
<1>15. CASE RestoreTree
  <2>1. tcmd'.pc = "idle" /\ UNCHANGED <<tarball, cut>> /\ tarball # Absent
    BY <1>15, CommandsAt DEF RestoreTree, EditsKept
  <2>2. disk' = tarball.disk /\ listed' = tarball.listed
    BY <1>15 DEF RestoreTree
  <2> QED BY <2>1, <2>2 DEF ToldKept, Told
<1>16. CASE HandEdit
  <2>1. PICK f \in TreeFiles :
          /\ disk[f] # Absent /\ disk' = [disk EXCEPT ![f].edit = tedits + 1]
          /\ UNCHANGED <<listed, tarball, tcmd, cut>> /\ tcmd.pc = "idle"
    BY <1>16, CommandsAt DEF HandEdit
  <2>2. disk[f] \in TreeContents /\ tedits + 1 \in Nat /\ tedits + 1 # 0
    BY <2>1, FileReads DEF TreeTypeOK
  <2> DEFINE c == [disk[f] EXCEPT !.edit = tedits + 1]
  <2>3. c \in TreeContents /\ c.edit # 0
    BY <2>2, ContentEdits
  <2>4. disk' = [disk EXCEPT ![f] = c]
    BY <2>1
  <2> HIDE DEF c
  <2>5. disk'[f] = c /\ \A g \in TreeFiles \ {f} : disk'[g] = disk[g]
    BY <2>4 DEF TreeTypeOK, Trees
  <2>6. \A g \in TreeFiles : Told(disk, listed, g)
    BY <2>1, QuietTold
  <2>7. ASSUME NEW g \in TreeFiles
        PROVE  Told(disk, listed, g)'
    <3>1. CASE g = f
      BY <2>3, <2>5, <3>1 DEF Told
    <3>2. CASE g # f
      BY <2>1, <2>5, <2>6, <3>2 DEF Told
    <3> QED BY <3>1, <3>2
  <2> QED BY <2>1, <2>7 DEF ToldKept, Told
<1>17. CASE TakePending
  <2>1. PICK f \in TreeFiles :
          /\ disk' = [disk EXCEPT ![f] = waiting[f]]
          /\ UNCHANGED <<listed, tarball, tcmd, cut>> /\ tcmd.pc = "idle"
    BY <1>17, CommandsAt DEF TakePending
  <2>2. disk'[f] = waiting[f] /\ \A g \in TreeFiles \ {f} : disk'[g] = disk[g]
    BY <2>1 DEF TreeTypeOK, Trees
  <2>3. \A g \in TreeFiles : Told(disk, listed, g)'
    BY <2>1, <2>2, QuietTold DEF Told, WaitingKept
  <2> QED BY <2>1, <2>3 DEF ToldKept, Told
<1>18. CASE NewBinary
  BY <1>18, ToldQuiet, CommandsAt, BeginTyped DEF NewBinary
<1>19. CASE Retag
  <2>1. UNCHANGED <<disk, listed, tarball, tcmd, cut, binary>>
    BY <1>19 DEF Retag
  <2> QED BY <2>1 DEF ToldKept, Told, Renewed, NewDefault
<1> QED
  BY <1>1, <1>2, <1>3, <1>4, <1>5, <1>6, <1>7, <1>8, <1>9, <1>10, <1>11, <1>12, <1>13, <1>14, <1>15, <1>16,
     <1>17, <1>18, <1>19 DEF TreeNext

-----------------------------------------------------------------------------
(* The defaults tree: what a stamp says *)

LEMMA WholeQuiet ==
    ASSUME WholeKept, UNCHANGED <<disk, listed, stamp, tarball, binary, cut>>,
           tcmd.pc \notin {"files", "stamp"}, tcmd'.pc \notin {"files", "stamp"}
    PROVE  WholeKept'
BY DEF WholeKept, Refreshing, Whole, Of, Fits

\* What the archive's stamp says goes on being so, whatever is cut short.
LEMMA ArchiveWhole ==
    ASSUME WholeKept, UNCHANGED tarball, cut \subseteq cut'
    PROVE  (tarball # Absent /\ tarball.stamp # 0 =>
             Whole(tarball.disk, tarball.stamp) /\ (cut \subseteq {tarball.stamp} => Of(tarball.listed, tarball.stamp)))'
BY DEF WholeKept, Whole, Of, Fits

LEMMA WholeStep ==
    ASSUME TreeTypeOK, EditsKept, ToldKept, WholeKept, WaitingKept, TreeNext
    PROVE  WholeKept'
<1> USE TreeMarks
<1>1. CASE RefreshBegins
  <2>1. /\ tcmd.pc = "idle" /\ tcmd'.pc = "files" /\ tcmd'.left = TreeFiles
        /\ UNCHANGED <<disk, listed, stamp, tarball, cut, binary>>
    BY <1>1, BeginsReads, CommandsAt DEF RefreshBegins
  <2>2. Shipped[binary] \ tcmd'.left = {}
    BY <2>1 DEF TreeTypeOK
  <2> QED BY <2>1, <2>2 DEF WholeKept, Refreshing, Whole, Of, Fits
<1>2. CASE RefreshSkipped
  BY <1>2, CommandsAt, BeginTyped, WholeQuiet DEF RefreshSkipped
<1>3. CASE RefreshStep
  <2>1. PICK f \in tcmd.left :
          /\ f \in TreeFiles /\ Advances(f)
          /\ \/ f \in Shipped[binary] /\ (Overwritten(f) \/ SetAside(f) \/ LeftAlone(f))
             \/ f \notin Shipped[binary] /\ (Stays(f) \/ Goes(f))
    BY <1>3, StepReads
  <2>2. /\ UNCHANGED <<listed, tarball, cut, binary, stamp>> /\ tcmd.pc = "files" /\ tcmd'.pc = "files"
        /\ tcmd'.left = tcmd.left \ {f}
    BY <2>1 DEF Advances
  <2>3. NewDefault \in TreeContents /\ NewDefault # Absent /\ NewDefault.rel = binary
    BY NewIsDefault
  <2>4. \A g \in TreeFiles \ {f} : disk'[g] = disk[g]
    BY <2>1 DEF Overwritten, SetAside, LeftAlone, Stays, Goes, TreeTypeOK, Trees
  <2>5. f \in Shipped[binary] => \/ disk'[f] = NewDefault
                                 \/ disk'[f] = disk[f] /\ disk[f] # Absent /\ (disk[f].edit = 0 => disk[f].rel \in cut)
    BY <2>1, <2>2, StepTells DEF Overwritten, SetAside, LeftAlone, KeptFile, TreeTypeOK, Trees
  <2>6. f \in Shipped[binary] /\ cut \subseteq {binary} => Fits(disk'[f], binary)
    BY <2>3, <2>5 DEF Fits
  <2>7. Shipped[binary] \subseteq TreeFiles
    BY DEF TreeTypeOK
  <2>8. cut \subseteq {binary} => \A g \in Shipped[binary] \ tcmd'.left : Fits(disk'[g], binary)
    BY <2>2, <2>4, <2>6, <2>7 DEF WholeKept, Refreshing
  <2>9. stamp # 0 /\ stamp = binary /\ cut \subseteq {stamp} => \A g \in Shipped[stamp] : Fits(disk'[g], stamp)
    BY <2>2, <2>4, <2>6, <2>7 DEF WholeKept, Refreshing, Whole
  <2> QED BY <2>2, <2>8, <2>9, ArchiveWhole DEF WholeKept, Refreshing, Whole, Of, Fits
<1>4. CASE RefreshManifest
  <2>1. /\ tcmd.pc = "files" /\ tcmd.left = {} /\ tcmd'.pc = "stamp" /\ tcmd'.left = {}
        /\ UNCHANGED <<disk, tarball, cut, binary, stamp>>
    BY <1>4, ManifestReads DEF RefreshManifest
  <2>2. Of(listed, binary)'
    BY <1>4, <2>1, NewIsDefault DEF RefreshManifest, Of, NewDefault
  <2> QED BY <2>1, <2>2, ArchiveWhole DEF WholeKept, Refreshing, Whole, Of, Fits
<1>5. CASE RefreshStamp
  <2>1. /\ tcmd.pc = "stamp" /\ stamp' = binary /\ UNCHANGED <<disk, listed, tarball, cut, binary, tcmd>>
    BY <1>5 DEF RefreshStamp, StampLast
  <2>2. cut \subseteq {binary} => \A f \in Shipped[binary] : Fits(disk[f], binary)
    BY <2>1 DEF WholeKept, Refreshing
  <2> QED BY <2>1, <2>2, ArchiveWhole DEF WholeKept, Refreshing, Whole, Of, Fits
<1>6. CASE RefreshEnds
  <2>1. /\ tcmd.pc = "stamp" /\ stamp = binary /\ UNCHANGED <<disk, listed, tarball, cut, binary, stamp>>
        /\ tcmd'.pc \notin {"files", "stamp"}
    BY <1>6, EndsReads DEF RefreshEnds
  <2> QED BY <2>1, ArchiveWhole DEF WholeKept, Refreshing, Whole, Of, Fits
<1>7. CASE BumpHelmfile
  <2>1. /\ disk[Helmfile] \in TreeContents /\ tcmd.pc = "bump" /\ tcmd'.pc = "record" /\ disk[Helmfile] # Absent
    BY <1>7, FileReads, CommandsAt DEF BumpHelmfile
  <2> DEFINE c == [disk[Helmfile] EXCEPT !.bump = 1]
  <2>2. c \in TreeContents /\ c # Absent /\ c.edit = disk[Helmfile].edit /\ c.rel = disk[Helmfile].rel
    BY <2>1, ContentEdits
  <2>3. disk' = [disk EXCEPT ![Helmfile] = c] /\ UNCHANGED <<listed, tarball, cut, binary, stamp>>
    BY <1>7 DEF BumpHelmfile
  <2> HIDE DEF c
  <2>4. disk'[Helmfile] = c /\ \A g \in TreeFiles \ {Helmfile} : disk'[g] = disk[g]
    BY <2>3 DEF TreeTypeOK, Trees
  <2>5. stamp # 0 => Shipped[stamp] \subseteq TreeFiles
    BY DEF TreeTypeOK
  <2>6. stamp # 0 /\ cut \subseteq {stamp} => \A g \in Shipped[stamp] : Fits(disk'[g], stamp)
    <3> SUFFICES ASSUME stamp # 0, cut \subseteq {stamp}, NEW g \in Shipped[stamp]
                 PROVE  Fits(disk'[g], stamp)
      OBVIOUS
    <3>1. Fits(disk[g], stamp)
      BY <2>1 DEF WholeKept, Refreshing, Whole
    <3> QED BY <2>2, <2>4, <2>5, <3>1 DEF Fits
  <2> QED BY <2>1, <2>3, <2>6, ArchiveWhole DEF WholeKept, Refreshing, Whole, Of
<1>8. CASE RecordRewrite
  <2>1. tcmd'.pc = "sync" /\ tcmd.pc = "record" /\ UNCHANGED <<disk, tarball, cut, binary, stamp>>
    BY <1>8, CommandsAt DEF RecordRewrite
  <2>2. listed # Absent => \A f \in TreeFiles : \/ listed'[f] = listed[f]
                                                \/ listed[f] # Absent /\ listed'[f].rel = listed[f].rel
    BY <1>8, <2>1 DEF RecordRewrite, TreeTypeOK, Trees, EditsKept
  <2>3. stamp # 0 /\ cut \subseteq {stamp} => Of(listed, stamp)'
    BY <2>1, <2>2 DEF WholeKept, Of, EditsKept
  <2> QED BY <2>1, <2>3, ArchiveWhole DEF WholeKept, Refreshing, Whole, Of, Fits
<1>9. CASE BumpInstance
  BY <1>9, WholeQuiet, CommandsAt DEF BumpInstance
<1>10. CASE BumpSkipped
  BY <1>10, WholeQuiet, CommandsAt DEF BumpSkipped
<1>11. CASE SyncTree
  BY <1>11, WholeQuiet, CommandsAt DEF SyncTree
<1>12. CASE TreeCrash
  <2>1. UNCHANGED <<disk, listed, tarball, binary, stamp>> /\ tcmd'.pc = "idle" /\ cut \subseteq cut'
    BY <1>12, CommandsAt DEF TreeCrash
  <2>2. tcmd.pc \in {"files", "stamp"} => binary \in cut'
    BY <1>12 DEF TreeCrash
  <2> QED BY <2>1, <2>2, ArchiveWhole DEF WholeKept, Refreshing, Whole, Of, Fits
<1>13. CASE ExportTree
  <2>1. tcmd.pc = "idle" /\ tcmd'.pc = "idle" /\ UNCHANGED <<disk, listed, cut, binary, stamp>>
    BY <1>13, CommandsAt, BeginTyped DEF ExportTree
  <2>2. tarball'.disk = disk /\ tarball'.listed = listed /\ tarball'.stamp = stamp
    BY <1>13 DEF ExportTree
  <2> QED BY <2>1, <2>2 DEF WholeKept, Refreshing, Whole, Of, Fits
<1>14. CASE ClearForRestore
  <2>1. tcmd'.pc = "restore" /\ UNCHANGED <<tarball, cut>> /\ stamp' = 0
    BY <1>14, CommandsAt, BeginTyped DEF ClearForRestore
  <2> QED BY <2>1, ArchiveWhole DEF WholeKept, Refreshing
<1>15. CASE RestoreTree
  <2>1. tcmd'.pc = "idle" /\ UNCHANGED <<tarball, cut>> /\ tarball # Absent
    BY <1>15, CommandsAt DEF RestoreTree, EditsKept
  <2>2. disk' = tarball.disk /\ listed' = tarball.listed /\ stamp' = tarball.stamp
    BY <1>15 DEF RestoreTree
  <2> QED BY <2>1, <2>2 DEF WholeKept, Refreshing, Whole, Of, Fits
<1>16. CASE HandEdit
  <2>1. PICK f \in TreeFiles :
          /\ disk[f] # Absent /\ disk' = [disk EXCEPT ![f].edit = tedits + 1]
          /\ UNCHANGED <<listed, tarball, tcmd, cut, binary, stamp>> /\ tcmd.pc = "idle"
    BY <1>16, CommandsAt DEF HandEdit
  <2>2. disk[f] \in TreeContents /\ tedits + 1 \in Nat /\ tedits + 1 # 0
    BY <2>1, FileReads DEF TreeTypeOK
  <2> DEFINE c == [disk[f] EXCEPT !.edit = tedits + 1]
  <2>3. c \in TreeContents /\ c # Absent /\ c.edit # 0
    BY <2>2, ContentEdits, ZenonT(60)
  <2>4. disk' = [disk EXCEPT ![f] = c]
    BY <2>1
  <2> HIDE DEF c
  <2>5. disk'[f] = c /\ \A g \in TreeFiles \ {f} : disk'[g] = disk[g]
    BY <2>4 DEF TreeTypeOK, Trees
  <2>6. stamp # 0 => Shipped[stamp] \subseteq TreeFiles
    BY DEF TreeTypeOK
  <2>7. stamp # 0 /\ cut \subseteq {stamp} => \A g \in Shipped[stamp] : Fits(disk'[g], stamp)
    <3> SUFFICES ASSUME stamp # 0, cut \subseteq {stamp}, NEW g \in Shipped[stamp]
                 PROVE  Fits(disk'[g], stamp)
      OBVIOUS
    <3>1. Fits(disk[g], stamp)
      BY <2>1 DEF WholeKept, Refreshing, Whole
    <3> QED BY <2>3, <2>5, <2>6, <3>1 DEF Fits
  <2> QED BY <2>1, <2>7, ArchiveWhole DEF WholeKept, Refreshing, Whole, Of
<1>17. CASE TakePending
  <2>1. PICK f \in TreeFiles :
          /\ disk' = [disk EXCEPT ![f] = waiting[f]] /\ waiting[f] # Absent
          /\ UNCHANGED <<listed, tarball, tcmd, cut, binary, stamp>> /\ tcmd.pc = "idle"
    BY <1>17, CommandsAt DEF TakePending
  <2>2. disk'[f] = waiting[f] /\ \A g \in TreeFiles \ {f} : disk'[g] = disk[g]
    BY <2>1 DEF TreeTypeOK, Trees
  <2>3. stamp # 0 => Shipped[stamp] \subseteq TreeFiles
    BY DEF TreeTypeOK
  <2>4. stamp # 0 /\ cut \subseteq {stamp} => waiting[f].rel = stamp
    <3> SUFFICES ASSUME stamp # 0, cut \subseteq {stamp}
                 PROVE  waiting[f].rel = stamp
      OBVIOUS
    <3>1. Told(waiting, listed, f) /\ waiting[f].edit = 0
      BY <2>1 DEF WaitingKept, EditsKept, NoEdit
    <3>2. Of(listed, stamp)
      BY <2>1 DEF WholeKept
    <3> QED BY <2>1, <3>1, <3>2 DEF Told, Of
  <2>5. stamp # 0 /\ cut \subseteq {stamp} => \A g \in Shipped[stamp] : Fits(disk'[g], stamp)
    <3> SUFFICES ASSUME stamp # 0, cut \subseteq {stamp}, NEW g \in Shipped[stamp]
                 PROVE  Fits(disk'[g], stamp)
      OBVIOUS
    <3>1. Fits(disk[g], stamp)
      BY <2>1 DEF WholeKept, Refreshing, Whole
    <3> QED BY <2>1, <2>2, <2>3, <2>4, <3>1 DEF Fits
  <2> QED BY <2>1, <2>5, ArchiveWhole DEF WholeKept, Refreshing, Whole, Of
<1>18. CASE NewBinary
  <2>1. tcmd.pc = "idle" /\ tcmd'.pc = "idle" /\ UNCHANGED <<disk, listed, tarball, cut, stamp>>
    BY <1>18, CommandsAt, BeginTyped DEF NewBinary
  <2> QED BY <2>1, ArchiveWhole DEF WholeKept, Refreshing, Whole, Of, Fits
<1>19. CASE Retag
  <2>1. UNCHANGED <<disk, listed, stamp, tarball, tcmd, cut, binary>>
    BY <1>19 DEF Retag
  <2> QED BY <2>1 DEF WholeKept, Refreshing, Whole, Of, Fits
<1> QED
  BY <1>1, <1>2, <1>3, <1>4, <1>5, <1>6, <1>7, <1>8, <1>9, <1>10, <1>11, <1>12, <1>13, <1>14, <1>15, <1>16,
     <1>17, <1>18, <1>19 DEF TreeNext

-----------------------------------------------------------------------------
(* The defaults tree: the defaults that wait *)

LEMMA WaitingQuiet ==
    ASSUME WaitingKept, UNCHANGED <<listed, waiting, tarball, cut>>, tcmd.pc # "files",
           tcmd'.pc \notin {"files", "stamp", "bump", "record"}
    PROVE  WaitingKept'
BY DEF WaitingKept, Told

LEMMA ArchiveWaits ==
    ASSUME WaitingKept, UNCHANGED tarball, cut \subseteq cut'
    PROVE  (tarball # Absent => \A f \in TreeFiles : Told(tarball.waiting, tarball.listed, f))'
BY DEF WaitingKept, Told

LEMMA WaitingStep ==
    ASSUME TreeTypeOK, EditsKept, WaitingKept, TreeNext
    PROVE  WaitingKept'
<1> USE TreeMarks
<1>1. CASE RefreshBegins
  <2>1. /\ tcmd.pc = "idle" /\ tcmd'.pc = "files" /\ tcmd'.keep = {}
        /\ UNCHANGED <<disk, listed, waiting, tarball, cut>>
    BY <1>1, BeginsReads, CommandsAt DEF RefreshBegins
  <2> QED BY <2>1 DEF WaitingKept, Told
<1>2. CASE RefreshSkipped
  <2>1. tcmd.pc = "idle" /\ tcmd'.pc = "sync" /\ UNCHANGED <<disk, listed, tarball, cut>>
    BY <1>2, CommandsAt, BeginTyped DEF RefreshSkipped
  <2>2. \A f \in TreeFiles : waiting'[f] \in {waiting[f], Absent}
    BY <1>2 DEF RefreshSkipped
  <2>3. \A f \in TreeFiles : Told(waiting, listed, f)
    BY <2>1 DEF WaitingKept
  <2>4. \A f \in TreeFiles : Told(waiting, listed, f)'
    BY <2>1, <2>2, <2>3 DEF Told
  <2> QED BY <2>1, <2>4, ArchiveWaits DEF WaitingKept
<1>3. CASE RefreshStep
  <2>1. PICK f \in tcmd.left :
          /\ f \in TreeFiles /\ Advances(f)
          /\ \/ f \in Shipped[binary] /\ (Overwritten(f) \/ SetAside(f) \/ LeftAlone(f))
             \/ f \notin Shipped[binary] /\ (Stays(f) \/ Goes(f))
    BY <1>3, StepReads
  <2>2. /\ UNCHANGED <<listed, tarball, cut, binary>> /\ tcmd.pc = "files" /\ tcmd'.pc = "files"
        /\ tcmd'.left = tcmd.left \ {f} /\ NewDefault' = NewDefault
    BY <2>1 DEF Advances, NewDefault
  <2>3. f \notin tcmd.keep
    BY <2>1, <2>2 DEF WaitingKept
  <2>4. /\ \A g \in TreeFiles \ {f} : disk'[g] = disk[g] /\ waiting'[g] = waiting[g]
        /\ tcmd'.keep \ {f} = tcmd.keep \ {f}
    BY <2>1 DEF Overwritten, SetAside, LeftAlone, Stays, Goes, TreeTypeOK, Trees
  <2>5. \/ f \in tcmd'.keep /\ f \in Shipped[binary] /\ waiting'[f] = NewDefault /\ disk'[f] # NewDefault
        \/ f \notin tcmd'.keep /\ waiting'[f] = waiting[f]
    BY <2>1, <2>3 DEF Overwritten, SetAside, LeftAlone, KeptFile, Stays, Goes, TreeTypeOK, Trees
  <2>6. \A g \in TreeFiles : Told(waiting, listed, g)' \/ g \in tcmd'.keep
    <3> SUFFICES ASSUME NEW g \in TreeFiles, g \notin tcmd'.keep
                 PROVE  Told(waiting, listed, g)'
      OBVIOUS
    <3>1. g \notin tcmd.keep /\ waiting'[g] = waiting[g]
      BY <2>3, <2>4, <2>5
    <3>2. Told(waiting, listed, g)
      BY <3>1 DEF WaitingKept
    <3> QED BY <2>2, <3>1, <3>2 DEF Told
  <2>7. ASSUME NEW g \in tcmd'.keep
        PROVE  waiting'[g] = NewDefault /\ g \in Shipped[binary] \ tcmd'.left /\ disk'[g] # NewDefault
    <3>1. CASE g = f
      BY <2>2, <2>5, <2>7, <3>1
    <3>2. CASE g # f
      <4>1. g \in tcmd.keep /\ g \in TreeFiles
        BY <2>2, <2>4, <2>7, <3>2 DEF TreeTypeOK, TreeCommands
      <4> QED BY <2>2, <2>4, <3>2, <4>1 DEF WaitingKept
    <3> QED BY <3>1, <3>2
  <2> QED BY <2>2, <2>6, <2>7, ArchiveWaits DEF WaitingKept
<1>4. CASE RefreshManifest
  <2>1. /\ tcmd.pc = "files" /\ tcmd'.pc = "stamp" /\ UNCHANGED <<disk, tarball, cut>>
    BY <1>4, ManifestReads DEF RefreshManifest
  <2>2. listed' # Absent
    <3>1. listed' \in Trees
      BY <1>4, NewIsDefault DEF RefreshManifest, Trees, NewDefault
    <3> QED BY <3>1
  <2>3. \A f \in TreeFiles : waiting'[f] # Absent => /\ waiting'[f] = NewDefault /\ listed'[f] = NewDefault
                                                     /\ disk[f] # NewDefault
    BY <1>4, <2>1 DEF RefreshManifest, WaitingKept, NewDefault
  <2> QED BY <2>1, <2>2, <2>3, ArchiveWaits DEF WaitingKept, Told
<1>5. CASE RefreshStamp
  BY <1>5 DEF RefreshStamp, StampLast, WaitingKept, Told
<1>6. CASE RefreshEnds
  <2>1. tcmd.pc = "stamp" /\ tcmd'.pc \in {"idle", "bump", "sync"} /\ UNCHANGED <<disk, listed, waiting, tarball, cut>>
    BY <1>6, EndsReads DEF RefreshEnds
  <2> QED BY <2>1 DEF WaitingKept, Told
<1>7. CASE BumpHelmfile
  <2>1. /\ tcmd.pc = "bump" /\ tcmd'.pc = "record" /\ tcmd'.before = disk[Helmfile] /\ disk[Helmfile] # Absent
        /\ UNCHANGED <<listed, waiting, tarball, cut>>
    BY <1>7, FileReads, CommandsAt DEF BumpHelmfile
  <2> QED BY <2>1 DEF WaitingKept, Told
<1>8. CASE RecordRewrite
  <2>1. tcmd'.pc = "sync" /\ tcmd.pc = "record" /\ UNCHANGED <<disk, waiting, tarball, cut>>
    BY <1>8, CommandsAt DEF RecordRewrite
  <2>2. \A f \in TreeFiles : Told(waiting, listed, f)
    BY <2>1 DEF WaitingKept
  <2>3. CASE listed # Absent /\ listed[Helmfile] = tcmd.before
    <3>1. listed' = [listed EXCEPT ![Helmfile] = disk[Helmfile]] /\ listed \in Trees
      BY <1>8, <2>3 DEF RecordRewrite, TreeTypeOK
    <3>2. disk[Helmfile] \in TreeContents
      BY <2>1, FileReads DEF EditsKept
    <3>3. listed' \in Trees /\ \A f \in TreeFiles \ {Helmfile} : listed'[f] = listed[f]
      BY <3>1, <3>2, FileWrites DEF Trees
    <3>4. waiting[Helmfile] = Absent
      BY <2>1, <2>3 DEF WaitingKept
    <3>5. \A f \in TreeFiles : Told(waiting, listed, f)'
      BY <2>1, <2>2, <3>3, <3>4 DEF Told
    <3> QED BY <2>1, <3>5, ArchiveWaits DEF WaitingKept
  <2>4. CASE ~(listed # Absent /\ listed[Helmfile] = tcmd.before)
    <3>1. listed' = listed
      BY <1>8, <2>4 DEF RecordRewrite
    <3> QED BY <2>1, <3>1, WaitingQuiet
  <2> QED BY <2>3, <2>4
<1>9. CASE BumpInstance
  BY <1>9, WaitingQuiet, CommandsAt DEF BumpInstance
<1>10. CASE BumpSkipped
  BY <1>10, WaitingQuiet, CommandsAt DEF BumpSkipped
<1>11. CASE SyncTree
  BY <1>11, WaitingQuiet, CommandsAt DEF SyncTree
<1>12. CASE TreeCrash
  <2>1. UNCHANGED <<disk, listed, waiting, tarball>> /\ tcmd'.pc = "idle" /\ cut \subseteq cut'
    BY <1>12, CommandsAt DEF TreeCrash
  <2>2. tcmd.pc = "files" => binary \in cut'
    BY <1>12 DEF TreeCrash
  <2>3. ASSUME NEW f \in TreeFiles
        PROVE  Told(waiting, listed, f)'
    <3>1. CASE Told(waiting, listed, f)
      BY <2>1, <3>1 DEF Told
    <3>2. CASE tcmd.pc = "files" /\ f \in tcmd.keep
      BY <2>1, <2>2, <3>2, NewIsDefault DEF Told, WaitingKept
    <3> QED BY <3>1, <3>2 DEF WaitingKept
  <2> QED BY <2>1, <2>3, ArchiveWaits DEF WaitingKept
<1>13. CASE ExportTree
  <2>1. tcmd.pc = "idle" /\ tcmd'.pc = "idle" /\ UNCHANGED <<disk, listed, waiting, cut>>
    BY <1>13, CommandsAt, BeginTyped DEF ExportTree
  <2>2. tarball'.waiting = waiting /\ tarball'.listed = listed
    BY <1>13 DEF ExportTree
  <2> QED BY <2>1, <2>2 DEF WaitingKept, Told
<1>14. CASE ClearForRestore
  <2>1. tcmd'.pc = "restore" /\ UNCHANGED <<tarball, cut>>
    BY <1>14, CommandsAt, BeginTyped DEF ClearForRestore
  <2>2. \A f \in TreeFiles : waiting'[f] = Absent
    BY <1>14 DEF ClearForRestore
  <2> QED BY <2>1, <2>2, ArchiveWaits DEF WaitingKept, Told
<1>15. CASE RestoreTree
  <2>1. tcmd'.pc = "idle" /\ UNCHANGED <<tarball, cut>> /\ tarball # Absent
    BY <1>15, CommandsAt DEF RestoreTree, EditsKept
  <2>2. waiting' = tarball.waiting /\ listed' = tarball.listed
    BY <1>15 DEF RestoreTree
  <2> QED BY <2>1, <2>2 DEF WaitingKept, Told
<1>16. CASE HandEdit
  BY <1>16, WaitingQuiet, CommandsAt DEF HandEdit
<1>17. CASE TakePending
  BY <1>17, WaitingQuiet, CommandsAt DEF TakePending
<1>18. CASE NewBinary
  BY <1>18, WaitingQuiet, CommandsAt, BeginTyped DEF NewBinary
<1>19. CASE Retag
  BY <1>19 DEF Retag, WaitingKept, Told, NewDefault
<1> QED
  BY <1>1, <1>2, <1>3, <1>4, <1>5, <1>6, <1>7, <1>8, <1>9, <1>10, <1>11, <1>12, <1>13, <1>14, <1>15, <1>16,
     <1>17, <1>18, <1>19 DEF TreeNext

LEMMA PendingQuiet ==
    ASSUME PendingKept, UNCHANGED <<disk, listed, waiting, tarball, cut>>, tcmd'.pc # "files"
    PROVE  PendingKept'
BY DEF PendingKept, Pending

LEMMA ArchivePends ==
    ASSUME PendingKept, UNCHANGED tarball, cut \subseteq cut'
    PROVE  (tarball # Absent /\ cut = {} => Pending(tarball.disk, tarball.listed, tarball.waiting))'
BY DEF PendingKept, Pending

LEMMA PendingStep ==
    ASSUME TreeTypeOK, EditsKept, ToldKept, WaitingKept, PendingKept, TreeNext
    PROVE  PendingKept'
<1> USE TreeMarks
<1>1. CASE RefreshBegins
  <2>1. tcmd'.pc = "files" /\ tcmd'.left = TreeFiles /\ UNCHANGED <<disk, listed, waiting, tarball, cut, binary>>
    BY <1>1, BeginsReads DEF RefreshBegins
  <2>2. Shipped[binary] \ tcmd'.left = {}
    BY <2>1 DEF TreeTypeOK
  <2> QED BY <2>1, <2>2 DEF PendingKept, Pending
<1>2. CASE RefreshSkipped
  <2>1. tcmd'.pc = "sync" /\ UNCHANGED <<disk, listed, tarball, cut>>
    BY <1>2, CommandsAt, BeginTyped DEF RefreshSkipped
  <2>2. \A f \in TreeFiles : waiting'[f] = IF disk[f] = waiting[f] THEN Absent ELSE waiting[f]
    BY <1>2 DEF RefreshSkipped
  <2>3. \A f \in TreeFiles : disk[f] # Absent /\ disk[f].edit # 0 => waiting'[f] = waiting[f]
    BY <2>2 DEF EditsKept, NoEdit
  <2> QED BY <2>1, <2>3, ArchivePends DEF PendingKept, Pending
<1>3. CASE RefreshStep
  <2>1. PICK f \in tcmd.left :
          /\ f \in TreeFiles /\ Advances(f)
          /\ \/ f \in Shipped[binary] /\ (Overwritten(f) \/ SetAside(f) \/ LeftAlone(f))
             \/ f \notin Shipped[binary] /\ (Stays(f) \/ Goes(f))
    BY <1>3, StepReads
  <2>2. /\ UNCHANGED <<listed, tarball, cut, binary>> /\ tcmd.pc = "files" /\ tcmd'.pc = "files"
        /\ tcmd'.left = tcmd.left \ {f}
    BY <2>1 DEF Advances
  <2>3. NewDefault \in TreeContents /\ NewDefault # Absent /\ NewDefault.edit = 0 /\ NewDefault.rel = binary
    BY NewIsDefault
  <2>4. /\ \A g \in TreeFiles \ {f} : disk'[g] = disk[g] /\ waiting'[g] = waiting[g]
        /\ tcmd.keep \subseteq tcmd'.keep
    BY <2>1 DEF Overwritten, SetAside, LeftAlone, Stays, Goes, TreeTypeOK, Trees
  <2>5. \/ disk'[f] = Absent \/ disk'[f].edit = 0
        \/ disk'[f] = disk[f] /\ (waiting[f] # Absent => waiting'[f] # Absent)
    BY <2>1, <2>3 DEF Overwritten, SetAside, LeftAlone, Stays, Goes, TreeTypeOK, Trees
  <2>6. listed # Absent /\ cut = {} => Pending(disk, listed, waiting)'
    BY <2>2, <2>4, <2>5 DEF PendingKept, Pending
  <2>7. cut = {} /\ f \in Shipped[binary] /\ disk'[f] # Absent /\ disk'[f].edit # 0 /\ disk'[f].rel # binary
          => f \in tcmd'.keep
    <3>1. CASE Overwritten(f)
      BY <2>1, <2>3, <3>1 DEF Overwritten, TreeTypeOK, Trees
    <3>2. CASE SetAside(f)
      BY <3>2 DEF SetAside
    <3>3. CASE LeftAlone(f)
      <4>1. disk' = disk /\ listed # Absent /\ listed[f] = NewDefault /\ waiting[f] = Absent
        BY <3>3 DEF LeftAlone, KeptFile, NewerDefault
      <4> QED BY <2>1, <2>3, <4>1 DEF PendingKept, Pending
    <3> QED BY <2>1, <3>1, <3>2, <3>3
  <2>8. cut = {} => \A g \in Shipped[binary] \ tcmd'.left :
                      disk'[g] # Absent /\ disk'[g].edit # 0 /\ disk'[g].rel # binary => g \in tcmd'.keep
    <3>1. Shipped[binary] \subseteq TreeFiles
      BY DEF TreeTypeOK
    <3> QED BY <2>2, <2>4, <2>7, <3>1 DEF PendingKept
  <2> QED BY <2>2, <2>6, <2>8, ArchivePends DEF PendingKept
<1>4. CASE RefreshManifest
  <2>1. /\ tcmd.pc = "files" /\ tcmd.left = {} /\ tcmd'.pc = "stamp" /\ UNCHANGED <<disk, tarball, cut>>
    BY <1>4, ManifestReads DEF RefreshManifest
  <2>2. NewDefault # Absent /\ NewDefault.rel = binary
    BY NewIsDefault
  <2>3. \A f \in TreeFiles : /\ listed'[f] # Absent => listed'[f] = NewDefault /\ f \in Shipped[binary]
                             /\ f \in tcmd.keep => waiting'[f] = NewDefault
    BY <1>4, <2>1 DEF RefreshManifest, WaitingKept, NewDefault
  <2>4. cut = {} => Pending(disk, listed, waiting)'
    BY <2>1, <2>2, <2>3 DEF PendingKept, Pending
  <2> QED BY <2>1, <2>4, ArchivePends DEF PendingKept
<1>5. CASE RefreshStamp
  BY <1>5, PendingQuiet DEF RefreshStamp, StampLast
<1>6. CASE RefreshEnds
  BY <1>6, PendingQuiet, EndsReads DEF RefreshEnds
<1>7. CASE BumpHelmfile
  <2>1. /\ disk[Helmfile] \in TreeContents /\ tcmd'.pc = "record" /\ disk[Helmfile] # Absent
    BY <1>7, FileReads, CommandsAt DEF BumpHelmfile
  <2> DEFINE c == [disk[Helmfile] EXCEPT !.bump = 1]
  <2>2. c \in TreeContents /\ c.edit = disk[Helmfile].edit /\ c.rel = disk[Helmfile].rel
    BY <2>1, ContentEdits
  <2>3. disk' = [disk EXCEPT ![Helmfile] = c] /\ UNCHANGED <<listed, waiting, tarball, cut>>
    BY <1>7 DEF BumpHelmfile
  <2> HIDE DEF c
  <2>4. disk'[Helmfile] = c /\ \A g \in TreeFiles \ {Helmfile} : disk'[g] = disk[g]
    BY <2>3 DEF TreeTypeOK, Trees
  <2>5. listed # Absent /\ cut = {} => Pending(disk, listed, waiting)'
    BY <2>1, <2>2, <2>3, <2>4 DEF PendingKept, Pending
  <2> QED BY <2>1, <2>3, <2>5, ArchivePends DEF PendingKept
<1>8. CASE RecordRewrite
  <2>1. tcmd'.pc = "sync" /\ tcmd.pc = "record" /\ UNCHANGED <<disk, waiting, tarball, cut>>
    BY <1>8, CommandsAt DEF RecordRewrite
  <2>2. \/ listed' = listed
        \/ listed # Absent /\ listed' = [listed EXCEPT ![Helmfile] = disk[Helmfile]]
    BY <1>8 DEF RecordRewrite
  <2>3. listed' # Absent => listed # Absent
    BY <2>2
  <2>4. listed # Absent => \A f \in TreeFiles : listed'[f] = listed[f] \/ listed'[f] = disk[f]
    BY <2>2 DEF TreeTypeOK, Trees
  <2>5. listed' # Absent /\ cut = {} => Pending(disk, listed, waiting)'
    BY <2>1, <2>3, <2>4 DEF PendingKept, Pending
  <2> QED BY <2>1, <2>5, ArchivePends DEF PendingKept
<1>9. CASE BumpInstance
  BY <1>9, PendingQuiet, CommandsAt DEF BumpInstance
<1>10. CASE BumpSkipped
  BY <1>10, PendingQuiet, CommandsAt DEF BumpSkipped
<1>11. CASE SyncTree
  BY <1>11, PendingQuiet, CommandsAt DEF SyncTree
<1>12. CASE TreeCrash
  <2>1. UNCHANGED <<disk, listed, waiting, tarball>> /\ tcmd'.pc = "idle" /\ cut \subseteq cut'
    BY <1>12, CommandsAt DEF TreeCrash
  <2> QED BY <2>1, ArchivePends DEF PendingKept, Pending
<1>13. CASE ExportTree
  <2>1. tcmd'.pc = "idle" /\ UNCHANGED <<disk, listed, waiting, cut>> /\ stamp # 0
    BY <1>13, CommandsAt, BeginTyped DEF ExportTree
  <2>2. tarball'.disk = disk /\ tarball'.waiting = waiting /\ tarball'.listed = listed /\ listed # Absent
    BY <1>13, <2>1 DEF ExportTree, EditsKept
  <2> QED BY <2>1, <2>2 DEF PendingKept, Pending
<1>14. CASE ClearForRestore
  <2>1. tcmd'.pc = "restore" /\ listed' = Absent /\ UNCHANGED <<tarball, cut>>
    BY <1>14, CommandsAt, BeginTyped DEF ClearForRestore
  <2> QED BY <2>1, ArchivePends DEF PendingKept
<1>15. CASE RestoreTree
  <2>1. tcmd'.pc = "idle" /\ UNCHANGED <<tarball, cut>> /\ tarball # Absent
    BY <1>15, CommandsAt DEF RestoreTree, EditsKept
  <2>2. disk' = tarball.disk /\ waiting' = tarball.waiting /\ listed' = tarball.listed
    BY <1>15 DEF RestoreTree
  <2> QED BY <2>1, <2>2 DEF PendingKept, Pending
<1>16. CASE HandEdit
  <2>1. PICK f \in TreeFiles :
          /\ disk[f] # Absent /\ disk[f].edit = 0 /\ disk' = [disk EXCEPT ![f].edit = tedits + 1]
          /\ UNCHANGED <<listed, waiting, tarball, tcmd, cut>> /\ tcmd.pc = "idle"
    BY <1>16, CommandsAt DEF HandEdit
  <2>2. disk[f] \in TreeContents /\ tedits + 1 \in Nat
    BY <2>1, FileReads DEF TreeTypeOK
  <2> DEFINE c == [disk[f] EXCEPT !.edit = tedits + 1]
  <2>3. c \in TreeContents /\ c.rel = disk[f].rel
    BY <2>2, ContentEdits
  <2>4. disk' = [disk EXCEPT ![f] = c]
    BY <2>1
  <2> HIDE DEF c
  <2>5. disk'[f] = c /\ \A g \in TreeFiles \ {f} : disk'[g] = disk[g]
    BY <2>4 DEF TreeTypeOK, Trees
  <2>6. listed # Absent /\ cut = {} => listed[f] = disk[f]
    BY <2>1, QuietTold DEF Told
  <2>7. listed # Absent /\ cut = {} => Pending(disk, listed, waiting)'
    BY <2>1, <2>3, <2>5, <2>6 DEF PendingKept, Pending
  <2> QED BY <2>1, <2>7, ArchivePends DEF PendingKept
<1>17. CASE TakePending
  <2>1. PICK f \in TreeFiles :
          /\ disk' = [disk EXCEPT ![f] = waiting[f]] /\ waiting[f] # Absent
          /\ UNCHANGED <<listed, waiting, tarball, tcmd, cut>> /\ tcmd.pc = "idle"
    BY <1>17, CommandsAt DEF TakePending
  <2>2. disk'[f] = waiting[f] /\ waiting[f].edit = 0 /\ \A g \in TreeFiles \ {f} : disk'[g] = disk[g]
    BY <2>1 DEF TreeTypeOK, Trees, EditsKept, NoEdit
  <2>3. listed # Absent /\ cut = {} => Pending(disk, listed, waiting)'
    BY <2>1, <2>2 DEF PendingKept, Pending
  <2> QED BY <2>1, <2>3, ArchivePends DEF PendingKept
<1>18. CASE NewBinary
  BY <1>18, PendingQuiet, CommandsAt, BeginTyped DEF NewBinary
<1>19. CASE Retag
  BY <1>19 DEF Retag, PendingKept, Pending
<1> QED
  BY <1>1, <1>2, <1>3, <1>4, <1>5, <1>6, <1>7, <1>8, <1>9, <1>10, <1>11, <1>12, <1>13, <1>14, <1>15, <1>16,
     <1>17, <1>18, <1>19 DEF TreeNext

-----------------------------------------------------------------------------
(* The defaults tree: the theorem *)

LEMMA TreeBegins == TreeInit => TreeIInv
<1> SUFFICES ASSUME TreeInit PROVE TreeIInv
  OBVIOUS
<1> USE TreeMarks, CommandsAt
<1>1. disk \in Trees /\ waiting \in Trees /\ \A f \in TreeFiles : disk[f] = Absent /\ waiting[f] = Absent
  BY DEF TreeInit, Trees
<1>2. TreeTypeOK
  BY <1>1 DEF TreeInit, TreeTypeOK, Contents
<1>3. EditsKept
  BY <1>1 DEF TreeInit, EditsKept, HandEditsSurvive, NoEdit
<1>4. PinsKept
  BY <1>1 DEF TreeInit, PinsKept, Refreshing, Bound
<1>5. ToldKept /\ WholeKept
  BY <1>1 DEF TreeInit, ToldKept, Told, WholeKept, Refreshing
<1>6. WaitingKept /\ PendingKept
  BY <1>1 DEF TreeInit, WaitingKept, Told, PendingKept
<1> QED BY <1>2, <1>3, <1>4, <1>5, <1>6 DEF TreeIInv

LEMMA TreeStutters == TreeIInv /\ UNCHANGED treeVars => TreeIInv'
<1> SUFFICES ASSUME TreeIInv, UNCHANGED treeVars PROVE TreeIInv'
  OBVIOUS
<1>1. TreeTypeOK'
  BY DEF TreeIInv, TreeTypeOK, Contents
<1>2. EditsKept'
  BY EditsQuiet DEF TreeIInv
<1>3. PinsKept'
  BY DEF TreeIInv, PinsKept, Refreshing, Bound
<1>4. ToldKept'
  BY DEF TreeIInv, ToldKept, Told, Renewed, NewDefault
<1>5. WholeKept'
  BY DEF TreeIInv, WholeKept, Refreshing, Whole, Of, Fits
<1>6. WaitingKept'
  BY DEF TreeIInv, WaitingKept, Told, NewDefault
<1>7. PendingKept'
  BY DEF TreeIInv, PendingKept, Pending
<1> QED BY <1>1, <1>2, <1>3, <1>4, <1>5, <1>6, <1>7 DEF TreeIInv

LEMMA TreeStep == TreeIInv /\ [TreeNext]_treeVars => TreeIInv'
<1>1. CASE TreeIInv /\ TreeNext
  <2>1. TreeTypeOK /\ EditsKept /\ PinsKept /\ ToldKept /\ WholeKept /\ WaitingKept /\ PendingKept /\ TreeNext
    BY <1>1 DEF TreeIInv
  <2> QED BY <2>1, TreeTypeStep, EditsStep, PinsStep, ToldStep, WholeStep, WaitingStep, PendingStep DEF TreeIInv
<1> QED BY <1>1, TreeStutters

LEMMA TreeIInvImplies == TreeIInv => TreeInv
<1> SUFFICES ASSUME TreeIInv PROVE TreeInv
  OBVIOUS
<1>1. TreeTypeOK /\ HandEditsSurvive
  BY DEF TreeIInv, EditsKept
<1>2. StampedTreeIsCurrent
  BY CommandsAt DEF TreeIInv, WholeKept, Refreshing, Whole, Fits, StampedTreeIsCurrent
<1>3. SkippedDefaultIsPending
  BY DEF TreeIInv, PendingKept, Pending, SkippedDefaultIsPending
<1>4. PinnedImagesStay
  BY DEF TreeIInv, PinsKept, Bound, PinnedImagesStay, Contents
<1> QED BY <1>1, <1>2, <1>3, <1>4 DEF TreeInv

(***************************************************************************)
(* Whatever refreshes, resets, upgrades, exports, imports and crashes come,*)
(* no hand edit is lost, a tree stamped current is current, the newer      *)
(* default of an edited file goes on waiting, and every image stays at the *)
(* digest its tag was first bound to (preserve.go, images.go).             *)
(***************************************************************************)
THEOREM TreeHolds == TreeSpec => []TreeInv
<1>1. TreeInit => TreeIInv
  BY TreeBegins
<1>2. TreeIInv /\ [TreeNext]_treeVars => TreeIInv'
  BY TreeStep
<1>3. TreeIInv => TreeInv
  BY TreeIInvImplies
<1> QED BY <1>1, <1>2, <1>3, PTL DEF TreeSpec
=============================================================================
