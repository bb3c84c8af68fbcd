---------------------------- MODULE ModelRoutes ----------------------------
(***************************************************************************)
(* obol model: the model list of the LiteLLM gateway.  One ConfigMap holds *)
(* it and one Secret the provider keys; the router's pods read both when   *)
(* they start and are then changed by API calls.  The host keeps a record  *)
(* of the list that obol stack up puts back, and the default agent takes   *)
(* the head of the list.  LiteLLM, Kubernetes and Ollama are external.     *)
(***************************************************************************)
EXTENDS Integers, Sequences, FiniteSets

CONSTANTS CloudModel,    \* served with the provider's key
          LocalModel,    \* an OpenAI-compatible endpoint on a local port
          OllamaModel,   \* what Ollama has pulled
          PaidModel,     \* a purchase's alias
          CatchAll,      \* the chart's paid/* route
          NoRoutes,      \* no cluster, no record
          MaxModelCmds, MaxModelFaults

Entry(n, at) == [name |-> n, at |-> at]
OperatorModels == {CloudModel, LocalModel, OllamaModel}
ModelEntries == [name : OperatorModels \cup {PaidModel, CatchAll}, at : 1..3]
Keys == {1, 2}
FromEnv == 3                       \* a recorded reference to the variable
ModelRecords == [list : Seq(ModelEntries), key : {0, FromEnv} \cup Keys]

ASSUME ModelAssumption ==
    /\ {MaxModelCmds, MaxModelFaults} \subseteq Nat
    /\ {PaidModel, CatchAll, NoRoutes} \cap OperatorModels = {}
    /\ CloudModel # LocalModel /\ LocalModel # OllamaModel /\ OllamaModel # CloudModel
    /\ PaidModel # CatchAll /\ NoRoutes \notin {PaidModel, CatchAll}
    /\ NoRoutes \notin Seq(ModelEntries) /\ NoRoutes \notin ModelRecords

VARIABLES routes,      \* model_list of the ConfigMap litellm-config
          secretKey,   \* the provider's key in litellm-secrets, 0 for none
          router,      \* what the running pods route
          routerKey,   \* and the key they started with
          hostKey,     \* the host's environment variable of the key
          portUp,      \* a server answers on the local port
          modelRec,    \* recorded-models.yaml
          primary,     \* the default agent's model
          intent,      \* what each name was last set up as, 0 if not or removed
          head,        \* the name last promoted
          modelCmd, modelFaults, modelCmds,
          unsaved,     \* a change of the list is not in the record
          replayedUp   \* the last command was a stack up that ran through

clusterVars == <<routes, secretKey, router, routerKey>>
modelCounts == <<modelFaults, modelCmds>>
intentVars == <<intent, head, unsaved>>
modelVars == <<clusterVars, hostKey, portUp, modelRec, primary, intentVars, modelCmd, modelCounts, replayedUp>>

Detected == 1                      \* the entry auto-detection writes
Chart == <<Entry(CatchAll, Detected)>>

RouteEntries(list) == {list[i] : i \in 1..Len(list)}
EntryNames(list) == {list[i].name : i \in 1..Len(list)}
Lists(list, n) == \E i \in 1..Len(list) : list[i].name = n
Named(list, n) == list[CHOOSE i \in 1..Len(list) : list[i].name = n]
First(list) == IF list = <<>> THEN NoRoutes ELSE list[1].name

\* The entries whose name is not one of names, in their order.
Leaving(list, names) ==
    LET kept == {i \in 1..Len(list) : list[i].name \notin names}
        Place(i) == Cardinality({k \in kept : k <= i})
    IN [j \in 1..Cardinality(kept) |-> list[CHOOSE i \in kept : Place(i) = j]]
Without(list, n) == Leaving(list, {n})
Up == routes # NoRoutes
ModelIdle == [pc |-> "idle"]
ModelFault == modelFaults < MaxModelFaults /\ modelFaults' = modelFaults + 1

----------------------------------------------------------------------------
\* Operators of the commands.

\* patchLiteLLMConfig: an entry of the name is replaced where it stands, a new
\* one goes to the end.
PatchLiteLLMConfig(list, e) ==
    IF Lists(list, e.name) THEN [i \in DOMAIN list |-> IF list[i].name = e.name THEN e ELSE list[i]]
    ELSE Append(list, e)

\* reorderModelList: the named entry moves to the head.
ReorderModelList(list, n) == <<Named(list, n)>> \o Without(list, n)

\* filterRecordableEntries: no paid/ route is recorded.
FilterRecordable(list) == Leaving(list, {CatchAll, PaidModel})

\* MergeRecordedModelList: the recorded entries in their order, then the others.
MergeRecorded(recorded, now) == recorded \o Leaving(now, EntryNames(recorded))

\* GetConfiguredModels: a wildcard expands to the models of its provider and
\* paid/* to none.
GetConfiguredModels(list) == Without(list, CatchAll)

\* Rank: the order of the list; its head is the primary model.
Rank(list) == First(GetConfiguredModels(list))

\* HasConfiguredModels: anything beside the catch-all.
HasConfiguredModels(list) == Without(list, CatchAll) # <<>>

\* toEnvRefs: a key the environment has is recorded as a reference to it.
ToEnvRefs(k) == IF k # 0 /\ k = hostKey THEN FromEnv ELSE k

\* secretEnvVarsFromEntries: the keys the recorded entries refer to.
ReferencedKey(list) == IF Lists(list, CloudModel) THEN secretKey ELSE 0

\* resolveSecretRefs: a reference whose variable is unset is dropped.
ResolveSecretRefs(k) == IF k = FromEnv THEN hostKey ELSE k

\* The pods of a rollout read the ConfigMap and the Secret.
Rolled == router' = RouteEntries(routes) /\ routerKey' = secretKey
Unrolled == UNCHANGED <<router, routerKey>>

Goto(pc) == modelCmd' = [modelCmd EXCEPT !.pc = pc]
ModelEnds == modelCmd' = ModelIdle
ModelBegin(c) ==
    /\ Up /\ modelCmd = ModelIdle /\ modelCmds < MaxModelCmds /\ modelCmds' = modelCmds + 1
    /\ modelCmd' = c /\ replayedUp' = FALSE
    /\ UNCHANGED <<hostKey, portUp, primary, modelFaults>>

----------------------------------------------------------------------------
\* obol model setup.

\* A setup of one name: the key it stores (0 for none), whether it promotes the
\* name and records and syncs at the end.
Setup(n, at, key, promotes, records) ==
    /\ ModelBegin([pc |-> IF key = 0 THEN "entries" ELSE "secret", entry |-> Entry(n, at), key |-> key,
                   promotes |-> promotes, records |-> records, sync |-> TRUE])
    /\ UNCHANGED <<clusterVars, modelRec, intentVars>>

\* existingAPIKey: the environment's key, else the stored one, else one is typed.
ExistingAPIKey == IF hostKey # 0 THEN {hostKey} ELSE IF secretKey # 0 THEN {secretKey} ELSE Keys

SetupCloudProvider == \E k \in ExistingAPIKey : Setup(CloudModel, Detected, k, TRUE, TRUE)

\* A named model is promoted; the inventory of Ollama is only added.
SetupOllama == \E named \in BOOLEAN : Setup(OllamaModel, Detected, 0, named, TRUE)

\* ValidateCustomEndpointWithOptions: it is reached and completes a probe; of
\* the two endpoints, 2 is the server on the local port.
ValidateCustomEndpoint(at) == at = 2 => portUp

\* An endpoint, a new one or the one of before: --no-sync neither promotes nor
\* records it.
AddCustomEndpoint ==
    \E at \in {2, 3}, sync \in BOOLEAN :
        ValidateCustomEndpoint(at) /\ Setup(LocalModel, at, 0, sync, sync)

\* PatchLiteLLMProvider: the key, then the entries.
PatchSecret ==
    /\ modelCmd.pc = "secret" /\ secretKey' = modelCmd.key /\ Goto("entries")
    /\ UNCHANGED <<routes, router, routerKey, hostKey, portUp, modelRec, primary, intentVars, modelCounts, replayedUp>>

PatchEntries ==
    /\ modelCmd.pc = "entries"
    /\ routes' = PatchLiteLLMConfig(routes, modelCmd.entry)
    /\ intent' = [intent EXCEPT ![modelCmd.entry.name] = modelCmd.entry.at] /\ unsaved' = TRUE
    /\ Goto(IF modelCmd.key = 0 THEN "hotadd" ELSE "restart")
    /\ UNCHANGED <<secretKey, router, routerKey, hostKey, portUp, modelRec, primary, head, modelCounts, replayedUp>>

\* After the router has the entries.
Configured == IF modelCmd.promotes THEN "promote" ELSE IF modelCmd.records THEN "record" ELSE "end"

\* hotAddModels: one more deployment of the name in the running router, else a
\* restart.
HotAdd ==
    /\ modelCmd.pc = "hotadd"
    /\ \/ router' = router \cup {modelCmd.entry} /\ Goto(Configured) /\ UNCHANGED modelFaults
       \/ ModelFault /\ Goto("restart") /\ UNCHANGED router
    /\ UNCHANGED <<routes, secretKey, routerKey, hostKey, portUp, modelRec, primary, intentVars, modelCmds, replayedUp>>

\* RestartLiteLLM: a rollout that is not confirmed fails the command.
RestartLiteLLM ==
    /\ modelCmd.pc = "restart"
    /\ \/ Rolled /\ Goto(Configured) /\ UNCHANGED modelFaults
       \/ ModelFault /\ (Rolled \/ Unrolled) /\ ModelEnds
    /\ UNCHANGED <<routes, secretKey, hostKey, portUp, modelRec, primary, intentVars, modelCmds, replayedUp>>

\* promoteAndSync: a promotion that fails is a warning.
Promote ==
    /\ modelCmd.pc = "promote" /\ Goto("record")
    /\ \/ routes' = ReorderModelList(routes, modelCmd.entry.name) /\ head' = modelCmd.entry.name /\ UNCHANGED modelFaults
       \/ ModelFault /\ UNCHANGED <<routes, head>>
    /\ UNCHANGED <<secretKey, router, routerKey, hostKey, portUp, modelRec, primary, intent, unsaved, modelCmds, replayedUp>>

----------------------------------------------------------------------------
\* obol model prefer and obol model remove.

\* With --no-sync the agent keeps its model until obol model sync.
ModelPreferCommand == [pc : {"record"}, sync : BOOLEAN]
ModelRemoveCommand(n) == [pc : {"hotdelete"}, name : {n}, sync : BOOLEAN]

PreferModels ==
    \E n \in OperatorModels, c \in ModelPreferCommand :
        /\ Up /\ Lists(routes, n)
        /\ ModelBegin(c)
        /\ routes' = ReorderModelList(routes, n) /\ head' = n /\ unsaved' = TRUE
        /\ UNCHANGED <<secretKey, router, routerKey, modelRec, intent>>

RemoveModel ==
    \E n \in OperatorModels : \E c \in ModelRemoveCommand(n) :
        /\ Up /\ Lists(routes, n)
        /\ ModelBegin(c)
        /\ routes' = Without(routes, n) /\ unsaved' = TRUE
        /\ intent' = [intent EXCEPT ![n] = 0] /\ head' = IF head = n THEN NoRoutes ELSE head
        /\ UNCHANGED <<secretKey, router, routerKey, modelRec>>

\* hotDeleteModel: every deployment of the name; a failure is a warning.
HotDelete ==
    /\ modelCmd.pc = "hotdelete" /\ Goto("record")
    /\ \/ router' = {e \in router : e.name # modelCmd.name} /\ UNCHANGED modelFaults
       \/ ModelFault /\ UNCHANGED router
    /\ UNCHANGED <<routes, secretKey, routerKey, hostKey, portUp, modelRec, primary, intentVars, modelCmds, replayedUp>>

----------------------------------------------------------------------------
\* The record and the agent.

\* RecordState: the list as it is now, and the key its entries refer to.  A
\* Secret that cannot be read records no key; nothing fails the command.
RecordState ==
    /\ modelCmd.pc = "record" /\ Goto(IF modelCmd.sync THEN "sync" ELSE "end")
    /\ \/ /\ modelRec' = [list |-> FilterRecordable(routes), key |-> ToEnvRefs(ReferencedKey(routes))]
          /\ unsaved' = FALSE /\ UNCHANGED modelFaults
       \/ /\ ModelFault /\ modelRec' = [list |-> FilterRecordable(routes), key |-> 0] /\ unsaved' = FALSE
       \/ ModelFault /\ UNCHANGED <<modelRec, unsaved>>
    /\ UNCHANGED <<clusterVars, hostKey, portUp, primary, intent, head, modelCmds, replayedUp>>

\* hermes.SyncDefaultModels; a command with --no-sync leaves the agent alone.
SyncDefaultModels ==
    /\ modelCmd.pc \in {"sync", "end"} /\ ModelEnds
    /\ IF modelCmd.pc = "sync" THEN primary' = Rank(routes) ELSE UNCHANGED primary
    /\ UNCHANGED <<clusterVars, hostKey, portUp, modelRec, intentVars, modelCounts, replayedUp>>

\* A command is cut between two steps.  A stack up cut after detection leaves the
\* detected entry in the operator's place, and on a new cluster a list without the
\* recorded entries and their order: the next record takes it.
ModelCut ==
    /\ modelCmd # ModelIdle /\ ModelFault /\ ModelEnds
    /\ intent' = [n \in OperatorModels |->
                    IF Lists(routes, n) /\ Named(routes, n).at = intent[n] THEN intent[n] ELSE 0]
    /\ head' = IF First(FilterRecordable(routes)) = head THEN head ELSE NoRoutes
    /\ UNCHANGED <<clusterVars, hostKey, portUp, modelRec, primary, unsaved, modelCmds, replayedUp>>

----------------------------------------------------------------------------
\* obol stack up.

RecordedList == IF modelRec = NoRoutes THEN <<>> ELSE modelRec.list

\* An operator whose last change was not recorded counts on the record only.
Settled ==
    IF ~unsaved THEN UNCHANGED <<intent, head>>
    ELSE /\ intent' = [n \in OperatorModels |-> IF Lists(RecordedList, n) THEN Named(RecordedList, n).at ELSE 0]
         /\ head' = First(RecordedList)

\* The chart keeps the ConfigMap of a live cluster; a new one has the catch-all.
StackSync ==
    /\ modelCmd = ModelIdle /\ modelCmds < MaxModelCmds /\ modelCmds' = modelCmds + 1
    /\ modelCmd' = [pc |-> "auto"] /\ replayedUp' = FALSE /\ unsaved' = FALSE /\ Settled
    /\ IF Up THEN UNCHANGED clusterVars
       ELSE routes' = Chart /\ secretKey' = 0 /\ router' = RouteEntries(Chart) /\ routerKey' = 0
    /\ UNCHANGED <<hostKey, portUp, modelRec, primary, modelFaults>>

\* Ollama's models, if nothing is configured: an alias of a purchase is enough.
AutoEntriesOllama(list) ==
    IF ~HasConfiguredModels(list) THEN PatchLiteLLMConfig(list, Entry(OllamaModel, Detected)) ELSE list

\* autoDetectLocalProviders: then what answers on the local ports, over an
\* operator's entry of the same name too.
AutoEntries(list) ==
    IF portUp THEN PatchLiteLLMConfig(AutoEntriesOllama(list), Entry(LocalModel, Detected)) ELSE AutoEntriesOllama(list)

\* One restart when a provider was patched.
AutoConfigureLLM ==
    /\ modelCmd.pc = "auto"
    /\ routes' = AutoEntries(routes)
    /\ Goto(IF portUp \/ ~HasConfiguredModels(routes) THEN "autorestart" ELSE "reconcile")
    /\ UNCHANGED <<secretKey, router, routerKey, hostKey, portUp, modelRec, primary, intentVars, modelCounts, replayedUp>>

UpRestart(pc, next) ==
    /\ modelCmd.pc = pc
    /\ \/ Rolled /\ Goto(next) /\ UNCHANGED modelFaults
       \/ ModelFault /\ (Rolled \/ Unrolled) /\ Goto(next)
    /\ UNCHANGED <<routes, secretKey, hostKey, portUp, modelRec, primary, intentVars, modelCmds, replayedUp>>

\* A restart that fails is a warning.
AutoRestart == UpRestart("autorestart", "reconcile")

\* Mutant: a changed list alone does not restart the router.
ReconcileRestarts(listed, keyed) == keyed

\* Reloader does not watch the ConfigMap.
ReconcileNeedsRestart(listed, keyed) == listed \/ keyed

\* ReconcileRecorded: the list, then the keys; no record, nothing to do.
ReconcileRecorded ==
    /\ modelCmd.pc = "reconcile"
    /\ IF RecordedList = <<>> THEN Goto("upsync") /\ UNCHANGED routes
       ELSE LET merged == MergeRecorded(RecordedList, routes) IN
            routes' = merged /\ modelCmd' = [pc |-> "keys", listed |-> merged # routes]
    /\ UNCHANGED <<secretKey, router, routerKey, hostKey, portUp, modelRec, primary, intentVars, modelCounts, replayedUp>>

ApplyRecordedSecrets ==
    /\ modelCmd.pc = "keys"
    /\ LET k == ResolveSecretRefs(modelRec.key)
           keyed == k # 0 /\ k # secretKey IN
       /\ secretKey' = IF keyed THEN k ELSE secretKey
       /\ Goto(IF ReconcileNeedsRestart(modelCmd.listed, keyed) THEN "uprestart" ELSE "upsync")
    /\ UNCHANGED <<routes, router, routerKey, hostKey, portUp, modelRec, primary, intentVars, modelCounts, replayedUp>>

ReconcileRestart == UpRestart("uprestart", "upsync")

\* hermes.SetupDefault takes the head of the list.
SetupDefault ==
    /\ modelCmd.pc = "upsync" /\ ModelEnds /\ primary' = Rank(routes) /\ replayedUp' = TRUE
    /\ UNCHANGED <<clusterVars, hostKey, portUp, modelRec, intentVars, modelCounts>>

----------------------------------------------------------------------------
\* What goes on around the commands.

\* The cluster is deleted; what is not recorded is gone.
ModelClusterGone ==
    /\ Up /\ modelCmd = ModelIdle /\ modelCmds < MaxModelCmds /\ modelCmds' = modelCmds + 1
    /\ routes' = NoRoutes /\ secretKey' = 0 /\ router' = {} /\ routerKey' = 0 /\ replayedUp' = FALSE
    /\ UNCHANGED <<hostKey, portUp, modelRec, primary, intentVars, modelCmd, modelFaults>>

\* The pods are replaced, by a node, an eviction or a chart change.
PodsReplaced ==
    /\ Up /\ Rolled
    /\ UNCHANGED <<routes, secretKey, hostKey, portUp, modelRec, primary, intentVars, modelCmd, modelCounts, replayedUp>>

\* The controller's calls of the router: one deployment more, and every
\* deployment of a name less.
HotAddLiteLLMModel(e) == router \cup {e}
LiteLLMModelsByName(n) == {e \in router : e.name = n}
HotDeleteLiteLLMModel(n) == router \ LiteLLMModelsByName(n)

\* It adds a purchase's alias and takes it away again; a call that fails is
\* logged.
PurchaseRoutes ==
    /\ Up /\ modelCmd = ModelIdle /\ modelCmds < MaxModelCmds /\ modelCmds' = modelCmds + 1
    /\ LET e == Entry(PaidModel, Detected)
           there == Lists(routes, PaidModel) IN
       /\ routes' = IF there THEN Without(routes, PaidModel) ELSE Append(routes, e)
       /\ \/ /\ router' = IF there THEN HotDeleteLiteLLMModel(PaidModel) ELSE HotAddLiteLLMModel(e)
             /\ UNCHANGED modelFaults
          \/ ModelFault /\ UNCHANGED router
    /\ replayedUp' = FALSE
    /\ UNCHANGED <<secretKey, routerKey, hostKey, portUp, modelRec, primary, intentVars, modelCmd>>

\* The variable and the local server, between commands.
HostChanges ==
    /\ modelCmd = ModelIdle /\ modelCmds < MaxModelCmds /\ modelCmds' = modelCmds + 1
    /\ \/ hostKey' \in ({0} \cup Keys) \ {hostKey} /\ UNCHANGED portUp
       \/ portUp' = ~portUp /\ UNCHANGED hostKey
    /\ replayedUp' = FALSE
    /\ UNCHANGED <<clusterVars, modelRec, primary, intentVars, modelCmd, modelFaults>>

ModelInit ==
    /\ routes = Chart /\ router = RouteEntries(Chart) /\ secretKey = 0 /\ routerKey = 0
    /\ hostKey \in {0, 1} /\ portUp \in BOOLEAN
    /\ modelRec = NoRoutes /\ primary = NoRoutes /\ head = NoRoutes
    /\ intent = [n \in OperatorModels |-> 0]
    /\ modelCmd = ModelIdle /\ modelFaults = 0 /\ modelCmds = 0 /\ unsaved = FALSE /\ replayedUp = FALSE

ModelNext ==
    \/ SetupCloudProvider \/ SetupOllama \/ AddCustomEndpoint \/ PatchSecret \/ PatchEntries
    \/ HotAdd \/ RestartLiteLLM \/ Promote \/ PreferModels \/ RemoveModel \/ HotDelete
    \/ RecordState \/ SyncDefaultModels \/ ModelCut
    \/ StackSync \/ AutoConfigureLLM \/ AutoRestart \/ ReconcileRecorded \/ ApplyRecordedSecrets
    \/ ReconcileRestart \/ SetupDefault
    \/ ModelClusterGone \/ PodsReplaced \/ PurchaseRoutes \/ HostChanges

ModelSpec == ModelInit /\ [][ModelNext]_modelVars

----------------------------------------------------------------------------
\* Properties.

\* Type invariant: a list names a model once, keys are keys (model.go:221-232).
ModelTypeOK ==
    /\ secretKey \in {0} \cup Keys /\ routerKey \in {0} \cup Keys /\ hostKey \in {0} \cup Keys
    /\ Up => \A i, j \in 1..Len(routes) : routes[i].name = routes[j].name => i = j
    /\ modelRec = NoRoutes \/ modelRec.key \in {0, FromEnv} \cup Keys

\* After a stack up that ran through, on the old cluster or a new one, every
\* model the operator set up is listed as it was set up, over what detection
\* found, and the one promoted last is the agent's (stack.go, "recorded intent
\* wins"; record.go ReconcileRecorded).
RecordedIntentWins ==
    replayedUp => /\ \A n \in OperatorModels :
                        intent[n] # 0 => Lists(routes, n) /\ Named(routes, n).at = intent[n]
                  /\ head # NoRoutes => primary = head

\* Nothing failed: no fault, and no command is running.
Undisturbed == modelFaults = 0 /\ modelCmd = ModelIdle

\* Without a failed call the router serves the names of the list, and no other,
\* with the key of the Secret, although nothing watches the ConfigMap
\* (drift.go: hot calls and restarts are all that keeps them together).
RouterFollowsList ==
    Undisturbed /\ Up => {e.name : e \in router} = EntryNames(routes) /\ routerKey = secretKey

\* What is checked of the model commands, the record and the replay (model.go,
\* record.go).
ModelInv ==
    /\ ModelTypeOK
    /\ RecordedIntentWins
    /\ RouterFollowsList
=============================================================================
