-------------------------- MODULE PurchaseLifecycle --------------------------
(***************************************************************************)
(* The PurchaseRequest reconciler of the serviceoffer-controller           *)
(* (internal/serviceoffercontroller/purchase.go, purchase_helpers.go) with *)
(* what it drives: the two ConfigMaps the buyer sidecar mounts, the        *)
(* sidecar's served pools, and the paid/<model> alias in LiteLLM.          *)
(*                                                                         *)
(* A reconcile is a sequence of API calls, and between two of them a user  *)
(* may edit or delete the request, the informer cache may move, the        *)
(* kubelet may refresh a mount, and the sidecar may spend, reload or be    *)
(* replaced.  Each call is therefore a step of its own; the program        *)
(* counter pc[p] names the next call of p's reconcile.  resourceVersion    *)
(* conflicts are kept: only a user writes a request besides the            *)
(* controller, so a status write conflicts exactly when the request's      *)
(* generation or phase moved since the Get.                                *)
(*                                                                         *)
(* A purchase name is used for one incarnation: created, deleted, gone.    *)
(***************************************************************************)
EXTENDS Naturals, FiniteSets

CONSTANTS Purchases,   \* PurchaseRequests, all in the fixed buyer namespace
          Models,      \* remote models
          ModelOf,     \* spec.model of each purchase
          Vouchers,    \* pre-signed authorizations a purchase may embed
          Workers,     \* the controller's -workers flag (1 by default)
          MaxEdits,    \* bound: top-ups a user writes
          MaxFaults,   \* bound: API or HTTP calls that fail
          MaxOutages,  \* bound: times the sidecar goes away or is unreachable
          MaxCrashes   \* bound: times the controller restarts

ASSUME PurchaseAssumption ==
    /\ ModelOf \in [Purchases -> Models]
    /\ IsFiniteSet(Vouchers)
    /\ Workers \in Nat /\ MaxEdits \in Nat /\ MaxFaults \in Nat
    /\ MaxOutages \in Nat /\ MaxCrashes \in Nat

VARIABLES cr,        \* the PurchaseRequest objects in the API server
          cached,    \* the purchases in the informer's store
          queue,     \* keys in purchaseQueue, delayed and rate-limited ones too
          pc,        \* next call of the reconcile of each purchase
          work,      \* that reconcile's copy of the request
          cm,        \* x402-buyer-config and x402-buyer-auths
          mount,     \* the two ConfigMaps as the sidecar's volume shows them
          pod,       \* the sidecar's pod, as the controller's pod list sees it
          listed,    \* upstreams the sidecar serves (GET /status)
          served,    \* their pools
          consumed,  \* vouchers the sidecar has spent
          aliases,   \* paid/<model> entries of litellm-config
          routed,    \* paid/<model> routes of the running LiteLLM
          drainOwed, \* deleted while Ready for their generation
          left       \* what remains of the four bounds

crVars      == <<cr, cached, drainOwed>>
workerVars  == <<queue, pc, work>>
sidecarVars == <<mount, pod, listed, served, consumed>>
routeVars   == <<aliases, routed>>
vars == <<crVars, workerVars, cm, sidecarVars, routeVars, left>>

NoStatus == [obs |-> 0, probed |-> FALSE, loaded |-> FALSE,
             configured |-> "no", ready |-> "unset", remaining |-> 0,
             deleting |-> "no"]
Absent == [phase |-> "absent", finalizer |-> FALSE, gen |-> 0, pool |-> {},
           status |-> NoStatus]

Status == [obs: Nat, probed: BOOLEAN, loaded: BOOLEAN,
           configured: {"no", "duplicate", "yes"},
           ready: {"unset", "waiting", "ready", "lost"},
           remaining: 0..Cardinality(Vouchers),
           deleting: {"no", "draining", "cleanup"}]
Request == [phase: {"absent", "live", "deleting", "gone"}, finalizer: BOOLEAN,
            gen: Nat, pool: SUBSET Vouchers, status: Status]
Stage == {"idle", "probe", "configure", "writeConfig", "writeAuths", "alias",
          "ready", "status", "drain", "dropAlias", "dropUpstream", "remove",
          "recheck", "finalize"}
Files == [config: SUBSET Purchases, auths: [Purchases -> SUBSET Vouchers]]
Budget == [edits: 0..MaxEdits, faults: 0..MaxFaults, outages: 0..MaxOutages,
           crashes: 0..MaxCrashes]

TypeOK ==
    /\ cr \in [Purchases -> Request]
    /\ cached \subseteq Purchases
    /\ queue \subseteq Purchases
    /\ pc \in [Purchases -> Stage]
    /\ work \in [Purchases -> Request]
    /\ cm \in Files
    /\ mount \in Files
    /\ pod \in {"running", "unready", "none"}
    /\ listed \subseteq Purchases
    /\ served \in [Purchases -> SUBSET Vouchers]
    /\ consumed \in [Purchases -> SUBSET Vouchers]
    /\ aliases \subseteq Models
    /\ routed \subseteq Models
    /\ drainOwed \subseteq Purchases
    /\ left \in Budget

NoFiles == [config |-> {}, auths |-> [p \in Purchases |-> {}]]

Init ==
    /\ cr = [p \in Purchases |-> Absent]
    /\ cached = {} /\ queue = {} /\ drainOwed = {}
    /\ pc = [p \in Purchases |-> "idle"]
    /\ work = [p \in Purchases |-> Absent]
    /\ cm = NoFiles /\ mount = NoFiles
    /\ pod = "running"
    /\ listed = {}
    /\ served = [p \in Purchases |-> {}]
    /\ consumed = [p \in Purchases |-> {}]
    /\ aliases = {} /\ routed = {}
    /\ left = [edits |-> MaxEdits, faults |-> MaxFaults,
               outages |-> MaxOutages, crashes |-> MaxCrashes]

----------------------------------------------------------------------------
\* Helpers.

Exists(p) == cr[p].phase \in {"live", "deleting"}
Use(b) == /\ left[b] > 0
          /\ left' = [left EXCEPT ![b] = @ - 1]
Enqueue(S) == queue' = queue \cup S
\* A write's watch event; before the add event was handled it is part of it.
EnqueueUpdated(p) == Enqueue({p} \cap cached)
Goto(p, stage) == pc' = [pc EXCEPT ![p] = stage]
SetStatus(p, s) == work' = [work EXCEPT ![p].status = s]
My(p) == work[p].status

\* Mutants: a draining purchase no longer counts as an owner; only a draining
\* one does.
OtherLivePurchases(p) ==
    {q \in cached \ {p} : ModelOf[q] = ModelOf[p] /\ cr[q].phase = "live"}
OtherDrainingPurchases(p) ==
    {q \in cached \ {p} : ModelOf[q] = ModelOf[p] /\ cr[q].phase = "deleting"}

\* findOtherActivePurchaseForModel: any other purchase in the informer's
\* store, whatever its phase, that names the same model.
OtherActivePurchases(p) ==
    {q \in cached \ {p} : ModelOf[q] = ModelOf[p]}

\* The three outcomes of checkBuyerStatus.  "not found in sidecar status" is
\* also what it returns when pods exist but none is Running, kept and reachable.
StatusListed(p) == pod = "running" /\ p \in listed
StatusGone(p) == pod = "unready" \/ (pod = "running" /\ p \notin listed)
StatusUnknown == pod = "none"

----------------------------------------------------------------------------
\* Users: kubectl and buy.py.

\* The object must exist with a non-empty pool to be of interest; the watch
\* event that enqueues it comes with InformerAdd.
Create(p) ==
    /\ cr[p].phase = "absent"
    /\ \E pool \in SUBSET Vouchers \ {{}} :
         cr' = [cr EXCEPT ![p] = [Absent EXCEPT !.phase = "live", !.gen = 1,
                                                !.pool = pool]]
    /\ UNCHANGED <<cached, drainOwed, workerVars, cm, sidecarVars, routeVars, left>>

\* buy.py on an existing name, or its process loop: it refuses while the
\* request is converging (a status not yet written does not count as that),
\* draining or not live in the sidecar, drops the vouchers the sidecar had spent
\* when it read its status, and appends new ones.  `late` are the vouchers
\* spent between that read and the PUT.
TopUp(p) ==
    /\ cr[p].phase = "live"
    /\ cr[p].status.obs \in {0, cr[p].gen}
    /\ cr[p].status.ready \in {"unset", "ready"}
    /\ StatusListed(p)
    /\ \E late \in SUBSET (cr[p].pool \cap consumed[p]),
          new \in SUBSET (Vouchers \ (cr[p].pool \cup consumed[p])) \ {{}} :
         cr' = [cr EXCEPT ![p].gen = @ + 1,
                          ![p].pool = (@ \ consumed[p]) \cup late \cup new]
    /\ Use("edits")
    /\ EnqueueUpdated(p)
    /\ UNCHANGED <<cached, drainOwed, pc, work, cm, sidecarVars, routeVars>>

\* A request without the finalizer disappears at once.
Delete(p) ==
    /\ cr[p].phase = "live"
    /\ cr' = [cr EXCEPT ![p].phase =
                IF cr[p].finalizer THEN "deleting" ELSE "gone"]
    /\ drainOwed' = IF /\ cr[p].status.ready = "ready"
                       /\ cr[p].status.obs = cr[p].gen
                    THEN drainOwed \cup {p} ELSE drainOwed
    /\ EnqueueUpdated(p)
    /\ UNCHANGED <<cached, pc, work, cm, sidecarVars, routeVars, left>>

----------------------------------------------------------------------------
\* The informer.

InformerAdd(p) ==
    /\ Exists(p) /\ p \notin cached
    /\ cached' = cached \cup {p}
    /\ Enqueue({p})
    /\ UNCHANGED <<cr, drainOwed, pc, work, cm, sidecarVars, routeVars, left>>

InformerDelete(p) ==
    /\ cr[p].phase = "gone" /\ p \in cached
    /\ cached' = cached \ {p}
    /\ Enqueue({p})
    /\ UNCHANGED <<cr, drainOwed, pc, work, cm, sidecarVars, routeVars, left>>

----------------------------------------------------------------------------
\* reconcilePurchase up to its first branch.

Take(p) ==
    /\ p \in queue /\ pc[p] = "idle"
    /\ Cardinality({q \in Purchases : pc[q] # "idle"}) < Workers

FetchMissing(p) ==
    /\ Take(p) /\ ~Exists(p)
    /\ queue' = queue \ {p}
    /\ UNCHANGED <<crVars, pc, work, cm, sidecarVars, routeVars, left>>

\* Every error of the Get is taken for "deleted": the key is dropped.
FetchFails(p) ==
    /\ Take(p) /\ Exists(p)
    /\ Use("faults")
    /\ queue' = queue \ {p}
    /\ UNCHANGED <<crVars, pc, work, cm, sidecarVars, routeVars>>

\* The update's own watch event brings the key back.
AddFinalizer(p) ==
    /\ Take(p) /\ Exists(p) /\ ~cr[p].finalizer
    /\ cr' = [cr EXCEPT ![p].finalizer = TRUE]
    /\ UNCHANGED <<cached, drainOwed, workerVars, cm, sidecarVars, routeVars, left>>

\* Mutant: conditions of the last generation are kept.
StatusKept(p) == [cr[p].status EXCEPT !.obs = cr[p].gen]

\* status is rebuilt when the spec's generation is not the observed one.
StatusForGeneration(p) ==
    IF cr[p].status.obs = cr[p].gen
    THEN cr[p].status ELSE [NoStatus EXCEPT !.obs = cr[p].gen]

Fetch(p) ==
    /\ Take(p) /\ cr[p].phase = "live" /\ cr[p].finalizer
    /\ queue' = queue \ {p}
    /\ work' = [work EXCEPT ![p] =
                  [cr[p] EXCEPT !.status = StatusForGeneration(p)]]
    /\ Goto(p, "probe")
    /\ UNCHANGED <<crVars, cm, sidecarVars, routeVars, left>>

FetchDeleting(p) ==
    /\ Take(p) /\ cr[p].phase = "deleting" /\ cr[p].finalizer
    /\ queue' = queue \ {p}
    /\ work' = [work EXCEPT ![p] = [cr[p] EXCEPT !.status.obs = cr[p].gen]]
    /\ Goto(p, "drain")
    /\ UNCHANGED <<crVars, cm, sidecarVars, routeVars, left>>

----------------------------------------------------------------------------
\* A live request: probe and load, configure, check, write the status.

AfterLoad(s) == CASE s.configured = "yes" -> "ready"
                  [] s.configured # "yes" /\ s.loaded -> "configure"
                  [] OTHER -> "status"

\* The probe asks the seller; loading only reads the spec.
ProbeAndLoad(p) ==
    /\ pc[p] = "probe"
    /\ \/ LET s == [My(p) EXCEPT !.probed = TRUE, !.loaded = TRUE]
          IN  SetStatus(p, s) /\ Goto(p, AfterLoad(s)) /\ UNCHANGED left
       \/ /\ ~My(p).probed
          /\ Use("faults") /\ Goto(p, "status") /\ UNCHANGED work
    /\ UNCHANGED <<crVars, queue, cm, sidecarVars, routeVars>>

\* First step of reconcilePurchaseConfigure, on the informer's store.
CheckDuplicate(p) ==
    /\ pc[p] = "configure"
    /\ IF OtherActivePurchases(p) # {}
       THEN /\ SetStatus(p, [My(p) EXCEPT !.configured = "duplicate"])
            /\ Goto(p, "status")
       ELSE Goto(p, "writeConfig") /\ UNCHANGED work
    /\ UNCHANGED <<crVars, queue, cm, sidecarVars, routeVars, left>>

ConfigureFails(p) ==
    /\ pc[p] \in {"writeConfig", "writeAuths"}
    /\ SetStatus(p, [My(p) EXCEPT !.configured = "no"])
    /\ Use("faults") /\ Goto(p, "status")
    /\ UNCHANGED <<crVars, queue, cm, sidecarVars, routeVars>>

MergeBuyerConfig(p) ==
    /\ pc[p] = "writeConfig"
    /\ cm' = [cm EXCEPT !.config = @ \cup {p}]
    /\ Goto(p, "writeAuths")
    /\ UNCHANGED <<crVars, queue, work, sidecarVars, routeVars, left>>

\* pendingAuths holds the pool LoadAuths read from this same generation (every
\* new generation resets AuthsLoaded), and the fallback rebuilds it from spec.
MergeBuyerAuths(p) ==
    /\ pc[p] = "writeAuths"
    /\ cm' = [cm EXCEPT !.auths[p] = work[p].pool]
    /\ Goto(p, "alias")
    /\ UNCHANGED <<crVars, queue, work, sidecarVars, routeVars, left>>

\* addLiteLLMModelEntry: an existing entry ends it; a failed ConfigMap write
\* skips the hot add; a failed hot add is only logged.
AliasAdded(m) ==
    \/ m \in aliases /\ UNCHANGED <<routeVars, left>>
    \/ m \notin aliases /\ \/ /\ aliases' = aliases \cup {m}
                              /\ routed' = routed \cup {m}
                              /\ UNCHANGED left
                           \/ Use("faults") /\ UNCHANGED routeVars
                           \/ /\ Use("faults") /\ UNCHANGED routed
                              /\ aliases' = aliases \cup {m}

\* The reload request only hastens the sidecar's own ticker: see Reload.
FinishConfigure(p) ==
    /\ pc[p] = "alias"
    /\ AliasAdded(ModelOf[p])
    /\ SetStatus(p, [My(p) EXCEPT !.configured = "yes",
                                  !.remaining = Cardinality(work[p].pool)])
    /\ Goto(p, "ready")
    /\ UNCHANGED <<crVars, queue, cm, sidecarVars>>

SyncedBefore(s) == s.ready \in {"ready", "lost"}

\* Mutant: counts the loaded pool on top of what is left of it.
ReadyCountsTwice(p) ==
    [My(p) EXCEPT !.ready = "ready",
                  !.remaining = Cardinality(served[p]) + Cardinality(work[p].pool)]

ReadyAfterCheck(p) ==
    LET s == My(p)
        n == Cardinality(served[p])
    IN  IF ~StatusListed(p)
        THEN [s EXCEPT !.ready = IF SyncedBefore(s) THEN "lost" ELSE "waiting"]
        ELSE [s EXCEPT !.remaining = n,
                       !.ready = IF ~SyncedBefore(s)
                                    /\ n # Cardinality(work[p].pool)
                                 THEN "waiting" ELSE "ready"]

CheckReady(p) ==
    /\ pc[p] = "ready"
    /\ SetStatus(p, ReadyAfterCheck(p))
    /\ Goto(p, "status")
    /\ UNCHANGED <<crVars, queue, cm, sidecarVars, routeVars, left>>

\* The request has the resourceVersion of the Get.
Unmoved(p) == cr[p].gen = work[p].gen /\ cr[p].phase = work[p].phase

\* updatePurchaseStatus and the end of the reconcile.  An equal status is not
\* written; a conflict is an error and rate-limits the key back; a write's
\* watch event, a configured purchase and a deleting one bring the key back.
WriteStatus(p) ==
    /\ pc[p] = "status"
    /\ cr' = IF Unmoved(p) THEN [cr EXCEPT ![p].status = My(p)] ELSE cr
    /\ queue' = IF \/ My(p) # cr[p].status \/ My(p).configured = "yes"
                   \/ work[p].phase = "deleting"
                THEN queue \cup {p} ELSE queue
    /\ Goto(p, "idle")
    /\ work' = [work EXCEPT ![p] = Absent]
    /\ UNCHANGED <<cached, drainOwed, cm, sidecarVars, routeVars, left>>

----------------------------------------------------------------------------
\* A deleting request: drain, drop the alias, drop the upstream, check, finish.

\* Mutants: the voucher of the running call counts as spent; a missing upstream
\* is not the drain-done signal.
RemainingAfterThisCall(p) ==
    IF StatusListed(p) /\ served[p] # {} THEN Cardinality(served[p]) - 1 ELSE 0
RemainingWhileConfigured(p) ==
    CASE StatusListed(p) -> Cardinality(served[p])
      [] ~StatusListed(p) /\ My(p).configured = "yes" -> My(p).remaining
      [] OTHER -> 0

\* The entry switch of reconcileDeletingPurchase.
RemainingToDrain(p) ==
    CASE StatusListed(p) -> Cardinality(served[p])
      [] StatusGone(p) -> 0
      [] StatusUnknown /\ My(p).configured = "yes" -> My(p).remaining
      [] OTHER -> 0

Drain(p) ==
    /\ pc[p] = "drain"
    /\ LET n == RemainingToDrain(p)
       IN  IF n > 0
           THEN /\ SetStatus(p, [My(p) EXCEPT !.remaining = n,
                                              !.deleting = "draining"])
                /\ Goto(p, "status")
           ELSE /\ SetStatus(p, [My(p) EXCEPT !.remaining = 0])
                /\ Goto(p, "dropAlias")
    /\ UNCHANGED <<crVars, queue, cm, sidecarVars, routeVars, left>>

\* removeLiteLLMModelEntry: a failed ConfigMap write skips the hot delete.
AliasDropped(m) ==
    \/ aliases' = aliases \ {m} /\ routed' = routed \ {m} /\ UNCHANGED left
    \/ Use("faults") /\ UNCHANGED routeVars
    \/ Use("faults") /\ aliases' = aliases \ {m} /\ UNCHANGED routed

DropAlias(p) ==
    /\ pc[p] = "dropAlias"
    /\ \/ OtherActivePurchases(p) # {} /\ UNCHANGED <<routeVars, left>>
       \/ OtherActivePurchases(p) = {} /\ AliasDropped(ModelOf[p])
    /\ Goto(p, "dropUpstream")
    /\ UNCHANGED <<crVars, queue, work, cm, sidecarVars>>

\* removeBuyerUpstream ignores the errors of both updates.
RemoveBuyerUpstream(p) ==
    /\ pc[p] = "dropUpstream"
    /\ \/ /\ cm' = [config |-> cm.config \ {p},
                    auths |-> [cm.auths EXCEPT ![p] = {}]]
          /\ UNCHANGED left
       \/ cm' = [cm EXCEPT !.auths[p] = {}] /\ Use("faults")
       \/ cm' = [cm EXCEPT !.config = @ \ {p}] /\ Use("faults")
       \/ UNCHANGED cm /\ Use("faults")
    /\ Goto(p, "remove")
    /\ UNCHANGED <<crVars, queue, work, sidecarVars, routeVars>>

\* Proxy.removeUpstreamLocked, on a running pod that answers.
TriggerBuyerRemove(p) ==
    /\ pc[p] = "remove"
    /\ \/ /\ pod = "running"
          /\ listed' = listed \ {p}
          /\ served' = [served EXCEPT ![p] = {}]
          /\ UNCHANGED left
       \/ pod # "running" /\ UNCHANGED <<listed, served, left>>
       \/ Use("faults") /\ UNCHANGED <<listed, served>>
    /\ Goto(p, "recheck")
    /\ UNCHANGED <<crVars, queue, work, cm, mount, pod, consumed, routeVars>>

Recheck(p) ==
    /\ pc[p] = "recheck"
    /\ IF StatusGone(p)
       THEN Goto(p, "finalize") /\ UNCHANGED work
       ELSE /\ SetStatus(p, [My(p) EXCEPT !.deleting = "cleanup"])
            /\ Goto(p, "status")
    /\ UNCHANGED <<crVars, queue, cm, sidecarVars, routeVars, left>>

\* Nothing writes a deleting request besides the controller: no conflict.
RemoveFinalizer(p) ==
    /\ pc[p] = "finalize"
    /\ cr' = [cr EXCEPT ![p].phase = "gone", ![p].finalizer = FALSE]
    /\ Goto(p, "idle")
    /\ work' = [work EXCEPT ![p] = Absent]
    /\ UNCHANGED <<cached, drainOwed, queue, cm, sidecarVars, routeVars, left>>

\* A failed Update or UpdateStatus ends the reconcile with an error, which
\* rate-limits the key back.
WriteFails(p) ==
    /\ \/ pc[p] = "status" /\ My(p) # cr[p].status
       \/ pc[p] = "finalize"
    /\ Use("faults")
    /\ Enqueue({p})
    /\ Goto(p, "idle")
    /\ work' = [work EXCEPT ![p] = Absent]
    /\ UNCHANGED <<crVars, cm, sidecarVars, routeVars>>

\* The process restarts or loses its lease: informers relist, the queue is
\* rebuilt from their add events, running reconciles are gone.
ControllerRestart ==
    /\ Use("crashes")
    /\ cached' = {p \in Purchases : Exists(p)}
    /\ queue' = {p \in Purchases : Exists(p)}
    /\ pc' = [p \in Purchases |-> "idle"]
    /\ work' = [p \in Purchases |-> Absent]
    /\ UNCHANGED <<cr, drainOwed, cm, sidecarVars, routeVars>>

----------------------------------------------------------------------------
\* The kubelet, the sidecar and LiteLLM.

\* The two ConfigMaps are separate volumes and are refreshed on their own.
MountConfig ==
    /\ mount' = [mount EXCEPT !.config = cm.config]
    /\ UNCHANGED <<crVars, workerVars, cm, pod, listed, served, consumed, routeVars, left>>

MountAuths ==
    /\ mount' = [mount EXCEPT !.auths = cm.auths]
    /\ UNCHANGED <<crVars, workerVars, cm, pod, listed, served, consumed, routeVars, left>>

\* Proxy.Reload as one step (VoucherSidecar opens it up): upstreams are the
\* config files, their pools the auth files less what was consumed.
Loaded(files) ==
    /\ listed' = files.config
    /\ served' = [p \in Purchases |->
                    IF p \in files.config THEN files.auths[p] \ consumed[p]
                                          ELSE {}]

Reload ==
    /\ pod = "running"
    /\ Loaded(mount)
    /\ UNCHANGED <<crVars, workerVars, cm, mount, pod, consumed, routeVars, left>>

Spend(p) ==
    /\ pod = "running"
    /\ \E v \in served[p] :
         /\ served' = [served EXCEPT ![p] = @ \ {v}]
         /\ consumed' = [consumed EXCEPT ![p] = @ \cup {v}]
    /\ UNCHANGED <<crVars, workerVars, cm, mount, pod, listed, routeVars, left>>

\* The Deployment's strategy is Recreate: the old pod terminates before the new
\* one runs.  Until then the list holds a terminating or unready pod, or none.
PodLeaves ==
    /\ pod = "running" /\ Use("outages")
    /\ pod' = "unready"
    /\ listed' = {} /\ served' = [p \in Purchases |-> {}]
    /\ UNCHANGED <<crVars, workerVars, cm, mount, consumed, routeVars>>

PodListEmpty ==
    /\ pod = "unready" /\ pod' = "none"
    /\ UNCHANGED <<crVars, workerVars, cm, mount, listed, served, consumed, routeVars, left>>

\* A new pod mounts the ConfigMaps as they are and loads them.
PodReturns ==
    /\ pod # "running" /\ pod' = "running"
    /\ mount' = cm
    /\ Loaded(cm)
    /\ UNCHANGED <<crVars, workerVars, cm, consumed, routeVars, left>>

LiteLLMRollout ==
    /\ routed' = aliases
    /\ UNCHANGED <<crVars, workerVars, cm, sidecarVars, aliases, left>>

----------------------------------------------------------------------------
Reconcile(p) ==
    \/ ProbeAndLoad(p) \/ CheckDuplicate(p) \/ ConfigureFails(p)
    \/ MergeBuyerConfig(p) \/ MergeBuyerAuths(p) \/ FinishConfigure(p)
    \/ CheckReady(p) \/ WriteStatus(p)
    \/ Drain(p) \/ DropAlias(p) \/ RemoveBuyerUpstream(p)
    \/ TriggerBuyerRemove(p) \/ Recheck(p) \/ RemoveFinalizer(p) \/ WriteFails(p)

Dequeue(p) == \/ FetchMissing(p) \/ FetchFails(p) \/ AddFinalizer(p)
              \/ Fetch(p) \/ FetchDeleting(p)
User(p) == Create(p) \/ TopUp(p) \/ Delete(p)
Informer(p) == InformerAdd(p) \/ InformerDelete(p)
Kubelet == MountConfig \/ MountAuths
Sidecar == Reload \/ PodLeaves \/ PodListEmpty \/ PodReturns

Next ==
    \/ \E p \in Purchases : \/ User(p) \/ Informer(p) \/ Dequeue(p)
                            \/ Reconcile(p) \/ Spend(p)
    \/ ControllerRestart \/ Kubelet \/ Sidecar \/ LiteLLMRollout

Spec == Init /\ [][Next]_vars

\* Watch events arrive; the queue is first-in first-out, so a key that keeps
\* coming back is taken (strong: other keys take the worker in between); every
\* call returns; the kubelet refreshes mounts; the sidecar reloads on a ticker;
\* the Deployment replaces a missing pod.  Users and callers owe nothing.
Fairness ==
    /\ \A p \in Purchases : /\ WF_vars(Informer(p))
                            /\ SF_vars(Dequeue(p))
                            /\ WF_vars(Reconcile(p))
    /\ WF_vars(MountConfig) /\ WF_vars(MountAuths)
    /\ WF_vars(Reload) /\ WF_vars(PodReturns)

FairSpec == Spec /\ Fairness
----------------------------------------------------------------------------
(***************************************************************************)
(* Properties.                                                             *)
(***************************************************************************)

\* A purchase past the duplicate check: it publishes, or has published, its
\* upstream and alias.
Owns(p) ==
    /\ Exists(p)
    /\ \/ cr[p].status.configured = "yes"
       \/ My(p).configured = "yes"
       \/ pc[p] \in {"writeConfig", "writeAuths", "alias"}

\* Two purchases of one model never both own paid/<model>, although each checks
\* an informer cache that lags the API server and the check precedes the writes:
\* whichever checks second is checked against a cache that holds the other
\* (CheckDuplicate, findOtherActivePurchaseForModel).
OneOwnerPerModel ==
    \A p, q \in Purchases :
        p # q /\ ModelOf[p] = ModelOf[q] => ~(Owns(p) /\ Owns(q))

\* The teardown of one purchase never takes the alias from under another one
\* that owns it, whatever the cache shows (DropAlias).
AliasNeverPulledFromOwner ==
    [][\A p \in Purchases :
         /\ Owns(p) /\ pc[p] # "dropAlias" /\ Owns(p)'
         /\ ModelOf[p] \in aliases
         => ModelOf[p] \in aliases']_vars

\* A live request whose status says Configured for the current generation has
\* exactly that generation's pool in the sidecar's ConfigMaps: no reconcile of
\* an older generation, failed write or restart leaves the condition true over
\* another pool (the generation reset, the order of the writes, the conflict
\* that rejects a status computed from an older request).
ConfiguredPoolIsWritten ==
    \A p \in Purchases :
        /\ cr[p].phase = "live"
        /\ cr[p].status.configured = "yes" /\ cr[p].status.obs = cr[p].gen
        => p \in cm.config /\ cm.auths[p] = cr[p].pool

\* A purchase deleted while Ready is gone only when the whole pre-authorized
\* pool is spent ("only tears the route down after the pre-authorized budget
\* reaches zero", buy-x402/SKILL.md:388), as long as the sidecar's pod was never
\* away: a status check without a running pod is taken for a finished drain.
BudgetSpentBeforeTeardown ==
    left.outages = MaxOutages =>
      \A p \in drainOwed : cr[p].phase = "gone" => cr[p].pool \subseteq consumed[p]

\* Once a deleted request is gone the sidecar stops serving its upstream for
\* good, though mounts are stale and reloads put it back meanwhile.
DeletedUpstreamLeavesSidecar ==
    \A p \in Purchases : cr[p].phase = "gone" ~> [](p \notin listed)

\* A deleted request whose vouchers are all spent does not stay in Terminating
\* (the stranded finalizer reconcileDeletingPurchase's comment describes).
SpentDeletionCompletes ==
    \A p \in Purchases :
        cr[p].phase = "deleting" /\ cr[p].pool \subseteq consumed[p]
        ~> cr[p].phase = "gone"

\* A deletion runs its course in the controller and in the sidecar.
DeletionRunsItsCourse == SpentDeletionCompletes /\ DeletedUpstreamLeavesSidecar
=============================================================================
