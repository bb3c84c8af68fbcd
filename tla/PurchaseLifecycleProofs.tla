----------------------- MODULE PurchaseLifecycleProofs -----------------------
(***************************************************************************)
(* Proofs about PurchaseLifecycle, for every set of purchases, models and  *)
(* vouchers, any number of workers and any bounds.                         *)
(***************************************************************************)
EXTENDS PurchaseLifecycle, FiniteSetTheorems, TLAPS

-----------------------------------------------------------------------------
(* Types *)

\* The counts the statuses carry are in range.
LEMMA PoolCount ==
    ASSUME NEW S \in SUBSET Vouchers
    PROVE  Cardinality(S) \in 0..Cardinality(Vouchers)
<1>1. /\ IsFiniteSet(S)
      /\ Cardinality(S) <= Cardinality(Vouchers)
  BY PurchaseAssumption, FS_Subset
<1>2. Cardinality(S) \in Nat /\ Cardinality(Vouchers) \in Nat
  BY <1>1, PurchaseAssumption, FS_CardinalityType
<1> QED
  BY <1>1, <1>2

LEMMA InitialTypes == NoStatus \in Status /\ Absent \in Request
<1>1. NoStatus \in Status
  BY PoolCount DEF NoStatus, Status
<1> QED
  BY <1>1 DEF Absent, Request

\* A reconcile's status stays a status.
LEMMA StatusSet ==
    ASSUME TypeOK, NEW p \in Purchases, NEW s \in Status, SetStatus(p, s)
    PROVE  work' \in [Purchases -> Request]
BY SMTT(30) DEF TypeOK, SetStatus, Request

LEMMA BudgetUsed ==
    ASSUME TypeOK, NEW b \in {"edits", "faults", "outages", "crashes"}, Use(b)
    PROVE  left' \in Budget
BY PurchaseAssumption DEF TypeOK, Use, Budget

\* The copy a reconcile works on has a well-formed status.
LEMMA MyStatus ==
    ASSUME TypeOK, NEW p \in Purchases
    PROVE  /\ My(p) \in Status
           /\ work[p].pool \subseteq Vouchers
           /\ served[p] \subseteq Vouchers
           /\ work[p] \in Request
           /\ cr[p] \in Request
BY DEF TypeOK, My, Request

\* Writing fields of a request yields a request.
LEMMA RequestFields ==
    ASSUME NEW r \in Request
    PROVE  /\ \A f \in BOOLEAN : [r EXCEPT !.finalizer = f] \in Request
           /\ \A ph \in {"live", "deleting", "gone"} :
                /\ [r EXCEPT !.phase = ph] \in Request
                /\ \A f \in BOOLEAN :
                     [r EXCEPT !.phase = ph, !.finalizer = f] \in Request
           /\ \A g \in Nat, S \in SUBSET Vouchers :
                /\ [r EXCEPT !.gen = g, !.pool = S] \in Request
                /\ [r EXCEPT !.phase = "live", !.gen = g, !.pool = S] \in Request
           /\ \A s \in Status : [r EXCEPT !.status = s] \in Request
BY DEF Request

LEMMA UserTypes ==
    ASSUME TypeOK, NEW p \in Purchases, User(p)
    PROVE  TypeOK'
<1>1. CASE Create(p)
  <2>1. cr' \in [Purchases -> Request]
    <3>1. PICK S \in SUBSET Vouchers :
            cr' = [cr EXCEPT ![p] = [Absent EXCEPT !.phase = "live", !.gen = 1,
                                                   !.pool = S]]
      BY <1>1 DEF Create
    <3>2. [Absent EXCEPT !.phase = "live", !.gen = 1, !.pool = S] \in Request
      BY InitialTypes, RequestFields
    <3> QED
      BY <3>1, <3>2 DEF TypeOK
  <2> QED
    BY <1>1, <2>1 DEF TypeOK, Create, workerVars, sidecarVars, routeVars
<1>2. CASE TopUp(p)
  <2>1. cr' \in [Purchases -> Request]
    <3>1. PICK S \in SUBSET Vouchers :
            cr' = [cr EXCEPT ![p].gen = @ + 1, ![p].pool = S]
      <4>1. \A late \in SUBSET (cr[p].pool \cap consumed[p]),
               new \in SUBSET (Vouchers \ (cr[p].pool \cup consumed[p])) :
              (cr[p].pool \ consumed[p]) \cup late \cup new \in SUBSET Vouchers
        BY MyStatus DEF Request
      <4> QED
        BY <1>2, <4>1, MyStatus DEF TopUp, TypeOK, Request
    <3>2. cr' = [cr EXCEPT ![p] = [cr[p] EXCEPT !.gen = cr[p].gen + 1, !.pool = S]]
      BY <3>1 DEF TypeOK, Request
    <3>3. [cr[p] EXCEPT !.gen = cr[p].gen + 1, !.pool = S] \in Request
      <4>1. cr[p].gen + 1 \in Nat
        BY MyStatus DEF Request
      <4> QED
        BY <4>1, MyStatus, RequestFields
    <3> QED
      BY <3>2, <3>3 DEF TypeOK
  <2>2. left' \in Budget
    BY <1>2, BudgetUsed DEF TopUp
  <2>3. queue' \subseteq Purchases
    BY <1>2 DEF TypeOK, TopUp, Enqueue, EnqueueUpdated
  <2> QED
    BY <1>2, <2>1, <2>2, <2>3 DEF TypeOK, TopUp, sidecarVars, routeVars
<1>3. CASE Delete(p)
  <2>1. cr' \in [Purchases -> Request]
    <3>1. PICK ph \in {"deleting", "gone"} : cr' = [cr EXCEPT ![p].phase = ph]
      BY <1>3 DEF Delete
    <3>2. cr' = [cr EXCEPT ![p] = [cr[p] EXCEPT !.phase = ph]]
      BY <3>1 DEF TypeOK
    <3>3. [cr[p] EXCEPT !.phase = ph] \in Request
      BY MyStatus, RequestFields
    <3> QED
      BY <3>2, <3>3 DEF TypeOK
  <2>2. queue' \subseteq Purchases /\ drainOwed' \subseteq Purchases
    BY <1>3 DEF TypeOK, Delete, Enqueue, EnqueueUpdated
  <2> QED
    BY <1>3, <2>1, <2>2 DEF TypeOK, Delete, sidecarVars, routeVars
<1> QED
  BY <1>1, <1>2, <1>3 DEF User

LEMMA QueueTypes ==
    ASSUME TypeOK, NEW p \in Purchases, Informer(p) \/ Dequeue(p)
    PROVE  TypeOK'
<1>1. CASE InformerAdd(p) \/ InformerDelete(p)
  BY <1>1 DEF TypeOK, InformerAdd, InformerDelete, Enqueue, sidecarVars, routeVars
<1>2. CASE FetchMissing(p)
  BY <1>2 DEF TypeOK, FetchMissing, crVars, sidecarVars, routeVars
<1>6. CASE FetchFails(p)
  <2>1. left' \in Budget
    BY <1>6, BudgetUsed DEF FetchFails
  <2> QED
    BY <1>6, <2>1 DEF TypeOK, FetchFails, crVars, sidecarVars, routeVars
<1>3. CASE AddFinalizer(p)
  <2>1. cr' \in [Purchases -> Request]
    <3>1. cr' = [cr EXCEPT ![p] = [cr[p] EXCEPT !.finalizer = TRUE]]
      BY <1>3 DEF TypeOK, AddFinalizer
    <3>2. [cr[p] EXCEPT !.finalizer = TRUE] \in Request
      BY MyStatus, RequestFields
    <3> QED
      BY <3>1, <3>2 DEF TypeOK
  <2> QED
    BY <1>3, <2>1 DEF TypeOK, AddFinalizer, workerVars, sidecarVars, routeVars
<1>4. CASE Fetch(p)
  <2>1. StatusForGeneration(p) \in Status
    BY MyStatus, InitialTypes DEF StatusForGeneration, Request, Status
  <2>2. work' \in [Purchases -> Request]
    BY <1>4, <2>1, ZenonT(60) DEF TypeOK, Fetch, Request
  <2> QED
    BY <1>4, <2>2 DEF TypeOK, Fetch, Goto, Stage, crVars, sidecarVars, routeVars
<1>5. CASE FetchDeleting(p)
  <2>1. work' \in [Purchases -> Request]
    <3>1. /\ cr[p].status \in Status
          /\ cr[p].gen \in Nat
      BY MyStatus DEF Request
    <3>2. [cr[p].status EXCEPT !.obs = cr[p].gen] \in Status
      BY <3>1 DEF Status
    <3>3. [cr[p] EXCEPT !.status.obs = cr[p].gen]
            = [cr[p] EXCEPT !.status = [cr[p].status EXCEPT !.obs = cr[p].gen]]
      BY MyStatus DEF Request
    <3> QED
      BY <1>5, <3>2, <3>3, MyStatus, RequestFields DEF TypeOK, FetchDeleting
  <2> QED
    BY <1>5, <2>1 DEF TypeOK, FetchDeleting, Goto, Stage, crVars, sidecarVars, routeVars
<1> QED
  BY <1>1, <1>2, <1>3, <1>4, <1>5, <1>6 DEF Informer, Dequeue

LEMMA LiveTypes ==
    ASSUME TypeOK, NEW p \in Purchases,
           \/ ProbeAndLoad(p) \/ CheckDuplicate(p) \/ ConfigureFails(p)
           \/ MergeBuyerConfig(p) \/ MergeBuyerAuths(p) \/ FinishConfigure(p)
           \/ CheckReady(p) \/ WriteStatus(p)
    PROVE  TypeOK'
<1> USE MyStatus
<1>1. CASE ProbeAndLoad(p)
  <2>1. [My(p) EXCEPT !.probed = TRUE, !.loaded = TRUE] \in Status
    BY DEF Status
  <2>2. work' \in [Purchases -> Request]
    BY <1>1, <2>1, StatusSet DEF ProbeAndLoad, TypeOK
  <2>3. left' \in Budget
    BY <1>1, BudgetUsed DEF ProbeAndLoad, TypeOK
  <2>4. pc' \in [Purchases -> Stage]
    BY <1>1 DEF ProbeAndLoad, TypeOK, Goto, Stage, AfterLoad
  <2> QED
    BY <1>1, <2>2, <2>3, <2>4 DEF TypeOK, ProbeAndLoad, crVars, sidecarVars, routeVars
<1>2. CASE CheckDuplicate(p)
  <2>1. [My(p) EXCEPT !.configured = "duplicate"] \in Status
    BY DEF Status
  <2>2. work' \in [Purchases -> Request]
    BY <1>2, <2>1, StatusSet DEF CheckDuplicate, TypeOK
  <2> QED
    BY <1>2, <2>2 DEF TypeOK, CheckDuplicate, Goto, Stage, crVars, sidecarVars, routeVars
<1>3. CASE ConfigureFails(p)
  <2>1. [My(p) EXCEPT !.configured = "no"] \in Status
    BY DEF Status
  <2>2. work' \in [Purchases -> Request]
    BY <1>3, <2>1, StatusSet DEF ConfigureFails
  <2>3. left' \in Budget
    BY <1>3, BudgetUsed DEF ConfigureFails
  <2> QED
    BY <1>3, <2>2, <2>3 DEF TypeOK, ConfigureFails, Goto, Stage, crVars, sidecarVars, routeVars
<1>4. CASE MergeBuyerConfig(p)
  BY <1>4 DEF TypeOK, MergeBuyerConfig, Files, Goto, Stage, crVars, sidecarVars, routeVars
<1>5. CASE MergeBuyerAuths(p)
  BY <1>5 DEF TypeOK, MergeBuyerAuths, Files, Goto, Stage, crVars, sidecarVars, routeVars
<1>6. CASE FinishConfigure(p)
  <2>1. [My(p) EXCEPT !.configured = "yes", !.remaining = Cardinality(work[p].pool)]
          \in Status
    BY PoolCount DEF Status
  <2>2. work' \in [Purchases -> Request]
    BY <1>6, <2>1, StatusSet DEF FinishConfigure
  <2>3. /\ left' \in Budget
        /\ aliases' \subseteq Models /\ routed' \subseteq Models
    BY <1>6, BudgetUsed, PurchaseAssumption DEF FinishConfigure, AliasAdded, TypeOK, routeVars
  <2> QED
    BY <1>6, <2>2, <2>3 DEF TypeOK, FinishConfigure, Goto, Stage, crVars, sidecarVars
<1>7. CASE CheckReady(p)
  <2>1. ReadyAfterCheck(p) \in Status
    BY PoolCount DEF ReadyAfterCheck, Status
  <2>2. work' \in [Purchases -> Request]
    BY <1>7, <2>1, StatusSet DEF CheckReady
  <2> QED
    BY <1>7, <2>2 DEF TypeOK, CheckReady, Goto, Stage, crVars, sidecarVars, routeVars
<1>8. CASE WriteStatus(p)
  <2>1. cr' \in [Purchases -> Request]
    BY <1>8, ZenonT(60) DEF TypeOK, WriteStatus, Request
  <2>2. work' \in [Purchases -> Request]
    BY <1>8, InitialTypes DEF TypeOK, WriteStatus
  <2>3. queue' \subseteq Purchases /\ pc' \in [Purchases -> Stage]
    BY <1>8 DEF TypeOK, WriteStatus, Goto, Stage
  <2> QED
    BY <1>8, <2>1, <2>2, <2>3 DEF TypeOK, WriteStatus, sidecarVars, routeVars
<1> QED
  BY <1>1, <1>2, <1>3, <1>4, <1>5, <1>6, <1>7, <1>8

LEMMA DeletingTypes ==
    ASSUME TypeOK, NEW p \in Purchases,
           \/ Drain(p) \/ DropAlias(p) \/ RemoveBuyerUpstream(p)
           \/ TriggerBuyerRemove(p) \/ Recheck(p) \/ RemoveFinalizer(p)
           \/ WriteFails(p)
    PROVE  TypeOK'
<1> USE MyStatus
<1>1. CASE Drain(p)
  <2>1. RemainingToDrain(p) \in 0..Cardinality(Vouchers)
    BY PoolCount DEF RemainingToDrain, Status, StatusListed, StatusGone, StatusUnknown
  <2>2. /\ [My(p) EXCEPT !.remaining = RemainingToDrain(p),
                         !.deleting = "draining"] \in Status
        /\ [My(p) EXCEPT !.remaining = 0] \in Status
    <3>1. 0 \in 0..Cardinality(Vouchers)
      BY PoolCount
    <3> QED
      BY <2>1, <3>1 DEF Status
  <2>3. work' \in [Purchases -> Request]
    BY <1>1, <2>2, StatusSet DEF Drain
  <2> QED
    BY <1>1, <2>3 DEF TypeOK, Drain, Goto, Stage, crVars, sidecarVars, routeVars
<1>2. CASE DropAlias(p)
  <2>1. /\ left' \in Budget
        /\ aliases' \subseteq Models /\ routed' \subseteq Models
    BY <1>2, BudgetUsed DEF DropAlias, AliasDropped, TypeOK, routeVars
  <2> QED
    BY <1>2, <2>1 DEF TypeOK, DropAlias, Goto, Stage, crVars, sidecarVars
<1>3. CASE RemoveBuyerUpstream(p)
  <2>1. left' \in Budget
    BY <1>3, BudgetUsed DEF RemoveBuyerUpstream, TypeOK
  <2>2. cm' \in Files
    BY <1>3 DEF RemoveBuyerUpstream, TypeOK, Files
  <2> QED
    BY <1>3, <2>1, <2>2 DEF TypeOK, RemoveBuyerUpstream, Goto, Stage, crVars, sidecarVars, routeVars
<1>4. CASE TriggerBuyerRemove(p)
  <2>1. left' \in Budget
    BY <1>4, BudgetUsed DEF TriggerBuyerRemove, TypeOK
  <2>2. listed' \subseteq Purchases /\ served' \in [Purchases -> SUBSET Vouchers]
    BY <1>4 DEF TriggerBuyerRemove, TypeOK
  <2> QED
    BY <1>4, <2>1, <2>2 DEF TypeOK, TriggerBuyerRemove, Goto, Stage, crVars, routeVars
<1>5. CASE Recheck(p)
  <2>1. [My(p) EXCEPT !.deleting = "cleanup"] \in Status
    BY DEF Status
  <2>2. work' \in [Purchases -> Request]
    BY <1>5, <2>1, StatusSet DEF Recheck, TypeOK
  <2> QED
    BY <1>5, <2>2 DEF TypeOK, Recheck, Goto, Stage, crVars, sidecarVars, routeVars
<1>6. CASE RemoveFinalizer(p)
  <2>1. cr' \in [Purchases -> Request]
    <3>1. cr' = [cr EXCEPT ![p] = [cr[p] EXCEPT !.phase = "gone", !.finalizer = FALSE]]
      BY <1>6 DEF TypeOK, RemoveFinalizer, Request
    <3>2. [cr[p] EXCEPT !.phase = "gone", !.finalizer = FALSE] \in Request
      BY RequestFields
    <3> QED
      BY <3>1, <3>2 DEF TypeOK
  <2>2. work' \in [Purchases -> Request]
    BY <1>6, InitialTypes DEF TypeOK, RemoveFinalizer
  <2> QED
    BY <1>6, <2>1, <2>2 DEF TypeOK, RemoveFinalizer, Goto, Stage, sidecarVars, routeVars
<1>7. CASE WriteFails(p)
  <2>1. left' \in Budget /\ work' \in [Purchases -> Request]
    BY <1>7, BudgetUsed, InitialTypes DEF TypeOK, WriteFails
  <2> QED
    BY <1>7, <2>1 DEF TypeOK, WriteFails, Enqueue, Goto, Stage, crVars, sidecarVars, routeVars
<1> QED
  BY <1>1, <1>2, <1>3, <1>4, <1>5, <1>6, <1>7

LEMMA EnvironmentTypes ==
    ASSUME TypeOK,
           \/ \E p \in Purchases : Spend(p)
           \/ ControllerRestart \/ Kubelet \/ Sidecar \/ LiteLLMRollout
    PROVE  TypeOK'
<1> USE DEF TypeOK, crVars, workerVars, sidecarVars, routeVars
<1>1. ASSUME NEW p \in Purchases, Spend(p) PROVE TypeOK'
  BY <1>1 DEF Spend
<1>2. CASE ControllerRestart
  <2>1. left' \in Budget
    BY <1>2, BudgetUsed DEF ControllerRestart
  <2> QED
    BY <1>2, <2>1, InitialTypes DEF ControllerRestart, Stage
<1>3. CASE Kubelet
  BY <1>3 DEF Kubelet, MountConfig, MountAuths, Files
<1>4. CASE Reload
  BY <1>4 DEF Reload, Loaded, Files
<1>5. CASE PodLeaves
  <2>1. left' \in Budget
    BY <1>5, BudgetUsed DEF PodLeaves
  <2> QED
    BY <1>5, <2>1 DEF PodLeaves
<1>6. CASE PodListEmpty
  BY <1>6 DEF PodListEmpty
<1>7. CASE PodReturns
  BY <1>7 DEF PodReturns, Loaded, Files
<1>8. CASE LiteLLMRollout
  BY <1>8 DEF LiteLLMRollout
<1> QED
  BY <1>1, <1>2, <1>3, <1>4, <1>5, <1>6, <1>7, <1>8 DEF Sidecar

LEMMA TypeInit == Init => TypeOK
<1> SUFFICES ASSUME Init PROVE TypeOK
  OBVIOUS
<1>1. NoFiles \in Files
  BY DEF NoFiles, Files
<1>2. left \in Budget
  BY PurchaseAssumption DEF Init, Budget
<1> QED
  BY <1>1, <1>2, InitialTypes DEF Init, TypeOK, Stage

LEMMA TypeStep == TypeOK /\ [Next]_vars => TypeOK'
<1> SUFFICES ASSUME TypeOK, [Next]_vars PROVE TypeOK'
  OBVIOUS
<1>1. CASE UNCHANGED vars
  BY <1>1 DEF vars, crVars, workerVars, sidecarVars, routeVars, TypeOK
<1>2. ASSUME NEW p \in Purchases, Reconcile(p) PROVE TypeOK'
  BY <1>2, LiveTypes, DeletingTypes DEF Reconcile
<1> QED
  BY <1>1, <1>2, UserTypes, QueueTypes, EnvironmentTypes DEF Next

\* Every reachable state is well formed: no sequence of reconciles, edits,
\* faults and restarts leaves a status field, a stage or a pool out of range.
THEOREM TypeCorrect == Spec => []TypeOK
BY TypeInit, TypeStep, PTL DEF Spec

-----------------------------------------------------------------------------
(* Ownership of paid/<model> *)

\* What the informer's store is worth: a request that was ever taken off the
\* queue, or that is Configured, is in it until it is gone.
Tracking ==
    \A p \in Purchases :
        /\ pc[p] = "idle" => work[p] = Absent
        /\ cr[p].phase = "absent" => pc[p] = "idle" /\ p \notin queue
        /\ /\ Exists(p)
           /\ pc[p] # "idle" \/ p \in queue \/ cr[p].status.configured = "yes"
           => p \in cached

LEMMA TrackingInit == Init => Tracking
BY DEF Init, Tracking, Exists, Absent

\* Only WriteStatus writes a status, and Create a fresh one.
LEMMA TrackingStep ==
    TypeOK /\ Tracking /\ [Next]_vars => Tracking'
<1> SUFFICES ASSUME TypeOK, Tracking, [Next]_vars,
                    NEW q \in Purchases
             PROVE  Tracking!(q)'
  BY DEF Tracking
<1>0. Tracking!(q)
  BY DEF Tracking
<1>1. /\ pc \in [Purchases -> Stage] /\ cr \in [Purchases -> Request]
      /\ work \in [Purchases -> Request] /\ queue \subseteq Purchases
      /\ cached \subseteq Purchases
  BY DEF TypeOK
<1> USE <1>0, <1>1 DEF Exists
<1>2. ASSUME NEW p \in Purchases, User(p) PROVE Tracking!(q)'
  <2>1. CASE Create(p)
    BY <2>1 DEF Create, workerVars, Absent, NoStatus
  <2>2. CASE TopUp(p)
    BY <2>2 DEF TopUp, Enqueue, EnqueueUpdated, Request
  <2>3. CASE Delete(p)
    BY <2>3 DEF Delete, Enqueue, EnqueueUpdated, Request
  <2> QED
    BY <1>2, <2>1, <2>2, <2>3 DEF User
<1>3. ASSUME NEW p \in Purchases, Informer(p) PROVE Tracking!(q)'
  BY <1>3 DEF Informer, InformerAdd, InformerDelete, Enqueue
<1>4. ASSUME NEW p \in Purchases, Dequeue(p) PROVE Tracking!(q)'
  <2>1. CASE FetchMissing(p) \/ FetchFails(p)
    BY <2>1 DEF FetchMissing, FetchFails, crVars
  <2>2. CASE AddFinalizer(p)
    BY <2>2 DEF AddFinalizer, workerVars, Request, Take
  <2>3. CASE Fetch(p)
    BY <2>3 DEF Fetch, Take, Goto, crVars
  <2>4. CASE FetchDeleting(p)
    BY <2>4 DEF FetchDeleting, Take, Goto, crVars
  <2> QED
    BY <1>4, <2>1, <2>2, <2>3, <2>4 DEF Dequeue
<1>5. ASSUME NEW p \in Purchases, Reconcile(p) PROVE Tracking!(q)'
  <2>1. CASE WriteStatus(p)
    BY <2>1 DEF WriteStatus, Goto, Request
  <2>2. CASE RemoveFinalizer(p) \/ WriteFails(p)
    BY <2>2 DEF RemoveFinalizer, WriteFails, Enqueue, Goto, crVars, Request
  <2>3. CASE \/ ProbeAndLoad(p) \/ CheckDuplicate(p) \/ ConfigureFails(p)
             \/ MergeBuyerConfig(p) \/ MergeBuyerAuths(p) \/ FinishConfigure(p)
             \/ CheckReady(p)
    BY <2>3 DEF ProbeAndLoad, AfterLoad, CheckDuplicate, ConfigureFails, MergeBuyerConfig,
                MergeBuyerAuths, FinishConfigure, CheckReady, SetStatus, Goto, crVars
  <2>4. CASE \/ Drain(p) \/ DropAlias(p) \/ RemoveBuyerUpstream(p)
             \/ TriggerBuyerRemove(p) \/ Recheck(p)
    BY <2>4 DEF Drain, DropAlias, RemoveBuyerUpstream, TriggerBuyerRemove, Recheck,
                SetStatus, Goto, crVars
  <2> QED
    BY <1>5, <2>1, <2>2, <2>3, <2>4 DEF Reconcile
<1>6. CASE ControllerRestart
  BY <1>6 DEF ControllerRestart
<1>7. CASE UNCHANGED <<crVars, workerVars>>
  BY <1>7 DEF crVars, workerVars
<1>8. ASSUME NEW p \in Purchases, Spend(p) PROVE UNCHANGED <<crVars, workerVars>>
  BY <1>8 DEF Spend
<1>9. CASE Kubelet \/ Sidecar \/ LiteLLMRollout \/ UNCHANGED vars
  BY <1>7, <1>9 DEF Kubelet, MountConfig, MountAuths, Sidecar, Reload, PodLeaves,
                    PodListEmpty, PodReturns, LiteLLMRollout, vars
<1> QED
  BY <1>2, <1>3, <1>4, <1>5, <1>6, <1>7, <1>8, <1>9 DEF Next

\* A purchase comes to own its model by passing the duplicate check only.
LEMMA OwnershipGained ==
    ASSUME TypeOK, Tracking, [Next]_vars, NEW q \in Purchases, Owns(q)'
    PROVE  Owns(q) \/ (CheckDuplicate(q) /\ OtherActivePurchases(q) = {})
<1>0. Tracking!(q)
  BY DEF Tracking
<1>1. /\ pc \in [Purchases -> Stage] /\ cr \in [Purchases -> Request]
      /\ work \in [Purchases -> Request]
  BY DEF TypeOK
<1> USE <1>0, <1>1 DEF Exists, Owns, My
<1> DEFINE Goal == Owns(q) \/ (CheckDuplicate(q) /\ OtherActivePurchases(q) = {})
<1>2. ASSUME NEW p \in Purchases, User(p) PROVE Goal
  <2>1. CASE Create(p)
    BY <2>1 DEF Create, workerVars, Absent, NoStatus
  <2>2. CASE TopUp(p)
    BY <2>2 DEF TopUp, Request
  <2>3. CASE Delete(p)
    BY <2>3 DEF Delete, Request
  <2> QED
    BY <1>2, <2>1, <2>2, <2>3 DEF User
<1>3. ASSUME NEW p \in Purchases, Informer(p) PROVE Goal
  BY <1>3 DEF Informer, InformerAdd, InformerDelete
<1>4. ASSUME NEW p \in Purchases, Dequeue(p) PROVE Goal
  <2>1. CASE FetchMissing(p) \/ FetchFails(p)
    BY <2>1 DEF FetchMissing, FetchFails, crVars
  <2>2. CASE AddFinalizer(p)
    BY <2>2 DEF AddFinalizer, workerVars, Request
  <2>3. CASE Fetch(p)
    BY <2>3 DEF Fetch, Goto, crVars, StatusForGeneration, NoStatus, Request
  <2>4. CASE FetchDeleting(p)
    BY <2>4 DEF FetchDeleting, Goto, crVars, Request, Status
  <2> QED
    BY <1>4, <2>1, <2>2, <2>3, <2>4 DEF Dequeue
<1>5. ASSUME NEW p \in Purchases, Reconcile(p) PROVE Goal
  <2>1. CASE WriteStatus(p)
    BY <2>1 DEF WriteStatus, Goto, Request, Absent, NoStatus
  <2>2. CASE RemoveFinalizer(p) \/ WriteFails(p)
    BY <2>2, SMTT(60) DEF RemoveFinalizer, WriteFails, Goto, crVars, Request, Absent, NoStatus
  <2>3. CASE CheckDuplicate(p)
    BY <2>3 DEF CheckDuplicate, SetStatus, Goto, crVars, Request, Status
  <2>4. CASE \/ ConfigureFails(p) \/ MergeBuyerConfig(p) \/ MergeBuyerAuths(p)
             \/ FinishConfigure(p)
    BY <2>4 DEF ConfigureFails, MergeBuyerConfig, MergeBuyerAuths, FinishConfigure,
                SetStatus, Goto, crVars, Request, Status
  <2>5. CASE ProbeAndLoad(p)
    <3>1. My(p) \in Status
      BY MyStatus
    <3>2. [My(p) EXCEPT !.probed = TRUE, !.loaded = TRUE].configured = My(p).configured
      BY <3>1 DEF Status
    <3>3. UNCHANGED cr /\ work[q].status.configured' = work[q].status.configured
      BY <2>5, <3>2, ZenonT(60) DEF ProbeAndLoad, SetStatus, crVars, Request
    <3>4. pc[q]' \in {"writeConfig", "writeAuths", "alias"} => pc[q]' = pc[q]
      BY <2>5 DEF ProbeAndLoad, AfterLoad, Goto
    <3> QED
      BY <3>3, <3>4
  <2>6. CASE CheckReady(p)
    BY <2>6 DEF CheckReady, ReadyAfterCheck, SetStatus, Goto, crVars, Request, Status
  <2>7. CASE Drain(p) \/ Recheck(p)
    <3>1. My(p) \in Status
      BY MyStatus
    <3>2. \A n : /\ [My(p) EXCEPT !.remaining = n, !.deleting = "draining"].configured
                       = My(p).configured
                 /\ [My(p) EXCEPT !.remaining = 0].configured = My(p).configured
                 /\ [My(p) EXCEPT !.deleting = "cleanup"].configured = My(p).configured
      BY <3>1 DEF Status
    <3>3. UNCHANGED cr /\ work[q].status.configured' = work[q].status.configured
      <4>1. \/ UNCHANGED work
            \/ \E st : SetStatus(p, st) /\ st.configured = My(p).configured
        BY <2>7, <3>2 DEF Drain, Recheck
      <4> QED
        BY <2>7, <4>1 DEF Drain, Recheck, SetStatus, crVars, Request
    <3>4. pc[q]' \in {"writeConfig", "writeAuths", "alias"} => pc[q]' = pc[q]
      BY <2>7 DEF Drain, Recheck, Goto
    <3> QED
      BY <3>3, <3>4
  <2>8. CASE DropAlias(p) \/ RemoveBuyerUpstream(p) \/ TriggerBuyerRemove(p)
    BY <2>8 DEF DropAlias, RemoveBuyerUpstream, TriggerBuyerRemove, Goto, crVars
  <2> QED
    BY <1>5, <2>1, <2>2, <2>3, <2>4, <2>5, <2>6, <2>7, <2>8 DEF Reconcile
<1>6. CASE ControllerRestart
  BY <1>6 DEF ControllerRestart, Absent, NoStatus
<1>7. CASE UNCHANGED <<crVars, workerVars>>
  BY <1>7 DEF crVars, workerVars
<1>8. ASSUME NEW p \in Purchases, Spend(p) PROVE UNCHANGED <<crVars, workerVars>>
  BY <1>8 DEF Spend
<1>9. CASE Kubelet \/ Sidecar \/ LiteLLMRollout \/ UNCHANGED vars
  BY <1>7, <1>9 DEF Kubelet, MountConfig, MountAuths, Sidecar, Reload, PodLeaves,
                    PodListEmpty, PodReturns, LiteLLMRollout, vars
<1> QED
  BY <1>2, <1>3, <1>4, <1>5, <1>6, <1>7, <1>8, <1>9 DEF Next

\* An owner is in the informer's store, so every other duplicate check sees it.
LEMMA OwnersAreCached ==
    ASSUME TypeOK, Tracking, NEW p \in Purchases, Owns(p)
    PROVE  p \in cached
BY DEF Tracking, Owns, My, Absent, NoStatus

LEMMA OneOwnerStep ==
    TypeOK /\ Tracking /\ OneOwnerPerModel /\ [Next]_vars => OneOwnerPerModel'
<1> SUFFICES ASSUME TypeOK, Tracking, OneOwnerPerModel, [Next]_vars,
                    NEW p \in Purchases, NEW q \in Purchases,
                    p # q, ModelOf[p] = ModelOf[q], Owns(p)', Owns(q)'
             PROVE  FALSE
  BY DEF OneOwnerPerModel
<1>1. ~(Owns(p) /\ Owns(q))
  BY DEF OneOwnerPerModel
<1>2. ASSUME NEW a \in Purchases, NEW b \in Purchases, a # b,
             ModelOf[a] = ModelOf[b], Owns(b)
      PROVE  OtherActivePurchases(a) # {}
  BY <1>2, OwnersAreCached DEF OtherActivePurchases
<1>3. ~(CheckDuplicate(p) /\ CheckDuplicate(q))
  BY DEF CheckDuplicate, Goto, TypeOK
<1> QED
  BY <1>1, <1>2, <1>3, OwnershipGained

\* Two purchases of one model never both own paid/<model>, whatever the
\* informer's lag, the number of workers and the interleaving of their calls.
THEOREM ModelOwnedOnce == Spec => []OneOwnerPerModel
<1>1. Init => OneOwnerPerModel
  BY DEF Init, OneOwnerPerModel, Owns, Exists, Absent
<1> QED
  BY <1>1, TypeInit, TypeStep, TrackingInit, TrackingStep, OneOwnerStep, PTL DEF Spec

LEMMA AliasStep ==
    ASSUME TypeOK, Tracking, [Next]_vars,
           NEW p \in Purchases, Owns(p), pc[p] # "dropAlias",
           ModelOf[p] \in aliases
    PROVE  ModelOf[p] \in aliases'
<1>1. ASSUME NEW q \in Purchases, DropAlias(q) PROVE ModelOf[p] \in aliases'
  <2>1. p # q
    BY <1>1 DEF DropAlias
  <2>2. p \in cached
    BY OwnersAreCached
  <2>3. OtherActivePurchases(q) = {} => ModelOf[p] # ModelOf[q]
    BY <2>1, <2>2 DEF OtherActivePurchases
  <2> QED
    BY <1>1, <2>3 DEF DropAlias, AliasDropped, routeVars
<1>2. ASSUME NEW q \in Purchases, Reconcile(q), ~DropAlias(q)
      PROVE  ModelOf[p] \in aliases'
  <2>1. CASE FinishConfigure(q)
    BY <2>1 DEF FinishConfigure, AliasAdded, routeVars
  <2> QED
    BY <1>2, <2>1 DEF Reconcile, ProbeAndLoad, CheckDuplicate, ConfigureFails,
         MergeBuyerConfig, MergeBuyerAuths, CheckReady, WriteStatus, Drain,
         RemoveBuyerUpstream, TriggerBuyerRemove, Recheck, RemoveFinalizer,
         WriteFails, routeVars
<1>3. ASSUME NEW q \in Purchases, User(q) \/ Informer(q) \/ Dequeue(q) \/ Spend(q)
      PROVE  ModelOf[p] \in aliases'
  BY <1>3 DEF User, Create, TopUp, Delete, Informer, InformerAdd, InformerDelete,
       Dequeue, FetchMissing, FetchFails, AddFinalizer, Fetch, FetchDeleting, Spend, routeVars
<1>4. CASE ControllerRestart \/ Kubelet \/ Sidecar \/ LiteLLMRollout \/ UNCHANGED vars
  BY <1>4 DEF ControllerRestart, Kubelet, MountConfig, MountAuths, Sidecar, Reload,
       PodLeaves, PodListEmpty, PodReturns, LiteLLMRollout, routeVars, vars
<1> QED
  BY <1>1, <1>2, <1>3, <1>4 DEF Next

\* The teardown of one purchase never removes the alias another one owns.
THEOREM AliasKept == Spec => AliasNeverPulledFromOwner
<1>1. TypeOK /\ Tracking /\ [Next]_vars =>
        [\A p \in Purchases :
           /\ Owns(p) /\ pc[p] # "dropAlias" /\ Owns(p)'
           /\ ModelOf[p] \in aliases
           => ModelOf[p] \in aliases']_vars
  BY AliasStep
<1> QED
  BY <1>1, TypeInit, TypeStep, TrackingInit, TrackingStep, PTL
     DEF Spec, AliasNeverPulledFromOwner

-----------------------------------------------------------------------------
(* Configured means the generation's pool is written *)

LiveStages == {"probe", "configure", "writeConfig", "writeAuths", "alias", "ready"}
DeletingStages == {"drain", "dropAlias", "dropUpstream", "remove", "recheck",
                   "finalize"}

Written(q, pool) == q \in cm.config /\ cm.auths[q] = pool

\* A reconcile works on a generation that is not newer than the request's, and
\* no status was observed past it; what it has published is its own pool.
Publication(q) ==
    /\ cr[q].status.obs <= cr[q].gen
    /\ pc[q] \in LiveStages => work[q].phase = "live"
    /\ pc[q] \in DeletingStages =>
         work[q].phase = "deleting" /\ cr[q].phase = "deleting"
    /\ pc[q] # "idle" =>
         /\ work[q].gen <= cr[q].gen
         /\ work[q].gen = cr[q].gen => work[q].pool = cr[q].pool
         /\ cr[q].status.obs <= work[q].gen
         /\ work[q].status.obs <= work[q].gen
    /\ pc[q] = "writeAuths" => q \in cm.config
    /\ pc[q] = "alias" => Written(q, work[q].pool)
    /\ pc[q] # "idle" /\ work[q].phase = "live" /\ work[q].status.configured = "yes"
         => Written(q, work[q].pool)
    /\ /\ cr[q].phase = "live"
       /\ cr[q].status.configured = "yes" /\ cr[q].status.obs = cr[q].gen
       => Written(q, cr[q].pool)

LEMMA PublicationInit == Init => \A q \in Purchases : Publication(q)
BY DEF Init, Publication, Absent, NoStatus, LiveStages, DeletingStages

\* The parts of a state Publication(q) reads, and their types.
LEMMA PublicationFrame ==
    ASSUME NEW q \in Purchases, Publication(q),
           cr[q]' = cr[q], pc[q]' = pc[q], work[q]' = work[q],
           q \in cm.config => q \in cm.config', cm.auths[q]' = cm.auths[q]
    PROVE  Publication(q)'
BY DEF Publication, Written

\* A step that only moves q's reconcile and its status.
LEMMA PublicationStage ==
    ASSUME TypeOK, NEW q \in Purchases, Publication(q), UNCHANGED <<cr, cm>>,
           NEW st \in Status, NEW stage \in Stage,
           SetStatus(q, st), Goto(q, stage),
           pc[q] # "idle", st.obs = work[q].status.obs,
           \/ st.configured # "yes"
           \/ st.configured = work[q].status.configured
           \/ Written(q, work[q].pool),
           \/ stage = "status"
           \/ pc[q] \in LiveStages /\ stage \in LiveStages
           \/ pc[q] \in DeletingStages /\ stage \in DeletingStages,
           stage \notin {"writeAuths", "alias"}
    PROVE  Publication(q)'
<1>1. /\ pc[q]' = stage /\ work[q]' = [work[q] EXCEPT !.status = st]
      /\ work[q] \in Request
  BY DEF TypeOK, SetStatus, Goto
<1>2. /\ work[q]'.gen = work[q].gen /\ work[q]'.pool = work[q].pool
      /\ work[q]'.phase = work[q].phase /\ work[q]'.status = st
  BY <1>1 DEF Request
<1> QED
  BY <1>1, <1>2 DEF Publication, Written, LiveStages, DeletingStages

LEMMA PublicationReconcile ==
    ASSUME TypeOK, NEW q \in Purchases, Publication(q), Reconcile(q)
    PROVE  Publication(q)'
<1>1. My(q) \in Status /\ work[q] \in Request /\ cr[q] \in Request /\ cm \in Files
  BY MyStatus DEF TypeOK
<1>2. [work EXCEPT ![q].status = My(q)] = work
  BY <1>1 DEF TypeOK, My, Request
<1>3. CASE ProbeAndLoad(q)
  <2> DEFINE st == [My(q) EXCEPT !.probed = TRUE, !.loaded = TRUE]
  <2>1. /\ st \in Status /\ st.obs = My(q).obs /\ st.configured = My(q).configured
    BY <1>1 DEF Status
  <2>2. CASE SetStatus(q, st) /\ Goto(q, AfterLoad(st))
    <3> HIDE DEF st
    <3>1. AfterLoad(st) \in {"ready", "configure", "status"}
      BY DEF AfterLoad
    <3> QED
      BY <1>3, <2>1, <2>2, <3>1, PublicationStage
         DEF ProbeAndLoad, My, crVars, Stage, LiveStages
  <2>3. CASE UNCHANGED work /\ Goto(q, "status")
    BY <1>1, <1>2, <1>3, <2>3, PublicationStage
       DEF ProbeAndLoad, SetStatus, My, crVars, Stage, LiveStages
  <2> QED
    BY <1>3, <2>2, <2>3 DEF ProbeAndLoad
<1>4. CASE CheckDuplicate(q)
  <2> DEFINE st == [My(q) EXCEPT !.configured = "duplicate"]
  <2>1. /\ st \in Status /\ st.obs = My(q).obs /\ st.configured = "duplicate"
    BY <1>1 DEF Status
  <2>2. CASE SetStatus(q, st) /\ Goto(q, "status")
    BY <1>4, <2>1, <2>2, PublicationStage DEF CheckDuplicate, My, crVars, Stage
  <2>3. CASE UNCHANGED work /\ Goto(q, "writeConfig")
    BY <1>1, <1>2, <1>4, <2>3, PublicationStage
       DEF CheckDuplicate, SetStatus, My, crVars, Stage, LiveStages
  <2> QED
    BY <1>4, <2>2, <2>3 DEF CheckDuplicate
<1>5. CASE ConfigureFails(q)
  <2> DEFINE st == [My(q) EXCEPT !.configured = "no"]
  <2>1. /\ st \in Status /\ st.obs = My(q).obs /\ st.configured = "no"
    BY <1>1 DEF Status
  <2> QED
    BY <1>5, <2>1, PublicationStage DEF ConfigureFails, My, crVars, Stage
<1>6. CASE MergeBuyerConfig(q)
  <2>1. /\ cm'.config = cm.config \cup {q} /\ cm'.auths = cm.auths
        /\ pc[q] = "writeConfig" /\ pc[q]' = "writeAuths"
        /\ UNCHANGED <<cr, work>>
    BY <1>1, <1>6 DEF MergeBuyerConfig, Goto, TypeOK, Files, crVars
  <2> QED
    BY <2>1 DEF Publication, Written, LiveStages, DeletingStages
<1>7. CASE MergeBuyerAuths(q)
  <2>1. /\ cm'.config = cm.config /\ cm'.auths[q] = work[q].pool
        /\ pc[q] = "writeAuths" /\ pc[q]' = "alias"
        /\ UNCHANGED <<cr, work>>
    BY <1>1, <1>7 DEF MergeBuyerAuths, Goto, TypeOK, Files, crVars
  <2>2. cr[q].gen \in Nat /\ work[q].gen \in Nat /\ cr[q].status.obs \in Nat
    BY <1>1 DEF Request, Status
  <2> QED
    BY <2>1, <2>2 DEF Publication, Written, LiveStages, DeletingStages
<1>8. CASE FinishConfigure(q)
  <2> DEFINE st == [My(q) EXCEPT !.configured = "yes",
                                 !.remaining = Cardinality(work[q].pool)]
  <2>1. /\ st \in Status /\ st.obs = My(q).obs
    BY <1>1, PoolCount, MyStatus DEF Status
  <2>2. Written(q, work[q].pool)
    BY <1>8 DEF FinishConfigure, Publication
  <2> QED
    BY <1>8, <2>1, <2>2, PublicationStage
       DEF FinishConfigure, My, crVars, Stage, LiveStages
<1>9. CASE CheckReady(q)
  <2>1. /\ ReadyAfterCheck(q) \in Status
        /\ ReadyAfterCheck(q).obs = My(q).obs
        /\ ReadyAfterCheck(q).configured = My(q).configured
    BY <1>1, PoolCount, MyStatus DEF ReadyAfterCheck, Status
  <2> QED
    BY <1>9, <2>1, PublicationStage DEF CheckReady, My, crVars, Stage
<1>10. CASE WriteStatus(q)
  <2>1. /\ pc[q] = "status" /\ pc[q]' = "idle" /\ UNCHANGED cm
    BY <1>10 DEF WriteStatus, Goto, TypeOK
  <2>2. CASE ~Unmoved(q)
    BY <1>10, <2>1, <2>2 DEF WriteStatus, Publication, Written, LiveStages, DeletingStages
  <2>3. CASE Unmoved(q)
    <3>1. cr[q]' = [cr[q] EXCEPT !.status = My(q)]
      BY <1>10, <2>3 DEF WriteStatus, TypeOK
    <3>2. /\ cr[q]'.gen = cr[q].gen /\ cr[q]'.phase = cr[q].phase
          /\ cr[q]'.pool = cr[q].pool /\ cr[q]'.status = work[q].status
      BY <1>1, <3>1 DEF Request, My
    <3> QED
      BY <2>1, <2>3, <3>2 DEF Unmoved, Publication, Written, LiveStages, DeletingStages
  <2> QED
    BY <2>2, <2>3
<1>11. CASE Drain(q)
  <2>1. RemainingToDrain(q) \in 0..Cardinality(Vouchers) /\ 0 \in 0..Cardinality(Vouchers)
    BY <1>1, PoolCount, MyStatus
       DEF RemainingToDrain, Status, StatusListed, StatusGone, StatusUnknown
  <2>2. \E st \in Status, stage \in {"status", "dropAlias"} :
          /\ SetStatus(q, st) /\ Goto(q, stage)
          /\ st.obs = My(q).obs /\ st.configured = My(q).configured
    <3> DEFINE s1 == [My(q) EXCEPT !.remaining = RemainingToDrain(q), !.deleting = "draining"]
               s2 == [My(q) EXCEPT !.remaining = 0]
    <3>1. /\ s1 \in Status /\ s1.obs = My(q).obs /\ s1.configured = My(q).configured
          /\ s2 \in Status /\ s2.obs = My(q).obs /\ s2.configured = My(q).configured
      BY <1>1, <2>1 DEF Status
    <3>2. \/ SetStatus(q, s1) /\ Goto(q, "status")
          \/ SetStatus(q, s2) /\ Goto(q, "dropAlias")
      BY <1>11 DEF Drain
    <3> QED
      BY <3>1, <3>2
  <2> QED
    BY <1>11, <2>2, PublicationStage DEF Drain, My, crVars, Stage, DeletingStages
<1>12. CASE DropAlias(q) \/ TriggerBuyerRemove(q)
  <2>1. /\ pc[q] \in DeletingStages /\ UNCHANGED <<cr, work, cm>>
        /\ pc[q]' \in DeletingStages
    BY <1>12 DEF DropAlias, TriggerBuyerRemove, Goto, TypeOK, DeletingStages, crVars
  <2> QED
    BY <2>1 DEF Publication, Written, LiveStages, DeletingStages
<1>13. CASE RemoveBuyerUpstream(q)
  <2>1. /\ pc[q] = "dropUpstream" /\ pc[q]' = "remove" /\ UNCHANGED <<cr, work>>
    BY <1>13 DEF RemoveBuyerUpstream, Goto, TypeOK, crVars
  <2> QED
    BY <2>1 DEF Publication, Written, LiveStages, DeletingStages
<1>14. CASE Recheck(q)
  <2>1. CASE UNCHANGED work /\ Goto(q, "finalize")
    BY <1>1, <1>2, <1>14, <2>1, PublicationStage
       DEF Recheck, SetStatus, My, crVars, Stage, DeletingStages
  <2>2. CASE Goto(q, "status") /\ SetStatus(q, [My(q) EXCEPT !.deleting = "cleanup"])
    <3> DEFINE st == [My(q) EXCEPT !.deleting = "cleanup"]
    <3>1. st \in Status /\ st.obs = My(q).obs /\ st.configured = My(q).configured
      BY <1>1 DEF Status
    <3> QED
      BY <1>14, <2>2, <3>1, PublicationStage DEF Recheck, My, crVars, Stage
  <2> QED
    BY <1>14, <2>1, <2>2 DEF Recheck
<1>15. CASE RemoveFinalizer(q)
  <2>1. /\ pc[q]' = "idle" /\ cr[q]'.phase = "gone" /\ cr[q]'.gen = cr[q].gen
        /\ cr[q]'.status = cr[q].status
    BY <1>1, <1>15 DEF RemoveFinalizer, Goto, TypeOK, Request
  <2> QED
    BY <2>1 DEF Publication, LiveStages, DeletingStages
<1>16. CASE WriteFails(q)
  <2>1. pc[q]' = "idle" /\ UNCHANGED <<cr, cm>>
    BY <1>16 DEF WriteFails, Goto, TypeOK, crVars
  <2> QED
    BY <2>1 DEF Publication, Written, LiveStages, DeletingStages
<1> QED
  BY <1>3, <1>4, <1>5, <1>6, <1>7, <1>8, <1>9, <1>10, <1>11, <1>12, <1>13, <1>14,
     <1>15, <1>16 DEF Reconcile

LEMMA PublicationStep ==
    ASSUME TypeOK, Tracking, \A p \in Purchases : Publication(p), [Next]_vars,
           NEW q \in Purchases
    PROVE  Publication(q)'
<1>0. Publication(q)
  OBVIOUS
<1>1. /\ cr[q] \in Request /\ work[q] \in Request /\ cm \in Files
      /\ cr[q].gen \in Nat /\ cr[q].status.obs \in Nat /\ work[q].gen \in Nat
  BY MyStatus DEF TypeOK, Request, Status
<1>2. ASSUME NEW p \in Purchases, User(p) PROVE Publication(q)'
  <2>1. CASE p # q
    BY <1>0, <1>2, <2>1, PublicationFrame
       DEF TypeOK, User, Create, TopUp, Delete, workerVars
  <2>2. CASE Create(q)
    <3>1. /\ cr[q]'.status = NoStatus /\ cr[q]'.gen = 1
      BY <2>2, InitialTypes DEF Create, TypeOK, Absent, Request
    <3>2. pc[q]' = "idle"
      BY <2>2 DEF Create, workerVars, Tracking
    <3> QED
      BY <3>1, <3>2 DEF Publication, NoStatus, LiveStages, DeletingStages
  <2>3. CASE TopUp(q)
    <3>1. /\ cr[q]'.gen = cr[q].gen + 1 /\ cr[q]'.status = cr[q].status
          /\ cr[q]'.phase = cr[q].phase /\ cr[q].phase = "live"
          /\ UNCHANGED <<pc, work, cm>>
      BY <1>1, <2>3 DEF TopUp, TypeOK, Request
    <3> QED
      BY <1>0, <1>1, <3>1 DEF Publication, Written, LiveStages, DeletingStages
  <2>4. CASE Delete(q)
    <3>1. /\ cr[q]'.gen = cr[q].gen /\ cr[q]'.status = cr[q].status
          /\ cr[q]'.pool = cr[q].pool /\ cr[q].phase = "live"
          /\ cr[q]'.phase \in {"deleting", "gone"}
          /\ UNCHANGED <<pc, work, cm>>
      BY <1>1, <2>4 DEF Delete, TypeOK, Request
    <3> QED
      BY <1>0, <1>1, <3>1 DEF Publication, Written, LiveStages, DeletingStages
  <2> QED
    BY <1>2, <2>1, <2>2, <2>3, <2>4 DEF User
<1>3. ASSUME NEW p \in Purchases, Informer(p) PROVE Publication(q)'
  BY <1>0, <1>3, PublicationFrame DEF Informer, InformerAdd, InformerDelete
<1>4. ASSUME NEW p \in Purchases, Dequeue(p) PROVE Publication(q)'
  <2>1. CASE p # q
    BY <1>0, <1>4, <2>1, PublicationFrame
       DEF TypeOK, Dequeue, FetchMissing, FetchFails, AddFinalizer, Fetch, FetchDeleting, Goto,
           crVars, workerVars
  <2>2. CASE FetchMissing(q) \/ FetchFails(q)
    BY <1>0, <2>2, PublicationFrame DEF FetchMissing, FetchFails, crVars
  <2>3. CASE AddFinalizer(q)
    <3>1. /\ cr[q]'.gen = cr[q].gen /\ cr[q]'.status = cr[q].status
          /\ cr[q]'.pool = cr[q].pool /\ cr[q]'.phase = cr[q].phase
          /\ UNCHANGED <<pc, work, cm>>
      BY <1>1, <2>3 DEF AddFinalizer, TypeOK, Request, workerVars
    <3> QED
      BY <1>0, <3>1 DEF Publication, Written, LiveStages, DeletingStages
  <2>4. CASE Fetch(q)
    <3>1. /\ pc[q]' = "probe" /\ UNCHANGED <<cr, cm>> /\ cr[q].phase = "live"
          /\ work[q]' = [cr[q] EXCEPT !.status = StatusForGeneration(q)]
      BY <2>4 DEF Fetch, Goto, TypeOK, crVars
    <3>2. /\ work[q]'.gen = cr[q].gen /\ work[q]'.pool = cr[q].pool
          /\ work[q]'.phase = "live" /\ work[q]'.status = StatusForGeneration(q)
      BY <1>1, <3>1 DEF Request
    <3>3. /\ StatusForGeneration(q).obs = cr[q].gen
          /\ StatusForGeneration(q).configured = "yes" =>
               cr[q].status.configured = "yes" /\ cr[q].status.obs = cr[q].gen
      BY DEF StatusForGeneration, NoStatus
    <3> QED
      BY <1>0, <1>1, <3>1, <3>2, <3>3 DEF Publication, Written, LiveStages, DeletingStages
  <2>5. CASE FetchDeleting(q)
    <3>1. /\ pc[q]' = "drain" /\ UNCHANGED <<cr, cm>> /\ cr[q].phase = "deleting"
          /\ work[q]' = [cr[q] EXCEPT !.status.obs = cr[q].gen]
      BY <2>5 DEF FetchDeleting, Goto, TypeOK, crVars
    <3>2. /\ work[q]'.gen = cr[q].gen /\ work[q]'.pool = cr[q].pool
          /\ work[q]'.phase = "deleting" /\ work[q]'.status.obs = cr[q].gen
      BY <1>1, <3>1 DEF Request, Status
    <3> QED
      BY <1>0, <1>1, <3>1, <3>2 DEF Publication, Written, LiveStages, DeletingStages
  <2> QED
    BY <1>4, <2>1, <2>2, <2>3, <2>4, <2>5 DEF Dequeue
<1>5. ASSUME NEW p \in Purchases, Reconcile(p), p # q PROVE Publication(q)'
  <2>1. cr[q]' = cr[q]
    BY <1>5 DEF TypeOK, Reconcile, ProbeAndLoad, CheckDuplicate, ConfigureFails,
         MergeBuyerConfig, MergeBuyerAuths, FinishConfigure, CheckReady, WriteStatus,
         Drain, DropAlias, RemoveBuyerUpstream, TriggerBuyerRemove, Recheck,
         RemoveFinalizer, WriteFails, crVars
  <2>2. work[q]' = work[q] /\ pc[q]' = pc[q]
    BY <1>5 DEF TypeOK, Reconcile, ProbeAndLoad, CheckDuplicate, ConfigureFails,
         MergeBuyerConfig, MergeBuyerAuths, FinishConfigure, CheckReady, WriteStatus,
         Drain, DropAlias, RemoveBuyerUpstream, TriggerBuyerRemove, Recheck,
         RemoveFinalizer, WriteFails, SetStatus, Goto
  <2>3. (q \in cm.config => q \in cm.config') /\ cm.auths[q]' = cm.auths[q]
    <3>1. CASE MergeBuyerConfig(p) \/ MergeBuyerAuths(p) \/ RemoveBuyerUpstream(p)
      BY <1>1, <1>5, <3>1 DEF MergeBuyerConfig, MergeBuyerAuths, RemoveBuyerUpstream, Files
    <3> QED
      BY <1>5, <3>1 DEF Reconcile, ProbeAndLoad, CheckDuplicate, ConfigureFails,
         FinishConfigure, CheckReady, WriteStatus, Drain, DropAlias,
         TriggerBuyerRemove, Recheck, RemoveFinalizer, WriteFails
  <2> QED
    BY <1>0, <2>1, <2>2, <2>3, PublicationFrame
<1>6. CASE ControllerRestart
  <2>1. pc[q]' = "idle" /\ UNCHANGED <<cr, cm>>
    BY <1>6 DEF ControllerRestart
  <2> QED
    BY <1>0, <2>1 DEF Publication, Written, LiveStages, DeletingStages
<1>7. CASE UNCHANGED <<crVars, workerVars, cm>>
  BY <1>0, <1>7, PublicationFrame DEF crVars, workerVars
<1>8. ASSUME NEW p \in Purchases, Spend(p) PROVE UNCHANGED <<crVars, workerVars, cm>>
  BY <1>8 DEF Spend
<1>9. CASE Kubelet \/ Sidecar \/ LiteLLMRollout \/ UNCHANGED vars
  BY <1>7, <1>9 DEF Kubelet, MountConfig, MountAuths, Sidecar, Reload, PodLeaves,
                    PodListEmpty, PodReturns, LiteLLMRollout, vars
<1> QED
  BY <1>0, <1>2, <1>3, <1>4, <1>5, <1>6, <1>7, <1>8, <1>9, PublicationReconcile DEF Next

\* A live request that says Configured for its generation has that generation's
\* pool in the sidecar's ConfigMaps, through conflicts, failed writes, edits in
\* the middle of a reconcile and controller restarts.
THEOREM ConfiguredIsPublished == Spec => []ConfiguredPoolIsWritten
<1> DEFINE Inv == \A q \in Purchases : Publication(q)
<1>1. Init => Inv
  BY PublicationInit
<1>2. TypeOK /\ Tracking /\ Inv /\ [Next]_vars => Inv'
  BY PublicationStep
<1>3. Inv => ConfiguredPoolIsWritten
  BY DEF Publication, Written, ConfiguredPoolIsWritten
<1> HIDE DEF Inv
<1> QED
  BY <1>1, <1>2, <1>3, TypeInit, TypeStep, TrackingInit, TrackingStep, PTL DEF Spec

-----------------------------------------------------------------------------
(* The drain spends the whole budget *)

\* q's unspent budget is whole in the ConfigMaps, in what the kubelet mounted of
\* them and in the sidecar.
Funded(q) ==
    /\ q \in cm.config /\ q \in mount.config /\ q \in listed
    /\ \A S \in {cm.auths[q], mount.auths[q], served[q]} :
         cr[q].pool \ consumed[q] \subseteq S

\* What the sidecar, the mount, the ConfigMap, the running reconcile and the
\* request hold of q follow one another: nothing unspent in an older copy is
\* missing from a newer one.
Chain(q) ==
    /\ served[q] \subseteq mount.auths[q] \ consumed[q]
    /\ mount.auths[q] \ consumed[q] \subseteq cm.auths[q]
    /\ cm.auths[q] \ consumed[q] \subseteq cr[q].pool
    /\ pc[q] # "idle" => /\ cm.auths[q] \ consumed[q] \subseteq work[q].pool
                         /\ work[q].pool \ consumed[q] \subseteq cr[q].pool
    /\ q \in listed => q \in mount.config
    /\ q \in mount.config => q \in cm.config

PastDrain == {"dropAlias", "dropUpstream", "remove", "recheck", "finalize"}

\* A live request: its copies are in order, it carries the finalizer once a
\* reconcile took it, and it is funded once it was Ready for its generation.
LiveBudget(q) ==
    /\ Chain(q)
    /\ cr[q].phase = "absent" => cr[q].pool = {}
    /\ cr[q].phase = "live" =>
         /\ pc[q] # "idle" \/ SyncedBefore(cr[q].status) => cr[q].finalizer
         /\ cr[q].status.obs = cr[q].gen /\ SyncedBefore(cr[q].status) => Funded(q)
         /\ /\ pc[q] # "idle" /\ work[q].phase = "live"
            /\ work[q].gen = cr[q].gen /\ SyncedBefore(work[q].status)
            => Funded(q)

\* A request deleted while Ready: funded and not past its drain, or spent.
OwedBudget(q) ==
    /\ cr[q].phase \in {"deleting", "gone"}
    /\ pc[q] # "idle" => work[q].gen = cr[q].gen
    /\ \/ cr[q].pool \subseteq consumed[q]
       \/ cr[q].phase = "deleting" /\ Funded(q) /\ pc[q] \notin PastDrain

PurchaseBudget(q) ==
    /\ cr[q].phase \in {"absent", "live"} => LiveBudget(q)
    /\ q \in drainOwed => OwedBudget(q)

\* While the sidecar's pod was never away.
Budgets ==
    left.outages = MaxOutages =>
      pod = "running" /\ \A q \in Purchases : PurchaseBudget(q)

LEMMA BudgetsInit == Init => Budgets
BY DEF Init, Budgets, PurchaseBudget, LiveBudget, Chain, OwedBudget, Absent, NoFiles

\* A step that touches nothing of q.
LEMMA BudgetFrame ==
    ASSUME NEW q \in Purchases, PurchaseBudget(q),
           cr[q]' = cr[q], pc[q]' = pc[q], work[q]' = work[q],
           q \in cm'.config <=> q \in cm.config, cm'.auths[q] = cm.auths[q],
           q \in mount'.config <=> q \in mount.config,
           mount'.auths[q] = mount.auths[q],
           q \in listed' <=> q \in listed, served[q]' = served[q],
           consumed[q]' = consumed[q], q \in drainOwed' <=> q \in drainOwed
    PROVE  PurchaseBudget(q)'
BY DEF PurchaseBudget, LiveBudget, Chain, OwedBudget, Funded

\* A call of q's reconcile that only moves it and its status.
LEMMA BudgetStage ==
    ASSUME TypeOK, NEW q \in Purchases, PurchaseBudget(q),
           UNCHANGED <<cr, cm, mount, listed, served, consumed, drainOwed>>,
           NEW st \in Status, NEW stage \in Stage,
           SetStatus(q, st), Goto(q, stage), pc[q] # "idle",
           stage \in PastDrain /\ pc[q] \notin PastDrain =>
             (q \in drainOwed => cr[q].pool \subseteq consumed[q]),
           SyncedBefore(st) =>
             \/ SyncedBefore(work[q].status)
             \/ /\ cr[q].phase = "live" /\ work[q].phase = "live"
                /\ work[q].gen = cr[q].gen
                => Funded(q)
    PROVE  PurchaseBudget(q)'
<1>1. /\ pc[q]' = stage /\ work[q]' = [work[q] EXCEPT !.status = st]
      /\ work[q] \in Request
  BY DEF TypeOK, SetStatus, Goto
<1>2. /\ work[q]'.gen = work[q].gen /\ work[q]'.pool = work[q].pool
      /\ work[q]'.phase = work[q].phase /\ work[q]'.status = st
  BY <1>1 DEF Request
<1>3. Chain(q) => Chain(q)'
  BY <1>2 DEF Chain
<1>4. Funded(q) => Funded(q)'
  BY DEF Funded
<1>5. cr[q].phase \in {"absent", "live"} => LiveBudget(q)'
  BY <1>1, <1>2, <1>3, <1>4 DEF PurchaseBudget, LiveBudget
<1>6. q \in drainOwed => OwedBudget(q)'
  BY <1>1, <1>2, <1>4 DEF PurchaseBudget, OwedBudget
<1> QED
  BY <1>5, <1>6 DEF PurchaseBudget

\* A full count is the whole pool: what is served of it is part of it.
LEMMA FullCount ==
    ASSUME NEW S, NEW T, IsFiniteSet(T), S \subseteq T,
           Cardinality(S) = Cardinality(T)
    PROVE  S = T
BY FS_Subset

\* What the status check concludes (CheckReady): a sidecar that listed the
\* whole pool once, or lists an upstream that was Ready before, is funded.
LEMMA ReadyIsFunded ==
    ASSUME TypeOK, NEW q \in Purchases, Publication(q), LiveBudget(q),
           pc[q] # "idle", SyncedBefore(ReadyAfterCheck(q)),
           ~SyncedBefore(work[q].status),
           work[q].gen = cr[q].gen
    PROVE  Funded(q)
<1>1. My(q) \in Status /\ work[q].pool \subseteq Vouchers
  BY MyStatus
<1>2. StatusListed(q) /\ Cardinality(served[q]) = Cardinality(work[q].pool)
  BY <1>1 DEF ReadyAfterCheck, SyncedBefore, Status, My
<1>3. work[q].pool = cr[q].pool
  BY DEF Publication
<1>4. served[q] \subseteq work[q].pool
  BY DEF LiveBudget, Chain
<1>5. IsFiniteSet(work[q].pool)
  BY <1>1, PurchaseAssumption, FS_Subset
<1>6. served[q] = work[q].pool
  BY <1>2, <1>4, <1>5, FullCount
<1> QED
  BY <1>2, <1>3, <1>6 DEF LiveBudget, Chain, Funded, StatusListed

\* With the upstream listed and the pod running, only an empty pool ends the
\* drain.
LEMMA DrainedIsSpent ==
    ASSUME TypeOK, pod = "running", NEW q \in Purchases, Funded(q),
           ~(RemainingToDrain(q) > 0)
    PROVE  cr[q].pool \subseteq consumed[q]
<1>1. IsFiniteSet(served[q])
  BY MyStatus, PurchaseAssumption, FS_Subset
<1>2. RemainingToDrain(q) = Cardinality(served[q])
  BY DEF Funded, RemainingToDrain, StatusListed, StatusGone, StatusUnknown
<1>3. served[q] = {}
  BY <1>1, <1>2, FS_CardinalityType, FS_EmptySet
<1> QED
  BY <1>3 DEF Funded

LEMMA BudgetReconcile ==
    ASSUME TypeOK, pod = "running", NEW q \in Purchases, Publication(q),
           PurchaseBudget(q), Reconcile(q)
    PROVE  PurchaseBudget(q)'
<1>1. My(q) \in Status /\ work[q] \in Request /\ cr[q] \in Request /\ cm \in Files
  BY MyStatus DEF TypeOK
<1>2. [work EXCEPT ![q].status = My(q)] = work
  BY <1>1 DEF TypeOK, My, Request
<1> DEFINE Same == UNCHANGED <<cr, cm, mount, listed, served, consumed, drainOwed>>
<1>3. CASE ProbeAndLoad(q)
  <2> DEFINE st == [My(q) EXCEPT !.probed = TRUE, !.loaded = TRUE]
  <2>1. st \in Status /\ st.ready = My(q).ready
    BY <1>1 DEF Status
  <2>2. AfterLoad(st) \in {"ready", "configure", "status"}
    BY DEF AfterLoad
  <2>3. Same /\ pc[q] = "probe"
    BY <1>3 DEF ProbeAndLoad, crVars, sidecarVars
  <2>4. CASE SetStatus(q, st) /\ Goto(q, AfterLoad(st))
    <3> HIDE DEF st
    <3> QED
      BY <2>1, <2>2, <2>3, <2>4, BudgetStage DEF My, Stage, PastDrain, SyncedBefore
  <2>5. CASE UNCHANGED work /\ Goto(q, "status")
    BY <1>1, <1>2, <2>3, <2>5, BudgetStage DEF SetStatus, My, Stage, PastDrain
  <2> QED
    BY <1>3, <2>4, <2>5 DEF ProbeAndLoad
<1>4. CASE CheckDuplicate(q)
  <2> DEFINE st == [My(q) EXCEPT !.configured = "duplicate"]
  <2>1. st \in Status /\ st.ready = My(q).ready
    BY <1>1 DEF Status
  <2>2. Same /\ pc[q] = "configure"
    BY <1>4 DEF CheckDuplicate, crVars, sidecarVars
  <2>3. CASE SetStatus(q, st) /\ Goto(q, "status")
    BY <2>1, <2>2, <2>3, BudgetStage DEF My, Stage, PastDrain, SyncedBefore
  <2>4. CASE UNCHANGED work /\ Goto(q, "writeConfig")
    BY <1>1, <1>2, <2>2, <2>4, BudgetStage DEF SetStatus, My, Stage, PastDrain
  <2> QED
    BY <1>4, <2>3, <2>4 DEF CheckDuplicate
<1>5. CASE ConfigureFails(q)
  <2> DEFINE st == [My(q) EXCEPT !.configured = "no"]
  <2>1. st \in Status /\ st.ready = My(q).ready
    BY <1>1 DEF Status
  <2>2. Same /\ pc[q] # "idle" /\ SetStatus(q, st) /\ Goto(q, "status")
    BY <1>5 DEF ConfigureFails, crVars, sidecarVars
  <2> QED
    BY <2>1, <2>2, BudgetStage DEF My, Stage, PastDrain, SyncedBefore
<1>6. CASE MergeBuyerConfig(q)
  <2>1. /\ cm'.config = cm.config \cup {q} /\ cm'.auths = cm.auths
        /\ pc[q] = "writeConfig" /\ pc[q]' = "writeAuths"
        /\ UNCHANGED <<cr, work, mount, listed, served, consumed, drainOwed>>
    BY <1>1, <1>6 DEF MergeBuyerConfig, Goto, TypeOK, Files, crVars, sidecarVars
  <2> QED
    BY <2>1 DEF PurchaseBudget, LiveBudget, Chain, OwedBudget, Funded, PastDrain
<1>7. CASE MergeBuyerAuths(q)
  <2>1. /\ cm'.config = cm.config /\ cm'.auths[q] = work[q].pool
        /\ pc[q] = "writeAuths" /\ pc[q]' = "alias"
        /\ UNCHANGED <<cr, work, mount, listed, served, consumed, drainOwed>>
    BY <1>1, <1>7 DEF MergeBuyerAuths, Goto, TypeOK, Files, crVars, sidecarVars
  <2>2. work[q].gen = cr[q].gen => work[q].pool = cr[q].pool
    BY <2>1 DEF Publication
  <2>3. Chain(q) => Chain(q)'
    BY <2>1 DEF Chain
  <2>4. work[q].gen = cr[q].gen /\ Funded(q) => Funded(q)'
    BY <2>1, <2>2 DEF Funded
  <2>5. cr[q].status.obs = cr[q].gen => work[q].gen = cr[q].gen
    BY <1>1, <2>1 DEF Publication, Request, Status
  <2> QED
    BY <2>1, <2>3, <2>4, <2>5 DEF PurchaseBudget, LiveBudget, OwedBudget, PastDrain
<1>8. CASE FinishConfigure(q)
  <2> DEFINE st == [My(q) EXCEPT !.configured = "yes",
                                 !.remaining = Cardinality(work[q].pool)]
  <2>1. st \in Status /\ st.ready = My(q).ready
    BY <1>1, PoolCount, MyStatus DEF Status
  <2>2. Same /\ pc[q] = "alias" /\ SetStatus(q, st) /\ Goto(q, "ready")
    BY <1>8 DEF FinishConfigure, crVars, sidecarVars
  <2> QED
    BY <2>1, <2>2, BudgetStage DEF My, Stage, PastDrain, SyncedBefore
<1>9. CASE CheckReady(q)
  <2>1. ReadyAfterCheck(q) \in Status
    BY <1>1, PoolCount, MyStatus DEF ReadyAfterCheck, Status
  <2>2. /\ Same /\ pc[q] = "ready" /\ SetStatus(q, ReadyAfterCheck(q))
        /\ Goto(q, "status")
    BY <1>9 DEF CheckReady, crVars, sidecarVars
  <2>3. SyncedBefore(ReadyAfterCheck(q)) =>
          \/ SyncedBefore(work[q].status)
          \/ /\ cr[q].phase = "live" /\ work[q].phase = "live"
             /\ work[q].gen = cr[q].gen
             => Funded(q)
    BY <2>2, ReadyIsFunded DEF PurchaseBudget
  <2> QED
    BY <2>1, <2>2, <2>3, BudgetStage DEF Stage, PastDrain
<1>10. CASE WriteStatus(q)
  <2>1. /\ pc[q] = "status" /\ pc[q]' = "idle"
        /\ UNCHANGED <<cm, mount, listed, served, consumed, drainOwed>>
    BY <1>10 DEF WriteStatus, Goto, TypeOK, sidecarVars
  <2>2. CASE ~Unmoved(q)
    <3>1. cr' = cr
      BY <1>10, <2>2 DEF WriteStatus
    <3> QED
      BY <2>1, <3>1 DEF PurchaseBudget, LiveBudget, Chain, OwedBudget, Funded, PastDrain
  <2>3. CASE Unmoved(q)
    <3>1. cr[q]' = [cr[q] EXCEPT !.status = My(q)]
      BY <1>10, <2>3 DEF WriteStatus, TypeOK
    <3>2. /\ cr[q]'.gen = cr[q].gen /\ cr[q]'.phase = cr[q].phase
          /\ cr[q]'.pool = cr[q].pool /\ cr[q]'.status = work[q].status
          /\ cr[q]'.finalizer = cr[q].finalizer
      BY <1>1, <3>1 DEF Request, My
    <3>3. work[q].gen = cr[q].gen /\ work[q].phase = cr[q].phase
      BY <2>3 DEF Unmoved
    <3>4. (Chain(q) => Chain(q)') /\ (Funded(q) => Funded(q)')
      BY <2>1, <3>2 DEF Chain, Funded
    <3>5. cr[q].phase \in {"absent", "live"} => LiveBudget(q)'
      BY <2>1, <3>2, <3>3, <3>4 DEF PurchaseBudget, LiveBudget
    <3>6. q \in drainOwed => OwedBudget(q)'
      BY <2>1, <3>2, <3>4 DEF PurchaseBudget, OwedBudget, PastDrain
    <3> QED
      BY <2>1, <3>2, <3>5, <3>6 DEF PurchaseBudget
  <2> QED
    BY <2>2, <2>3
<1>11. CASE Drain(q)
  <2>1. RemainingToDrain(q) \in 0..Cardinality(Vouchers) /\ 0 \in 0..Cardinality(Vouchers)
    BY <1>1, PoolCount, MyStatus
       DEF RemainingToDrain, Status, StatusListed, StatusGone, StatusUnknown
  <2> DEFINE s1 == [My(q) EXCEPT !.remaining = RemainingToDrain(q), !.deleting = "draining"]
             s2 == [My(q) EXCEPT !.remaining = 0]
  <2>2. /\ s1 \in Status /\ s1.ready = My(q).ready
        /\ s2 \in Status /\ s2.ready = My(q).ready
    BY <1>1, <2>1 DEF Status
  <2>3. Same /\ pc[q] = "drain"
    BY <1>11 DEF Drain, crVars, sidecarVars
  <2>4. CASE RemainingToDrain(q) > 0
    <3>1. SetStatus(q, s1) /\ Goto(q, "status")
      BY <1>11, <2>4 DEF Drain
    <3> HIDE DEF s1
    <3> QED
      BY <2>2, <2>3, <3>1, BudgetStage DEF My, Stage, PastDrain, SyncedBefore
  <2>5. CASE ~(RemainingToDrain(q) > 0)
    <3>1. SetStatus(q, s2) /\ Goto(q, "dropAlias")
      BY <1>11, <2>5 DEF Drain
    <3>2. q \in drainOwed => cr[q].pool \subseteq consumed[q]
      BY <2>5, DrainedIsSpent DEF PurchaseBudget, OwedBudget
    <3> HIDE DEF s2
    <3> QED
      BY <2>2, <2>3, <3>1, <3>2, BudgetStage DEF My, Stage, SyncedBefore
  <2> QED
    BY <2>4, <2>5
<1>12. CASE DropAlias(q)
  <2>1. Same /\ pc[q] = "dropAlias" /\ SetStatus(q, My(q)) /\ Goto(q, "dropUpstream")
    BY <1>2, <1>12 DEF DropAlias, crVars, sidecarVars, SetStatus
  <2> QED
    BY <1>1, <2>1, BudgetStage DEF My, Stage, PastDrain
<1>13. CASE RemoveBuyerUpstream(q) \/ TriggerBuyerRemove(q)
  <2>1. /\ pc[q] \in PastDrain /\ pc[q] \in DeletingStages /\ pc[q]' \in PastDrain
        /\ UNCHANGED <<cr, work, consumed, drainOwed>>
    BY <1>13 DEF RemoveBuyerUpstream, TriggerBuyerRemove, Goto, TypeOK, crVars,
                 sidecarVars, PastDrain, DeletingStages
  <2>2. cr[q].phase = "deleting"
    BY <2>1 DEF Publication
  <2>3. pc[q] # "idle"
    BY <2>1 DEF PastDrain
  <2> QED
    BY <2>1, <2>2, <2>3 DEF PurchaseBudget, OwedBudget
<1>14. CASE Recheck(q)
  <2>1. Same /\ pc[q] = "recheck"
    BY <1>14 DEF Recheck, crVars, sidecarVars
  <2>2. CASE UNCHANGED work /\ Goto(q, "finalize")
    BY <1>1, <1>2, <2>1, <2>2, BudgetStage DEF SetStatus, My, Stage, PastDrain
  <2>3. CASE Goto(q, "status") /\ SetStatus(q, [My(q) EXCEPT !.deleting = "cleanup"])
    <3> DEFINE st == [My(q) EXCEPT !.deleting = "cleanup"]
    <3>1. st \in Status /\ st.ready = My(q).ready
      BY <1>1 DEF Status
    <3> QED
      BY <2>1, <2>3, <3>1, BudgetStage DEF My, Stage, PastDrain, SyncedBefore
  <2> QED
    BY <1>14, <2>2, <2>3 DEF Recheck
<1>15. CASE RemoveFinalizer(q)
  <2>1. /\ pc[q] = "finalize" /\ pc[q]' = "idle" /\ cr[q]'.phase = "gone"
        /\ cr[q]'.pool = cr[q].pool /\ UNCHANGED <<consumed, drainOwed>>
    BY <1>1, <1>15 DEF RemoveFinalizer, Goto, TypeOK, Request, sidecarVars
  <2> QED
    BY <2>1 DEF PurchaseBudget, OwedBudget, PastDrain
<1>16. CASE WriteFails(q)
  <2>1. /\ pc[q]' = "idle"
        /\ UNCHANGED <<cr, cm, mount, listed, served, consumed, drainOwed>>
        /\ pc[q] # "idle"
    BY <1>16 DEF WriteFails, Goto, TypeOK, crVars, sidecarVars
  <2> QED
    BY <2>1 DEF PurchaseBudget, LiveBudget, Chain, OwedBudget, Funded, PastDrain
<1> QED
  BY <1>3, <1>4, <1>5, <1>6, <1>7, <1>8, <1>9, <1>10, <1>11, <1>12, <1>13, <1>14,
     <1>15, <1>16 DEF Reconcile

LEMMA BudgetStep ==
    ASSUME TypeOK, Tracking, pod = "running",
           \A p \in Purchases : Publication(p) /\ PurchaseBudget(p),
           [Next]_vars, ~PodLeaves, NEW q \in Purchases
    PROVE  PurchaseBudget(q)'
<1>0. Publication(q) /\ PurchaseBudget(q)
  OBVIOUS
<1>1. /\ cr[q] \in Request /\ work[q] \in Request /\ cm \in Files /\ mount \in Files
      /\ cr[q].gen \in Nat /\ cr[q].status.obs \in Nat /\ work[q].gen \in Nat
      /\ consumed[q] \subseteq Vouchers
  BY MyStatus DEF TypeOK, Request, Status
<1>2. ASSUME NEW p \in Purchases, User(p) PROVE PurchaseBudget(q)'
  <2>1. CASE p # q
    BY <1>0, <1>2, <2>1, BudgetFrame
       DEF TypeOK, User, Create, TopUp, Delete, workerVars, sidecarVars
  <2>2. CASE Create(q)
    <3>1. /\ cr[q].phase = "absent" /\ cr[q]'.phase = "live"
          /\ cr[q]'.status = NoStatus /\ cr[q]'.gen = 1
          /\ UNCHANGED <<pc, work, cm, mount, listed, served, consumed, drainOwed>>
      BY <2>2, InitialTypes DEF Create, TypeOK, Absent, Request, workerVars, sidecarVars
    <3>2. pc[q] = "idle" /\ q \notin drainOwed
      BY <1>0, <3>1 DEF Tracking, PurchaseBudget, OwedBudget
    <3>3. cm.auths[q] \ consumed[q] = {}
      BY <1>0, <3>1 DEF PurchaseBudget, LiveBudget, Chain
    <3>4. Chain(q)'
      BY <1>0, <3>1, <3>2, <3>3 DEF PurchaseBudget, LiveBudget, Chain
    <3> QED
      BY <3>1, <3>2, <3>4 DEF PurchaseBudget, LiveBudget, NoStatus, SyncedBefore
  <2>3. CASE TopUp(q)
    <3>1. /\ cr[q]'.gen = cr[q].gen + 1 /\ cr[q]'.status = cr[q].status
          /\ cr[q]'.phase = "live" /\ cr[q].phase = "live"
          /\ cr[q]'.finalizer = cr[q].finalizer
          /\ UNCHANGED <<pc, work, cm, mount, listed, served, consumed, drainOwed>>
      BY <1>1, <2>3 DEF TopUp, TypeOK, Request, sidecarVars
    <3>2. cr[q].pool \ consumed[q] \subseteq cr[q]'.pool
      BY <1>1, <2>3 DEF TopUp, TypeOK, Request
    <3>3. Chain(q)'
      BY <1>0, <3>1, <3>2 DEF PurchaseBudget, LiveBudget, Chain
    <3>4. /\ cr[q]'.status.obs # cr[q]'.gen
          /\ pc[q] # "idle" => work[q].gen # cr[q]'.gen
      BY <1>0, <1>1, <3>1 DEF Publication
    <3> QED
      BY <1>0, <3>1, <3>3, <3>4 DEF PurchaseBudget, LiveBudget, OwedBudget
  <2>4. CASE Delete(q)
    <3>1. /\ cr[q]'.gen = cr[q].gen /\ cr[q]'.pool = cr[q].pool /\ cr[q].phase = "live"
          /\ cr[q]'.phase = IF cr[q].finalizer THEN "deleting" ELSE "gone"
          /\ UNCHANGED <<pc, work, cm, mount, listed, served, consumed>>
          /\ q \in drainOwed' =>
               \/ q \in drainOwed
               \/ cr[q].status.ready = "ready" /\ cr[q].status.obs = cr[q].gen
      BY <1>1, <2>4 DEF Delete, TypeOK, Request, sidecarVars
    <3>2. q \notin drainOwed
      BY <1>0, <3>1 DEF PurchaseBudget, OwedBudget
    <3>3. pc[q] \in PastDrain => cr[q].phase = "deleting"
      BY <1>0 DEF Publication, PastDrain, DeletingStages
    <3>4. cr[q].status.obs = cr[q].gen /\ pc[q] # "idle" => work[q].gen = cr[q].gen
      BY <1>0, <1>1 DEF Publication
    <3>5. Funded(q) => Funded(q)'
      BY <3>1 DEF Funded
    <3> QED
      BY <1>0, <3>1, <3>2, <3>3, <3>4, <3>5
         DEF PurchaseBudget, LiveBudget, OwedBudget, SyncedBefore
  <2> QED
    BY <1>2, <2>1, <2>2, <2>3, <2>4 DEF User
<1>3. ASSUME NEW p \in Purchases, Informer(p) PROVE PurchaseBudget(q)'
  BY <1>0, <1>3, BudgetFrame DEF Informer, InformerAdd, InformerDelete, sidecarVars
<1>4. ASSUME NEW p \in Purchases, Dequeue(p) PROVE PurchaseBudget(q)'
  <2>1. CASE p # q
    BY <1>0, <1>4, <2>1, BudgetFrame
       DEF TypeOK, Dequeue, FetchMissing, FetchFails, AddFinalizer, Fetch, FetchDeleting, Goto,
           crVars, workerVars, sidecarVars
  <2>2. CASE FetchMissing(q) \/ FetchFails(q)
    BY <1>0, <2>2, BudgetFrame DEF FetchMissing, FetchFails, crVars, sidecarVars
  <2>3. CASE AddFinalizer(q)
    <3>1. /\ cr[q]'.gen = cr[q].gen /\ cr[q]'.status = cr[q].status
          /\ cr[q]'.pool = cr[q].pool /\ cr[q]'.phase = cr[q].phase
          /\ cr[q]'.finalizer
          /\ UNCHANGED <<pc, work, cm, mount, listed, served, consumed, drainOwed>>
      BY <1>1, <2>3 DEF AddFinalizer, TypeOK, Request, workerVars, sidecarVars
    <3>2. (Chain(q) => Chain(q)') /\ (Funded(q) => Funded(q)')
      BY <3>1 DEF Chain, Funded
    <3> QED
      BY <1>0, <3>1, <3>2 DEF PurchaseBudget, LiveBudget, OwedBudget
  <2>4. CASE Fetch(q) \/ FetchDeleting(q)
    <3>1. /\ UNCHANGED <<cr, cm, mount, listed, served, consumed, drainOwed>>
          /\ pc[q]' \in {"probe", "drain"} /\ pc[q] = "idle"
          /\ cr[q].finalizer
      BY <2>4 DEF Fetch, FetchDeleting, Take, Goto, TypeOK, crVars, sidecarVars
    <3>2. /\ work[q]'.gen = cr[q].gen /\ work[q]'.pool = cr[q].pool
          /\ work[q]'.phase = cr[q].phase
          /\ work[q]'.phase = "live" => work[q]'.status = StatusForGeneration(q)
      BY <1>1, <2>4 DEF Fetch, FetchDeleting, TypeOK, Request, Status
    <3>3. SyncedBefore(StatusForGeneration(q)) =>
            cr[q].status.obs = cr[q].gen /\ SyncedBefore(cr[q].status)
      BY DEF StatusForGeneration, NoStatus, SyncedBefore
    <3>4. Chain(q) => Chain(q)'
      BY <3>1, <3>2 DEF Chain
    <3>5. Funded(q) => Funded(q)'
      BY <3>1 DEF Funded
    <3>6. cr[q].phase \in {"absent", "live"} => LiveBudget(q)'
      BY <1>0, <3>1, <3>2, <3>3, <3>4, <3>5 DEF PurchaseBudget, LiveBudget
    <3>7. q \in drainOwed => OwedBudget(q)'
      BY <1>0, <3>1, <3>2, <3>5 DEF PurchaseBudget, OwedBudget, PastDrain
    <3> QED
      BY <3>1, <3>6, <3>7 DEF PurchaseBudget
  <2> QED
    BY <1>4, <2>1, <2>2, <2>3, <2>4 DEF Dequeue
<1>5. ASSUME NEW p \in Purchases, Reconcile(p), p # q PROVE PurchaseBudget(q)'
  <2>1. cr[q]' = cr[q] /\ UNCHANGED <<mount, consumed, drainOwed>>
    BY <1>5 DEF TypeOK, Reconcile, ProbeAndLoad, CheckDuplicate, ConfigureFails,
         MergeBuyerConfig, MergeBuyerAuths, FinishConfigure, CheckReady, WriteStatus,
         Drain, DropAlias, RemoveBuyerUpstream, TriggerBuyerRemove, Recheck,
         RemoveFinalizer, WriteFails, crVars, sidecarVars
  <2>2. work[q]' = work[q] /\ pc[q]' = pc[q]
    BY <1>5 DEF TypeOK, Reconcile, ProbeAndLoad, CheckDuplicate, ConfigureFails,
         MergeBuyerConfig, MergeBuyerAuths, FinishConfigure, CheckReady, WriteStatus,
         Drain, DropAlias, RemoveBuyerUpstream, TriggerBuyerRemove, Recheck,
         RemoveFinalizer, WriteFails, SetStatus, Goto
  <2>3. (q \in cm'.config <=> q \in cm.config) /\ cm'.auths[q] = cm.auths[q]
    <3>1. CASE MergeBuyerConfig(p) \/ MergeBuyerAuths(p) \/ RemoveBuyerUpstream(p)
      BY <1>1, <1>5, <3>1 DEF MergeBuyerConfig, MergeBuyerAuths, RemoveBuyerUpstream, Files
    <3> QED
      BY <1>5, <3>1 DEF Reconcile, ProbeAndLoad, CheckDuplicate, ConfigureFails,
         FinishConfigure, CheckReady, WriteStatus, Drain, DropAlias,
         TriggerBuyerRemove, Recheck, RemoveFinalizer, WriteFails
  <2>4. (q \in listed' <=> q \in listed) /\ served[q]' = served[q]
    <3>1. CASE TriggerBuyerRemove(p)
      BY <1>5, <3>1 DEF TriggerBuyerRemove, TypeOK
    <3> QED
      BY <1>5, <3>1 DEF Reconcile, ProbeAndLoad, CheckDuplicate, ConfigureFails,
         MergeBuyerConfig, MergeBuyerAuths, RemoveBuyerUpstream,
         FinishConfigure, CheckReady, WriteStatus, Drain, DropAlias, Recheck,
         RemoveFinalizer, WriteFails, sidecarVars
  <2> QED
    BY <1>0, <2>1, <2>2, <2>3, <2>4, BudgetFrame
<1>6. CASE ControllerRestart
  <2>1. pc[q]' = "idle" /\ UNCHANGED <<cr, cm, mount, listed, served, consumed, drainOwed>>
    BY <1>6 DEF ControllerRestart, sidecarVars
  <2> QED
    BY <1>0, <2>1 DEF PurchaseBudget, LiveBudget, Chain, OwedBudget, Funded, PastDrain
<1>7. ASSUME UNCHANGED <<crVars, workerVars, cm>>,
             Funded(q) => Funded(q)', Chain(q) => Chain(q)',
             cr[q].pool \subseteq consumed[q] => cr[q].pool \subseteq consumed[q]'
      PROVE  PurchaseBudget(q)'
  BY <1>0, <1>7 DEF PurchaseBudget, LiveBudget, OwedBudget, crVars, workerVars
<1>8. ASSUME NEW p \in Purchases, Spend(p) PROVE PurchaseBudget(q)'
  <2>1. PICK v \in served[p] :
          /\ served' = [served EXCEPT ![p] = @ \ {v}]
          /\ consumed' = [consumed EXCEPT ![p] = @ \cup {v}]
    BY <1>8 DEF Spend
  <2>2. /\ served[q]' = IF p = q THEN served[q] \ {v} ELSE served[q]
        /\ consumed[q]' = IF p = q THEN consumed[q] \cup {v} ELSE consumed[q]
        /\ UNCHANGED <<crVars, workerVars, cm, mount, listed>>
    BY <1>8, <2>1 DEF Spend, TypeOK
  <2>3. (Funded(q) => Funded(q)') /\ (Chain(q) => Chain(q)')
    BY <2>2 DEF Funded, Chain, crVars, workerVars
  <2> QED
    BY <1>7, <2>2, <2>3
<1>9. CASE Kubelet
  <2>1. /\ UNCHANGED <<crVars, workerVars, cm, listed, served, consumed>>
        /\ \/ mount'.config = cm.config /\ mount'.auths = mount.auths
           \/ mount'.config = mount.config /\ mount'.auths = cm.auths
    BY <1>1, <1>9 DEF Kubelet, MountConfig, MountAuths, Files
  <2>2. (Funded(q) => Funded(q)') /\ (Chain(q) => Chain(q)')
    BY <2>1 DEF Funded, Chain, crVars, workerVars
  <2> QED
    BY <1>7, <2>1, <2>2
<1>10. CASE Reload
  <2>1. /\ UNCHANGED <<crVars, workerVars, cm, mount, consumed>>
        /\ listed' = mount.config
        /\ served[q]' = IF q \in mount.config THEN mount.auths[q] \ consumed[q] ELSE {}
    BY <1>10 DEF Reload, Loaded
  <2>2. (Funded(q) => Funded(q)') /\ (Chain(q) => Chain(q)')
    BY <2>1 DEF Funded, Chain, crVars, workerVars
  <2> QED
    BY <1>7, <2>1, <2>2
<1>11. CASE LiteLLMRollout \/ UNCHANGED vars
  BY <1>0, <1>11, BudgetFrame DEF LiteLLMRollout, vars, crVars, workerVars, sidecarVars
<1>12. ~PodListEmpty /\ ~PodReturns
  BY DEF PodListEmpty, PodReturns
<1> QED
  BY <1>0, <1>2, <1>3, <1>4, <1>5, <1>6, <1>8, <1>9, <1>10, <1>11, <1>12,
     BudgetReconcile DEF Next, Sidecar

LEMMA BudgetsStep ==
    ASSUME TypeOK, Tracking, \A p \in Purchases : Publication(p), Budgets,
           [Next]_vars
    PROVE  Budgets'
<1> SUFFICES ASSUME (left.outages = MaxOutages)'
             PROVE  pod' = "running" /\ \A q \in Purchases : PurchaseBudget(q)'
  BY DEF Budgets
<1>1. left \in Budget /\ MaxOutages \in Nat
  BY PurchaseAssumption DEF TypeOK
<1>2. left.outages = MaxOutages /\ ~PodLeaves
  <2>1. left'.outages <= left.outages
    <3>1. ASSUME NEW b \in {"edits", "faults", "outages", "crashes"}, Use(b)
          PROVE  left'.outages <= left.outages
      BY <1>1, <3>1 DEF Use, Budget
    <3>2. \/ UNCHANGED left
          \/ \E b \in {"edits", "faults", "outages", "crashes"} : Use(b)
      <4>1. ASSUME NEW p \in Purchases,
                   User(p) \/ Informer(p) \/ Dequeue(p) \/ Reconcile(p) \/ Spend(p)
            PROVE  UNCHANGED left \/ Use("edits") \/ Use("faults")
        BY <4>1 DEF User, Create, TopUp, Delete, Informer, InformerAdd, InformerDelete,
             Dequeue, FetchMissing, FetchFails, AddFinalizer, Fetch, FetchDeleting,
             Reconcile, ProbeAndLoad, CheckDuplicate, ConfigureFails, MergeBuyerConfig,
             MergeBuyerAuths, FinishConfigure, AliasAdded, CheckReady, WriteStatus,
             Drain, DropAlias, AliasDropped, RemoveBuyerUpstream, TriggerBuyerRemove,
             Recheck, RemoveFinalizer, WriteFails, Spend
      <4>2. CASE ControllerRestart \/ Kubelet \/ Sidecar \/ LiteLLMRollout \/ UNCHANGED vars
        BY <4>2 DEF ControllerRestart, Kubelet, MountConfig, MountAuths, Sidecar, Reload,
             PodLeaves, PodListEmpty, PodReturns, LiteLLMRollout, vars
      <4> QED
        BY <4>1, <4>2 DEF Next
    <3> QED
      BY <1>1, <3>1, <3>2 DEF Budget
  <2>2. PodLeaves => left'.outages < left.outages
    BY <1>1 DEF PodLeaves, Use, Budget
  <2> QED
    BY <1>1, <2>1, <2>2 DEF Budget
<1>3. pod = "running" /\ \A q \in Purchases : PurchaseBudget(q)
  BY <1>2 DEF Budgets
<1>4. pod' = "running"
  BY <1>2, <1>3, ZenonT(60) DEF Next, User, Create, TopUp, Delete, Informer, InformerAdd,
     InformerDelete, Dequeue, FetchMissing, FetchFails, AddFinalizer, Fetch,
     FetchDeleting, Reconcile, ProbeAndLoad, CheckDuplicate, ConfigureFails,
     MergeBuyerConfig, MergeBuyerAuths, FinishConfigure, CheckReady, WriteStatus,
     Drain, DropAlias, RemoveBuyerUpstream, TriggerBuyerRemove, Recheck,
     RemoveFinalizer, WriteFails, Spend, ControllerRestart, Kubelet, MountConfig,
     MountAuths, Sidecar, Reload, PodListEmpty, PodReturns, LiteLLMRollout,
     sidecarVars, vars
<1> QED
  BY <1>2, <1>3, <1>4, BudgetStep

\* A purchase deleted while Ready is gone only when its whole pre-authorized
\* pool is spent, whatever the mounts and reloads lag, a top-up crosses or the
\* controller forgets, as long as the sidecar's pod was never away: the count
\* that made it Ready vouches for the pool, and every newer copy of its files
\* keeps what an older one still offers.
THEOREM BudgetDrained == Spec => []BudgetSpentBeforeTeardown
<1> DEFINE Inv == \A q \in Purchases : Publication(q)
<1>1. Init => Inv
  BY PublicationInit
<1>2. TypeOK /\ Tracking /\ Inv /\ [Next]_vars => Inv'
  BY PublicationStep
<1>3. TypeOK /\ Tracking /\ Inv /\ Budgets /\ [Next]_vars => Budgets'
  BY BudgetsStep
<1>4. TypeOK /\ Budgets => BudgetSpentBeforeTeardown
  BY DEF TypeOK, Budgets, PurchaseBudget, OwedBudget, BudgetSpentBeforeTeardown
<1> HIDE DEF Inv
<1> QED
  BY <1>1, <1>2, <1>3, <1>4, TypeInit, TypeStep, TrackingInit, TrackingStep,
     BudgetsInit, PTL DEF Spec
=============================================================================
