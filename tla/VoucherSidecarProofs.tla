------------------------ MODULE VoucherSidecarProofs ------------------------
(***************************************************************************)
(* Proofs about VoucherSidecar, for every number of vouchers, every set of *)
(* requests and every set of signer names.                                 *)
(***************************************************************************)
EXTENDS VoucherSidecar, FiniteSetTheorems, SequenceTheorems, TLAPS

-----------------------------------------------------------------------------
(* The helpers on pools *)

\* A set of vouchers is finite, so ConsumedCount is a natural number.
LEMMA VouchersFinite ==
    ASSUME NEW S \in SUBSET Vouchers
    PROVE  Cardinality(S) \in Nat
<1>1. IsFiniteSet(Vouchers)
  BY SidecarAssumption, FS_Interval DEF Vouchers
<1>2. IsFiniteSet(S)
  BY <1>1, FS_Subset
<1> QED
  BY <1>2, FS_CardinalityType

\* What Reload builds from a set of vouchers lists some of them, each once.
LEMMA FileOrderProperties ==
    ASSUME NEW S \in SUBSET Vouchers, NEW q \in FileOrder(S)
    PROVE  /\ q \in Seq(Vouchers)
           /\ Distinct(q)
           /\ Elements(q) \subseteq S
<1> DEFINE n == Cardinality(S)
<1>1. n \in Nat
  BY VouchersFinite
<1> HIDE DEF n
<1>2. /\ q \in [1..n -> S]
      /\ \A i, j \in 1..n : i < j => q[i] < q[j]
  BY DEF FileOrder, n
<1>3. q \in Seq(S) /\ Len(q) = n
  BY <1>1, <1>2
<1>4. q \in Seq(Vouchers)
  BY <1>3, SeqMonotonic
<1>5. \A i, j \in 1..n : q[i] = q[j] => i = j
  <2> SUFFICES ASSUME NEW i \in 1..n, NEW j \in 1..n, i < j
               PROVE  q[i] # q[j]
    BY <1>1
  <2>1. q[i] \in Nat /\ q[j] \in Nat
    <3>1. q[i] \in Vouchers /\ q[j] \in Vouchers
      BY <1>2
    <3> QED
      BY <3>1, SidecarAssumption DEF Vouchers
  <2> QED
    BY <1>1, <1>2, <2>1
<1> QED
  BY <1>2, <1>3, <1>4, <1>5 DEF Distinct, Elements

\* What HoldSign leaves does not have the voucher it took.
LEMMA PoppedProperties ==
    ASSUME NEW q \in Seq(Vouchers), NEW k \in 1..Len(q)
    PROVE  /\ PoppedAt(q, k) \in Seq(Vouchers)
           /\ Elements(PoppedAt(q, k)) \subseteq Elements(q)
           /\ \A i \in (k + 1)..Len(q) : q[i] \in Elements(PoppedAt(q, k))
           /\ Distinct(q) => /\ Distinct(PoppedAt(q, k))
                             /\ q[k] \notin Elements(PoppedAt(q, k))
<1> DEFINE p == PoppedAt(q, k)
<1>1. Len(q) \in Nat /\ k \in Nat
  BY LenProperties
<1>2. /\ p \in Seq(Vouchers)
      /\ Len(p) = Len(q) - k
      /\ \A i \in 1..(Len(q) - k) : p[i] = q[k + i]
  BY <1>1 DEF PoppedAt
<1> HIDE DEF p
<1>3. Elements(p) \subseteq Elements(q)
  BY <1>1, <1>2 DEF Elements
<1>4. \A i \in (k + 1)..Len(q) : q[i] \in Elements(p)
  <2> SUFFICES ASSUME NEW i \in (k + 1)..Len(q) PROVE q[i] \in Elements(p)
    OBVIOUS
  <2>1. i - k \in 1..Len(p) /\ p[i - k] = q[i]
    BY <1>1, <1>2
  <2> QED
    BY <2>1 DEF Elements
<1>5. ASSUME Distinct(q)
      PROVE  Distinct(p) /\ q[k] \notin Elements(p)
  <2>1. ASSUME NEW i \in 1..Len(p), NEW j \in 1..Len(p), p[i] = p[j]
        PROVE  i = j
    <3>1. k + i \in 1..Len(q) /\ k + j \in 1..Len(q)
      BY <1>1, <1>2
    <3>2. q[k + i] = q[k + j]
      BY <1>1, <1>2, <2>1
    <3>3. k + i = k + j
      BY <1>5, <3>1, <3>2 DEF Distinct
    <3> QED
      BY <1>1, <1>2, <3>3
  <2>2. ASSUME NEW i \in 1..Len(p), p[i] = q[k]
        PROVE  FALSE
    <3>1. k + i \in 1..Len(q) /\ q[k + i] = q[k]
      BY <1>1, <1>2, <2>2
    <3>2. k + i = k
      BY <1>5, <3>1 DEF Distinct
    <3> QED
      BY <1>1, <1>2, <3>2
  <2> QED
    BY <2>1, <2>2 DEF Distinct, Elements
<1> QED
  BY <1>2, <1>3, <1>4, <1>5 DEF p

\* ReleaseSpend puts the voucher back and keeps the others.
LEMMA PrependProperties ==
    ASSUME NEW q \in Seq(Vouchers), NEW v \in Vouchers
    PROVE  /\ <<v>> \o q \in Seq(Vouchers)
           /\ Elements(<<v>> \o q) = {v} \cup Elements(q)
           /\ Distinct(q) /\ v \notin Elements(q) => Distinct(<<v>> \o q)
<1> DEFINE p == <<v>> \o q
<1>1. Len(q) \in Nat
  BY LenProperties
<1>2. /\ p \in Seq(Vouchers)
      /\ Len(p) = Len(q) + 1
      /\ p[1] = v
      /\ \A i \in 2..(Len(q) + 1) : p[i] = q[i - 1]
  BY <1>1
<1> HIDE DEF p
<1>3. Elements(p) \subseteq {v} \cup Elements(q)
  BY <1>1, <1>2 DEF Elements
<1>4. {v} \cup Elements(q) \subseteq Elements(p)
  <2>1. v \in Elements(p)
    BY <1>1, <1>2 DEF Elements
  <2>2. ASSUME NEW i \in 1..Len(q) PROVE q[i] \in Elements(p)
    <3>1. i + 1 \in 1..Len(p) /\ p[i + 1] = q[i]
      BY <1>1, <1>2
    <3> QED
      BY <3>1 DEF Elements
  <2> QED
    BY <2>1, <2>2 DEF Elements
<1>5. ASSUME Distinct(q), v \notin Elements(q)
      PROVE  Distinct(p)
  BY <1>1, <1>2, <1>5, SMTT(30) DEF Distinct, Elements
<1> QED
  BY <1>2, <1>3, <1>4, <1>5 DEF p

\* Collecting garbage keeps the signers in use and empties the others.
LEMMA CollectedProperties ==
    ASSUME NEW T, NEW f \in [Signers -> T], NEW empty \in T, NEW sv, NEW sg
    PROVE  /\ Collected(f, empty, sv, sg) \in [Signers -> T]
           /\ \A s \in Signers :
                 Collected(f, empty, sv, sg)[s] =
                     IF s \in InUse(sv, sg) THEN f[s] ELSE empty
BY DEF Collected

\* Putting a held voucher back gives pools of vouchers.
LEMMA ReleasedType ==
    ASSUME TypeOK, NEW r \in Requests, sig[r] \in Signers, held[r] \in Vouchers
    PROVE  /\ Released(r) \in [Signers -> Seq(Vouchers)]
           /\ Unspent(r) \in [Signers -> Nat]
<1>1. <<held[r]>> \o pool[sig[r]] \in Seq(Vouchers)
  BY PrependProperties DEF TypeOK
<1> QED
  BY <1>1 DEF Released, Unspent, TypeOK

-----------------------------------------------------------------------------
(* Type correctness *)

\* A request holds a voucher exactly between HoldSign and its answer, and has
\* a signer exactly while it is being handled.
Stages ==
    \A r \in Requests :
        /\ held[r] # NoVoucher <=> pc[r] \in {"held", "paying"}
        /\ sig[r] # NoSigner <=> pc[r] # "idle"

\* The type invariant needs Stages: ReleaseSpend gets a voucher and a signer.
TypeInv == TypeOK /\ Stages

\* Leave keeps types and stages, whatever pools it is given.
LEMMA LeaveType ==
    ASSUME TypeInv, NEW r \in Requests,
           NEW STATE newPool, newPool \in [Signers -> Seq(Vouchers)],
           NEW STATE newSpent, newSpent \in [Signers -> Nat],
           Leave(r, newPool, newSpent)
    PROVE  /\ pc' \in [Requests -> PC]
           /\ sig' \in [Requests -> Signers \cup {NoSigner}]
           /\ held' \in [Requests -> Vouchers \cup {NoVoucher}]
           /\ pool' \in [Signers -> Seq(Vouchers)]
           /\ spent' \in [Signers -> Nat]
           /\ Stages'
<1>1. pool' \in [Signers -> Seq(Vouchers)]
  BY CollectedProperties, <<>> \in Seq(Vouchers) DEF Leave
<1>2. spent' \in [Signers -> Nat]
  BY CollectedProperties DEF Leave
<1>3. /\ pc' \in [Requests -> PC]
      /\ sig' \in [Requests -> Signers \cup {NoSigner}]
      /\ held' \in [Requests -> Vouchers \cup {NoVoucher}]
  BY DEF Leave, Goto, TypeInv, TypeOK, PC
<1>4. Stages'
  BY DEF Leave, Goto, TypeInv, TypeOK, Stages
<1> QED
  BY <1>1, <1>2, <1>3, <1>4

LEMMA InitType == Init => TypeInv
<1> SUFFICES ASSUME Init PROVE TypeInv
  OBVIOUS
<1>1. PICK q \in FileOrder(1..listed) :
         pool = [s \in Signers |-> IF s = serving THEN q ELSE <<>>]
  BY DEF Init
<1>2. 1..listed \in SUBSET Vouchers
  BY SidecarAssumption DEF Init, Vouchers
<1>3. pool \in [Signers -> Seq(Vouchers)]
  <2>1. q \in Seq(Vouchers)
    BY <1>2, FileOrderProperties
  <2>2. <<>> \in Seq(Vouchers)
    OBVIOUS
  <2> QED
    BY <1>1, <2>1, <2>2
<1>4. loading \in [on: BOOLEAN, auths: Seq(Vouchers), count: Nat, present: BOOLEAN]
  BY DEF Init, NotLoading
<1> QED
  BY <1>3, <1>4 DEF Init, TypeInv, TypeOK, Stages, PC

\* A signer built by a reload or at the start has a pool of vouchers.
LEMMA InstallType ==
    ASSUME TypeOK, NEW STATE sg, NEW s \in Signers,
           NEW STATE q, q \in Seq(Vouchers), NEW STATE n, n \in Nat,
           Install(s, q, n, sg)
    PROVE  /\ serving' \in Signers
           /\ pool' \in [Signers -> Seq(Vouchers)]
           /\ spent' \in [Signers -> Nat]
<1>1. <<>> \in Seq(Vouchers)
  OBVIOUS
<1>2. [pool EXCEPT ![s] = q] \in [Signers -> Seq(Vouchers)]
  BY DEF TypeOK
<1>3. [spent EXCEPT ![s] = n] \in [Signers -> Nat]
  BY DEF TypeOK
<1>4. pool' \in [Signers -> Seq(Vouchers)]
  BY <1>1, <1>2, CollectedProperties DEF Install
<1>5. spent' \in [Signers -> Nat]
  BY <1>3, CollectedProperties DEF Install
<1> QED
  BY <1>4, <1>5 DEF Install

LEMMA UnrouteType ==
    ASSUME TypeOK, NEW STATE sg, Unroute(sg)
    PROVE  /\ serving' = NoSigner
           /\ pool' \in [Signers -> Seq(Vouchers)]
           /\ spent' \in [Signers -> Nat]
<1>1. <<>> \in Seq(Vouchers)
  OBVIOUS
<1>2. pool' \in [Signers -> Seq(Vouchers)]
  BY <1>1, CollectedProperties DEF Unroute, TypeOK
<1>3. spent' \in [Signers -> Nat]
  BY CollectedProperties DEF Unroute, TypeOK
<1> QED
  BY <1>2, <1>3 DEF Unroute

\* Each step of a request keeps the types.
LEMMA RequestType ==
    ASSUME TypeInv, NEW r \in Requests, RequestStep(r)
    PROVE  TypeInv'
<1> USE DEF TypeInv
<1>1. CASE ResolveModelRequest(r)
  BY <1>1 DEF ResolveModelRequest, Goto, TypeOK, Stages, PC, storeVars, envVars, histVars
<1>2. CASE ProbeEndsRequest(r)
  <2>1. Leave(r, pool, spent)
    BY <1>2 DEF ProbeEndsRequest
  <2> QED
    BY <1>2, <2>1, LeaveType DEF ProbeEndsRequest, TypeOK, storeVars, envVars, histVars
<1>3. CASE CanSign(r)
  BY <1>3 DEF CanSign, Goto, TypeOK, Stages, PC, storeVars, envVars, histVars
<1>4. CASE HoldSign(r)
  <2>1. PICK k \in 1..Len(pool[sig[r]]) :
           /\ held' = [held EXCEPT ![r] = pool[sig[r]][k]]
           /\ pool' = [pool EXCEPT ![sig[r]] = PoppedAt(pool[sig[r]], k)]
    BY <1>4 DEF HoldSign
  <2>2. sig[r] \in Signers
    BY <1>4 DEF HoldSign, TypeOK, Stages
  <2>3. pool[sig[r]] \in Seq(Vouchers)
    BY <2>2 DEF TypeOK
  <2>4. pool' \in [Signers -> Seq(Vouchers)]
    BY <2>1, <2>3, PoppedProperties DEF TypeOK
  <2>5. pool[sig[r]][k] \in Vouchers
    BY <2>3, ElementOfSeq
  <2>6. held' \in [Requests -> Vouchers \cup {NoVoucher}]
    BY <2>1, <2>5 DEF TypeOK
  <2>7. Stages'
    BY <1>4, <2>1, <2>5, SidecarAssumption DEF HoldSign, Goto, TypeOK, Stages
  <2>8. spent' \in [Signers -> Nat]
    BY <1>4, <2>2 DEF HoldSign, TypeOK
  <2> QED
    BY <1>4, <2>4, <2>6, <2>7, <2>8
    DEF HoldSign, Goto, TypeOK, PC, storeVars, envVars, histVars
<1>5. CASE HoldSignExhausted(r)
  <2> DEFINE np == [pool EXCEPT ![sig[r]] = <<>>]
  <2>1. Leave(r, np, spent)
    BY <1>5 DEF HoldSignExhausted
  <2>2. np \in [Signers -> Seq(Vouchers)]
    BY <<>> \in Seq(Vouchers) DEF TypeOK
  <2> HIDE DEF np
  <2> QED
    BY <1>5, <2>1, <2>2, LeaveType DEF HoldSignExhausted, TypeOK, storeVars, envVars, histVars
<1>6. CASE SendPayment(r)
  BY <1>6 DEF SendPayment, Goto, TypeOK, Stages, PC, storeVars, envVars, histVars
<1>7. CASE ReleaseBeforeSend(r)
  <2>1. /\ Leave(r, Released(r), Unspent(r))
        /\ sig[r] \in Signers /\ held[r] \in Vouchers
    BY <1>7 DEF ReleaseBeforeSend, TypeOK, Stages
  <2> QED
    BY <1>7, <2>1, LeaveType, ReleasedType
    DEF ReleaseBeforeSend, TypeOK, storeVars, envVars, histVars
<1>8. CASE PaymentReleased(r)
  <2>1. /\ Leave(r, Released(r), Unspent(r))
        /\ sig[r] \in Signers /\ held[r] \in Vouchers
    BY <1>8 DEF PaymentReleased, TypeOK, Stages
  <2> QED
    BY <1>8, <2>1, LeaveType, ReleasedType
    DEF PaymentReleased, TypeOK, storeVars, envVars
<1>9. CASE PaymentConfirmed(r)
  <2>1. Leave(r, pool, spent) /\ held[r] \in Vouchers
    BY <1>9 DEF PaymentConfirmed, TypeOK, Stages
  <2>2. consumed' \subseteq Vouchers /\ persisted' \subseteq Vouchers
    BY <1>9, <2>1 DEF PaymentConfirmed, MarkConsumed, TypeOK, storeVars
  <2> QED
    BY <1>9, <2>1, <2>2, LeaveType DEF PaymentConfirmed, TypeOK, envVars
<1> QED
  BY <1>1, <1>2, <1>3, <1>4, <1>5, <1>6, <1>7, <1>8, <1>9 DEF RequestStep

\* A reload, a removal or a restart keeps the types.
LEMMA ReloadType ==
    ASSUME TypeInv, ReloadFilter \/ ReloadSwap \/ AdminRemove \/ Restart
    PROVE  TypeInv'
<1> USE DEF TypeInv
<1>1. CASE ReloadFilter
  <2>1. PICK q \in FileOrder(Unconsumed(consumed)) :
           loading' = [on |-> TRUE, auths |-> q, count |-> Cardinality(consumed),
                       present |-> listed # Unlisted]
    BY <1>1 DEF ReloadFilter
  <2>2. Unconsumed(consumed) \in SUBSET Vouchers
    BY SidecarAssumption DEF Unconsumed, Vouchers, TypeOK
  <2>3. q \in Seq(Vouchers)
    BY <2>2, FileOrderProperties
  <2>4. Cardinality(consumed) \in Nat
    BY VouchersFinite DEF TypeOK
  <2> QED
    BY <1>1, <2>1, <2>3, <2>4
    DEF ReloadFilter, TypeOK, Stages, requestVars, storeVars, envVars, histVars
<1>2. CASE ReloadSwap
  <2>1. /\ serving' \in Signers \cup {NoSigner}
        /\ pool' \in [Signers -> Seq(Vouchers)]
        /\ spent' \in [Signers -> Nat]
    <3>1. loading.auths \in Seq(Vouchers) /\ loading.count \in Nat
      BY DEF TypeOK
    <3>2. CASE loading.present
      <4>1. PICK s \in Signers : Install(s, loading.auths, loading.count, sig)
        BY <1>2, <3>2 DEF ReloadSwap
      <4> QED
        BY <3>1, <4>1, InstallType
    <3>3. CASE ~loading.present
      BY <1>2, <3>3, UnrouteType DEF ReloadSwap
    <3> QED
      BY <3>2, <3>3
  <2>2. loading' \in [on: BOOLEAN, auths: Seq(Vouchers), count: Nat, present: BOOLEAN]
    BY <1>2 DEF ReloadSwap, NotLoading
  <2> QED
    BY <1>2, <2>1, <2>2 DEF ReloadSwap, TypeOK, Stages, requestVars, storeVars, envVars
<1>3. CASE AdminRemove
  <2>1. Unroute(sig)
    BY <1>3 DEF AdminRemove
  <2> QED
    BY <1>3, <2>1, UnrouteType
    DEF AdminRemove, TypeOK, Stages, requestVars, storeVars, envVars, histVars
<1>4. CASE Restart
  <2> DEFINE noSig == [r \in Requests |-> NoSigner]
  <2>1. /\ serving' \in Signers \cup {NoSigner}
        /\ pool' \in [Signers -> Seq(Vouchers)]
        /\ spent' \in [Signers -> Nat]
    <3>1. CASE listed # Unlisted
      <4>1. PICK s \in Signers, q \in FileOrder(Unconsumed(persisted)) :
               Install(s, q, Cardinality(persisted), noSig)
        BY <1>4, <3>1 DEF Restart
      <4>2. Unconsumed(persisted) \in SUBSET Vouchers
        BY SidecarAssumption DEF Unconsumed, Vouchers, TypeOK
      <4>3. q \in Seq(Vouchers)
        BY <4>2, FileOrderProperties
      <4>4. Cardinality(persisted) \in Nat
        BY VouchersFinite DEF TypeOK
      <4> QED
        BY <4>1, <4>3, <4>4, InstallType
    <3>2. CASE listed = Unlisted
      <4>1. Unroute(noSig)
        BY <1>4, <3>2 DEF Restart
      <4> QED
        BY <4>1, UnrouteType
    <3> QED
      BY <3>1, <3>2
  <2>2. loading' \in [on: BOOLEAN, auths: Seq(Vouchers), count: Nat, present: BOOLEAN]
    BY <1>4 DEF Restart, NotLoading
  <2>3. unrecorded' \subseteq Vouchers
    <3>1. InPayment \subseteq Vouchers
      BY DEF InPayment, TypeOK, Stages
    <3> QED
      BY <1>4, <3>1 DEF Restart, TypeOK
  <2>4. /\ pc' = [r \in Requests |-> "idle"]
        /\ sig' = noSig
        /\ held' = [r \in Requests |-> NoVoucher]
        /\ consumed' = persisted /\ persisted' = persisted
        /\ crossed' = {} /\ listed' = listed
        /\ expired' = expired /\ exposed' = exposed
    BY <1>4 DEF Restart, envVars
  <2>5. Stages'
    BY <2>4 DEF Stages
  <2> QED
    BY <2>1, <2>2, <2>3, <2>4, <2>5 DEF TypeOK, PC
<1> QED
  BY <1>1, <1>2, <1>3, <1>4

LEMMA NextType == TypeInv /\ [Next]_vars => TypeInv'
<1> SUFFICES ASSUME TypeInv, [Next]_vars PROVE TypeInv'
  OBVIOUS
<1>1. ASSUME NEW r \in Requests, RequestStep(r) PROVE TypeInv'
  BY <1>1, RequestType
<1>2. CASE ReloadFilter \/ ReloadSwap \/ AdminRemove \/ Restart
  BY <1>2, ReloadType
<1>3. CASE Mount
  <2>1. listed' \in 0..NumVouchers \cup {Unlisted}
    BY <1>3, SidecarAssumption DEF Mount
  <2> QED
    BY <1>3, <2>1 DEF Mount, TypeInv, TypeOK, Stages, requestVars, storeVars, envVars, histVars
<1>4. ASSUME NEW v \in Vouchers, Expire(v) PROVE TypeInv'
  BY <1>4 DEF Expire, TypeInv, TypeOK, Stages, requestVars, storeVars, histVars
<1>5. CASE UNCHANGED vars
  BY <1>5 DEF TypeInv, TypeOK, Stages, vars, requestVars, storeVars, envVars, histVars
<1> QED
  BY <1>1, <1>2, <1>3, <1>4, <1>5 DEF Next

(***************************************************************************)
(* Every variable of the sidecar keeps its type, and a request holds a     *)
(* voucher exactly between HoldSign and its answer: ReleaseSpend is always *)
(* called with a voucher that HoldSign returned.                           *)
(***************************************************************************)
THEOREM TypeCorrect == Spec => []TypeOK
<1>1. Spec => []TypeInv
  BY InitType, NextType, PTL DEF Spec
<1>2. TypeInv => TypeOK
  BY DEF TypeInv
<1> QED
  BY <1>1, <1>2, PTL

-----------------------------------------------------------------------------
(* What a step does to the pools, for the invariants below *)

\* A request that leaves: the pools are those it was given, or garbage.
LEMMA LeavePools ==
    ASSUME NEW r \in Requests, TypeInv,
           NEW STATE newPool, newPool \in [Signers -> Seq(Vouchers)],
           NEW STATE newSpent, Leave(r, newPool, newSpent)
    PROVE  /\ \A s \in Signers :
                 pool'[s] = IF s \in InUse(serving, sig') THEN newPool[s] ELSE <<>>
           /\ sig'[r] = NoSigner /\ held'[r] = NoVoucher /\ pc'[r] = "idle"
           /\ \A x \in Requests \ {r} :
                 sig'[x] = sig[x] /\ held'[x] = held[x] /\ pc'[x] = pc[x]
<1>2. \A s \in Signers :
         pool'[s] = IF s \in InUse(serving, sig') THEN newPool[s] ELSE <<>>
  BY DEF Leave, Collected
<1> QED
  BY <1>2 DEF Leave, Goto, TypeInv, TypeOK

\* A signer installed: the others keep their pool, or are garbage.
LEMMA InstallPools ==
    ASSUME TypeInv, NEW STATE sg, NEW s \in Signers,
           NEW STATE q, q \in Seq(Vouchers), NEW STATE n, Install(s, q, n, sg)
    PROVE  /\ serving' = s
           /\ pool'[s] = q
           /\ \A t \in Signers \ {s} : pool'[t] = pool[t] \/ pool'[t] = <<>>
<1>3. \A t \in Signers :
         pool'[t] = IF t \in InUse(s, sg) THEN [pool EXCEPT ![s] = q][t] ELSE <<>>
  BY DEF Install, Collected
<1>4. s \in InUse(s, sg)
  BY DEF InUse
<1> QED
  BY <1>3, <1>4 DEF Install, TypeInv, TypeOK

LEMMA UnroutePools ==
    ASSUME TypeInv, NEW STATE sg, Unroute(sg)
    PROVE  /\ serving' = NoSigner
           /\ \A t \in Signers : pool'[t] = pool[t] \/ pool'[t] = <<>>
<1>2. \A t \in Signers :
         pool'[t] = IF t \in InUse(NoSigner, sg) THEN pool[t] ELSE <<>>
  BY DEF Unroute, Collected
<1> QED
  BY <1>2 DEF Unroute

LEMMA EmptyPool == Distinct(<<>>) /\ Elements(<<>>) = {}
BY DEF Distinct, Elements

-----------------------------------------------------------------------------
(* The reservation *)

\* Inductive with TypeInv: what a reload has read, each voucher once, is what
\* the next signer starts from.
Reservation == OneHolderPerSigner /\ Distinct(loading.auths)

\* Most steps only empty pools and drop holds.
LEMMA NothingOffered ==
    ASSUME TypeInv, TypeInv', OneHolderPerSigner,
           \A s \in Signers : pool'[s] = pool[s] \/ pool'[s] = <<>>,
           \A r \in Requests : held'[r] # NoVoucher =>
               held'[r] = held[r] /\ sig'[r] = sig[r]
    PROVE  OneHolderPerSigner'
<1>1. \A s \in Signers : Distinct(pool'[s])
  BY EmptyPool DEF OneHolderPerSigner
<1>2. ASSUME NEW r \in Requests, held'[r] # NoVoucher
      PROVE  held'[r] \notin Elements(pool'[sig'[r]])
  <2>1. sig[r] \in Signers /\ held[r] # NoVoucher
    BY <1>2 DEF TypeInv, TypeOK, Stages
  <2> QED
    BY <1>2, <2>1, EmptyPool DEF OneHolderPerSigner
<1>3. ASSUME NEW x \in Requests, NEW y \in Requests,
             held'[x] # NoVoucher, sig'[x] = sig'[y], held'[x] = held'[y]
      PROVE  x = y
  BY <1>3 DEF OneHolderPerSigner
<1> QED
  BY <1>1, <1>2, <1>3 DEF OneHolderPerSigner

\* A voucher that goes back to its pool was in no pool and in no other hand.
LEMMA ReleaseKeepsReservation ==
    ASSUME TypeInv, TypeInv', OneHolderPerSigner, NEW r \in Requests,
           held[r] # NoVoucher, Leave(r, Released(r), Unspent(r))
    PROVE  OneHolderPerSigner'
<1> DEFINE s == sig[r]
           v == held[r]
<1>1. s \in Signers /\ v \in Vouchers
  BY DEF TypeInv, TypeOK, Stages
<1>2. Released(r) \in [Signers -> Seq(Vouchers)]
  BY <1>1, ReleasedType DEF TypeInv
<1>3. /\ \A t \in Signers : pool'[t] = Released(r)[t] \/ pool'[t] = <<>>
      /\ held'[r] = NoVoucher
      /\ \A x \in Requests \ {r} : sig'[x] = sig[x] /\ held'[x] = held[x]
  BY <1>2, LeavePools
<1>4. /\ Released(r)[s] = <<v>> \o pool[s]
      /\ \A t \in Signers \ {s} : Released(r)[t] = pool[t]
  BY <1>1 DEF Released, TypeInv, TypeOK
<1>5. /\ Distinct(<<v>> \o pool[s])
      /\ Elements(<<v>> \o pool[s]) = {v} \cup Elements(pool[s])
  BY <1>1, PrependProperties DEF OneHolderPerSigner, TypeInv, TypeOK
<1>6. \A t \in Signers : Distinct(pool'[t])
  BY <1>3, <1>4, <1>5, EmptyPool DEF OneHolderPerSigner
<1>7. ASSUME NEW x \in Requests, held'[x] # NoVoucher
      PROVE  held'[x] \notin Elements(pool'[sig'[x]])
  <2>1. x # r /\ sig'[x] = sig[x] /\ held'[x] = held[x] /\ sig[x] \in Signers
    BY <1>3, <1>7 DEF TypeInv, TypeOK, Stages
  <2>2. held[x] \notin Elements(pool[sig[x]])
    BY <1>7, <2>1 DEF OneHolderPerSigner
  <2>3. sig[x] = s => held[x] # v
    BY <1>7, <2>1 DEF OneHolderPerSigner
  <2> QED
    BY <1>3, <1>4, <1>5, <2>1, <2>2, <2>3, EmptyPool
<1>8. ASSUME NEW x \in Requests, NEW y \in Requests,
             held'[x] # NoVoucher, sig'[x] = sig'[y], held'[x] = held'[y]
      PROVE  x = y
  BY <1>3, <1>8 DEF OneHolderPerSigner
<1> QED
  BY <1>6, <1>7, <1>8 DEF OneHolderPerSigner

\* HoldSign takes the voucher out of the pool as it hands it out.
LEMMA HoldKeepsReservation ==
    ASSUME TypeInv, TypeInv', OneHolderPerSigner, NEW r \in Requests, HoldSign(r)
    PROVE  OneHolderPerSigner'
<1> DEFINE s == sig[r]
           q == pool[s]
<1>1. s \in Signers /\ held[r] = NoVoucher
  BY DEF HoldSign, TypeInv, TypeOK, Stages
<1>2. PICK k \in 1..Len(q) :
         /\ held' = [held EXCEPT ![r] = q[k]]
         /\ pool' = [pool EXCEPT ![s] = PoppedAt(q, k)]
  BY DEF HoldSign
<1>3. sig' = sig
  BY DEF HoldSign
<1>4. q \in Seq(Vouchers) /\ Distinct(q)
  BY <1>1 DEF TypeInv, TypeOK, OneHolderPerSigner
<1>5. /\ Distinct(PoppedAt(q, k))
      /\ q[k] \notin Elements(PoppedAt(q, k))
      /\ Elements(PoppedAt(q, k)) \subseteq Elements(q)
  BY <1>4, PoppedProperties
<1>6. q[k] \in Elements(q)
  BY DEF Elements
<1>7. /\ pool'[s] = PoppedAt(q, k)
      /\ \A t \in Signers \ {s} : pool'[t] = pool[t]
      /\ held'[r] = q[k]
      /\ \A x \in Requests \ {r} : held'[x] = held[x]
  BY <1>1, <1>2 DEF TypeInv, TypeOK
<1>8. \A t \in Signers : Distinct(pool'[t])
  BY <1>5, <1>7 DEF OneHolderPerSigner
<1>9. ASSUME NEW x \in Requests, held'[x] # NoVoucher
      PROVE  held'[x] \notin Elements(pool'[sig'[x]])
  <2>1. CASE x = r
    BY <1>3, <1>5, <1>7, <2>1
  <2>2. CASE x # r
    <3>1. sig[x] \in Signers /\ held[x] \notin Elements(pool[sig[x]])
      BY <1>7, <1>9, <2>2 DEF TypeInv, TypeOK, Stages, OneHolderPerSigner
    <3> QED
      BY <1>3, <1>5, <1>7, <2>2, <3>1
  <2> QED
    BY <2>1, <2>2
<1>10. ASSUME NEW x \in Requests, NEW y \in Requests,
              held'[x] # NoVoucher, sig'[x] = sig'[y], held'[x] = held'[y]
       PROVE  x = y
  <2>1. \A z \in Requests \ {r} : sig[z] = s /\ held[z] # NoVoucher => held[z] # q[k]
    BY <1>6 DEF OneHolderPerSigner
  <2> QED
    BY <1>3, <1>7, <1>10, <2>1 DEF OneHolderPerSigner
<1> QED
  BY <1>8, <1>9, <1>10 DEF OneHolderPerSigner

\* A signer that starts to serve is one that no request holds from.
LEMMA InstallKeepsReservation ==
    ASSUME TypeInv, TypeInv', OneHolderPerSigner, NEW STATE sg, NEW s \in Signers,
           NEW STATE q, q \in Seq(Vouchers), Distinct(q), NEW STATE n,
           Install(s, q, n, sg),
           \A r \in Requests : held'[r] # NoVoucher =>
               held'[r] = held[r] /\ sig'[r] = sig[r] /\ sig'[r] # s
    PROVE  OneHolderPerSigner'
<1>1. /\ pool'[s] = q
      /\ \A t \in Signers \ {s} : pool'[t] = pool[t] \/ pool'[t] = <<>>
  BY InstallPools
<1>2. \A t \in Signers : Distinct(pool'[t])
  BY <1>1, EmptyPool DEF OneHolderPerSigner
<1>3. ASSUME NEW r \in Requests, held'[r] # NoVoucher
      PROVE  held'[r] \notin Elements(pool'[sig'[r]])
  <2>1. sig[r] \in Signers \ {s} /\ held[r] # NoVoucher
    BY <1>3 DEF TypeInv, TypeOK, Stages
  <2> QED
    BY <1>1, <1>3, <2>1, EmptyPool DEF OneHolderPerSigner
<1>4. ASSUME NEW x \in Requests, NEW y \in Requests,
             held'[x] # NoVoucher, sig'[x] = sig'[y], held'[x] = held'[y]
      PROVE  x = y
  BY <1>4 DEF OneHolderPerSigner
<1> QED
  BY <1>2, <1>3, <1>4 DEF OneHolderPerSigner

LEMMA RequestReservation ==
    ASSUME TypeInv, TypeInv', Reservation, NEW r \in Requests, RequestStep(r)
    PROVE  Reservation'
<1> USE DEF Reservation
<1>1. loading' = loading
  BY DEF RequestStep, ResolveModelRequest, ProbeEndsRequest, CanSign, HoldSign,
         HoldSignExhausted, SendPayment, ReleaseBeforeSend, PaymentReleased,
         PaymentConfirmed
<1>2. CASE ResolveModelRequest(r) \/ CanSign(r) \/ SendPayment(r)
  <2>1. /\ pool' = pool /\ held' = held
        /\ \A x \in Requests : held[x] # NoVoucher => sig'[x] = sig[x]
    BY <1>2 DEF ResolveModelRequest, CanSign, SendPayment, TypeInv, TypeOK, Stages
  <2> QED
    BY <1>1, <2>1, NothingOffered
<1>3. CASE ProbeEndsRequest(r) \/ PaymentConfirmed(r)
  <2>1. Leave(r, pool, spent)
    BY <1>3 DEF ProbeEndsRequest, PaymentConfirmed
  <2>2. pool \in [Signers -> Seq(Vouchers)]
    BY DEF TypeInv, TypeOK
  <2> QED
    BY <1>1, <2>1, <2>2, LeavePools, NothingOffered
<1>4. CASE HoldSignExhausted(r)
  <2> DEFINE np == [pool EXCEPT ![sig[r]] = <<>>]
  <2>1. Leave(r, np, spent)
    BY <1>4 DEF HoldSignExhausted
  <2>2. /\ np \in [Signers -> Seq(Vouchers)]
        /\ \A s \in Signers : np[s] = pool[s] \/ np[s] = <<>>
    BY <<>> \in Seq(Vouchers) DEF TypeInv, TypeOK
  <2> HIDE DEF np
  <2>3. /\ \A s \in Signers : pool'[s] = pool[s] \/ pool'[s] = <<>>
        /\ \A x \in Requests : held'[x] # NoVoucher =>
              held'[x] = held[x] /\ sig'[x] = sig[x]
    BY <2>1, <2>2, LeavePools
  <2> QED
    BY <1>1, <2>3, NothingOffered
<1>5. CASE HoldSign(r)
  BY <1>1, <1>5, HoldKeepsReservation
<1>6. CASE ReleaseBeforeSend(r) \/ PaymentReleased(r)
  <2>1. held[r] # NoVoucher /\ Leave(r, Released(r), Unspent(r))
    BY <1>6 DEF ReleaseBeforeSend, PaymentReleased, TypeInv, Stages
  <2> QED
    BY <1>1, <2>1, ReleaseKeepsReservation
<1> QED
  BY <1>2, <1>3, <1>4, <1>5, <1>6 DEF RequestStep

LEMMA ReloadReservation ==
    ASSUME TypeInv, TypeInv', Reservation,
           ReloadFilter \/ ReloadSwap \/ AdminRemove \/ Restart
    PROVE  Reservation'
<1> USE DEF Reservation
<1>1. CASE ReloadFilter
  <2>1. PICK q \in FileOrder(Unconsumed(consumed)) : loading'.auths = q
    BY <1>1 DEF ReloadFilter
  <2>2. Unconsumed(consumed) \in SUBSET Vouchers
    BY SidecarAssumption DEF Unconsumed, Vouchers, TypeInv, TypeOK
  <2>3. Distinct(loading'.auths)
    BY <2>1, <2>2, FileOrderProperties
  <2>4. pool' = pool /\ held' = held /\ sig' = sig
    BY <1>1 DEF ReloadFilter, requestVars
  <2>5. OneHolderPerSigner'
    BY <2>4, NothingOffered
  <2> QED
    BY <2>3, <2>5
<1>2. CASE ReloadSwap
  <2>1. held' = held /\ sig' = sig /\ loading' = NotLoading
    BY <1>2 DEF ReloadSwap, requestVars
  <2>2. Distinct(loading'.auths)
    BY <2>1, EmptyPool DEF NotLoading
  <2>3. OneHolderPerSigner'
    <3>1. CASE loading.present
      <4>1. PICK s \in Signers \ {sig[r] : r \in Requests} :
               Install(s, loading.auths, loading.count, sig)
        BY <1>2, <3>1 DEF ReloadSwap
      <4>2. loading.auths \in Seq(Vouchers)
        BY DEF TypeInv, TypeOK
      <4> QED
        BY <2>1, <4>1, <4>2, InstallKeepsReservation
    <3>2. CASE ~loading.present
      <4>1. Unroute(sig)
        BY <1>2, <3>2 DEF ReloadSwap
      <4> QED
        BY <2>1, <4>1, UnroutePools, NothingOffered
    <3> QED
      BY <3>1, <3>2
  <2> QED
    BY <2>2, <2>3
<1>3. CASE AdminRemove
  <2>1. held' = held /\ sig' = sig /\ loading' = loading /\ Unroute(sig)
    BY <1>3 DEF AdminRemove, requestVars
  <2> QED
    BY <2>1, UnroutePools, NothingOffered
<1>4. CASE Restart
  <2> DEFINE noSig == [r \in Requests |-> NoSigner]
  <2>1. loading' = NotLoading /\ \A r \in Requests : held'[r] = NoVoucher
    BY <1>4 DEF Restart
  <2>2. Distinct(loading'.auths)
    BY <2>1, EmptyPool DEF NotLoading
  <2>3. OneHolderPerSigner'
    <3>1. CASE listed # Unlisted
      <4>1. PICK s \in Signers, q \in FileOrder(Unconsumed(persisted)) :
               Install(s, q, Cardinality(persisted), noSig)
        BY <1>4, <3>1 DEF Restart
      <4>2. Unconsumed(persisted) \in SUBSET Vouchers
        BY SidecarAssumption DEF Unconsumed, Vouchers, TypeInv, TypeOK
      <4>3. q \in Seq(Vouchers) /\ Distinct(q)
        BY <4>2, FileOrderProperties
      <4> QED
        BY <2>1, <4>1, <4>3, InstallKeepsReservation
    <3>2. CASE listed = Unlisted
      <4>1. Unroute(noSig)
        BY <1>4, <3>2 DEF Restart
      <4> QED
        BY <2>1, <4>1, UnroutePools, NothingOffered
    <3> QED
      BY <3>1, <3>2
  <2> QED
    BY <2>2, <2>3
<1> QED
  BY <1>1, <1>2, <1>3, <1>4

LEMMA NextReservation ==
    TypeInv /\ TypeInv' /\ Reservation /\ [Next]_vars => Reservation'
<1> SUFFICES ASSUME TypeInv, TypeInv', Reservation, [Next]_vars
             PROVE  Reservation'
  OBVIOUS
<1>1. ASSUME NEW r \in Requests, RequestStep(r) PROVE Reservation'
  BY <1>1, RequestReservation
<1>2. CASE ReloadFilter \/ ReloadSwap \/ AdminRemove \/ Restart
  BY <1>2, ReloadReservation
<1>3. CASE Mount \/ (\E v \in Vouchers : Expire(v)) \/ UNCHANGED vars
  <2>1. pool' = pool /\ held' = held /\ sig' = sig /\ loading' = loading
    BY <1>3 DEF Mount, Expire, vars, requestVars
  <2> QED
    BY <2>1, NothingOffered DEF Reservation
<1> QED
  BY <1>1, <1>2, <1>3 DEF Next

LEMMA InitReservation == Init => Reservation
<1> SUFFICES ASSUME Init PROVE Reservation
  OBVIOUS
<1>1. PICK q \in FileOrder(1..listed) :
         pool = [s \in Signers |-> IF s = serving THEN q ELSE <<>>]
  BY DEF Init
<1>2. 1..listed \in SUBSET Vouchers
  BY SidecarAssumption DEF Init, Vouchers
<1>3. Distinct(q)
  BY <1>2, FileOrderProperties
<1> QED
  BY <1>1, <1>3, EmptyPool DEF Init, NotLoading, Reservation, OneHolderPerSigner

(***************************************************************************)
(* HoldSign's reservation is exclusive: no voucher is twice in a pool, in  *)
(* the pool and in a hand, or in the hands of two requests of one signer,  *)
(* for any number of requests and reloads.                                 *)
(***************************************************************************)
THEOREM ReservationExclusive == Spec => []OneHolderPerSigner
<1>1. Spec => []TypeInv
  BY InitType, NextType, PTL DEF Spec
<1>2. Spec => []Reservation
  BY <1>1, InitReservation, NextReservation, PTL DEF Spec
<1>3. Reservation => OneHolderPerSigner
  BY DEF Reservation
<1> QED
  BY <1>2, <1>3, PTL

-----------------------------------------------------------------------------
(* The ledger of consumed vouchers *)

\* What is on disk is known in memory, and every voucher that was sent is
\* accounted for.
Ledger == persisted \subseteq consumed /\ SentVouchersAccountedFor

LEMMA NextLedger ==
    TypeInv /\ Ledger /\ [Next]_vars => Ledger'
<1> SUFFICES ASSUME TypeInv, Ledger, [Next]_vars PROVE Ledger'
  OBVIOUS
<1> USE DEF Ledger, SentVouchersAccountedFor
<1>1. ASSUME NEW r \in Requests, RequestStep(r) PROVE Ledger'
  <2>1. CASE \/ ResolveModelRequest(r) \/ ProbeEndsRequest(r) \/ CanSign(r)
             \/ HoldSign(r) \/ HoldSignExhausted(r) \/ ReleaseBeforeSend(r)
    <3>1. /\ UNCHANGED <<consumed, persisted, exposed, unrecorded>>
          /\ pc[r] # "paying"
          /\ \A x \in Requests \ {r} : pc'[x] = pc[x] /\ held'[x] = held[x]
      BY <2>1 DEF ResolveModelRequest, ProbeEndsRequest, CanSign, HoldSign,
                  HoldSignExhausted, ReleaseBeforeSend, Leave, Goto,
                  storeVars, envVars, histVars, TypeInv, TypeOK
    <3>2. InPayment \subseteq InPayment'
      BY <3>1 DEF InPayment
    <3> QED
      BY <3>1, <3>2
  <2>2. CASE SendPayment(r)
    <3>1. /\ UNCHANGED <<consumed, persisted, unrecorded, held>>
          /\ exposed' = exposed \cup {held[r]}
          /\ pc' = [pc EXCEPT ![r] = "paying"]
      BY <2>2 DEF SendPayment, Goto, storeVars, histVars
    <3>2. InPayment' = InPayment \cup {held[r]}
      BY <3>1 DEF InPayment, TypeInv, TypeOK
    <3> QED
      BY <3>1, <3>2
  <2>3. CASE PaymentReleased(r) \/ PaymentConfirmed(r)
    <3>1. \A x \in Requests \ {r} : pc'[x] = pc[x] /\ held'[x] = held[x]
      BY <2>3 DEF PaymentReleased, PaymentConfirmed, Leave, Goto, TypeInv, TypeOK
    <3>2. InPayment \subseteq InPayment' \cup {held[r]}
      BY <3>1 DEF InPayment
    <3>3. CASE PaymentReleased(r)
      BY <3>2, <3>3 DEF PaymentReleased, storeVars, envVars
    <3>4. CASE PaymentConfirmed(r)
      BY <3>2, <3>4 DEF PaymentConfirmed, MarkConsumed, storeVars, envVars
    <3> QED
      BY <2>3, <3>3, <3>4
  <2> QED
    BY <1>1, <2>1, <2>2, <2>3 DEF RequestStep
<1>2. CASE Restart
  BY <1>2 DEF Restart, envVars
<1>3. CASE ReloadFilter \/ ReloadSwap \/ AdminRemove \/ Mount \/ UNCHANGED vars
           \/ \E v \in Vouchers : Expire(v)
  <2>1. UNCHANGED <<consumed, persisted, exposed, unrecorded, pc, held>>
    BY <1>3 DEF ReloadFilter, ReloadSwap, AdminRemove, Mount, Expire, vars,
                requestVars, storeVars, envVars, histVars
  <2> QED
    BY <2>1 DEF InPayment
<1> QED
  BY <1>1, <1>2, <1>3 DEF Next

(***************************************************************************)
(* The local ledger covers what the seller could settle, whatever the      *)
(* number of concurrent requests, reloads, failed writes and restarts.     *)
(***************************************************************************)
THEOREM LedgerCoversSent == Spec => []SentVouchersAccountedFor
<1>1. Init => Ledger
  BY DEF Init, Ledger, SentVouchersAccountedFor
<1>2. Spec => []TypeInv
  BY InitType, NextType, PTL DEF Spec
<1>3. Spec => []Ledger
  BY <1>1, <1>2, NextLedger, PTL DEF Spec
<1>4. Ledger => SentVouchersAccountedFor
  BY DEF Ledger
<1> QED
  BY <1>3, <1>4, PTL

(***************************************************************************)
(* A consumption that a write has put on disk stays there and is known in  *)
(* memory after every step, restarts included.                             *)
(***************************************************************************)
THEOREM WrittenSurvives == Spec => WrittenConsumptionSurvives
<1> DEFINE Survives == /\ persisted # persisted' => persisted' = consumed'
                       /\ persisted \subseteq consumed' \cap persisted'
<1>1. ASSUME Ledger, [Next]_vars PROVE [Survives]_vars
  <2>1. ASSUME NEW r \in Requests, RequestStep(r) PROVE Survives
    <3>1. CASE PaymentConfirmed(r)
      BY <1>1, <3>1 DEF PaymentConfirmed, MarkConsumed, storeVars, Ledger
    <3>2. CASE ~PaymentConfirmed(r)
      <4>1. UNCHANGED storeVars
        BY <2>1, <3>2
        DEF RequestStep, ResolveModelRequest, ProbeEndsRequest, CanSign, HoldSign,
            HoldSignExhausted, SendPayment, ReleaseBeforeSend, PaymentReleased
      <4> QED
        BY <1>1, <4>1 DEF storeVars, Ledger
    <3> QED
      BY <3>1, <3>2
  <2>2. CASE Restart
    BY <1>1, <2>2 DEF Restart, Ledger
  <2>3. CASE ReloadFilter \/ ReloadSwap \/ AdminRemove \/ Mount
             \/ \E v \in Vouchers : Expire(v)
    BY <1>1, <2>3 DEF ReloadFilter, ReloadSwap, AdminRemove, Mount, Expire,
                      storeVars, Ledger
  <2> QED
    BY <1>1, <2>1, <2>2, <2>3 DEF Next
<1>2. Spec => []TypeInv
  BY InitType, NextType, PTL DEF Spec
<1>3. Init => Ledger
  BY DEF Init, Ledger, SentVouchersAccountedFor
<1>4. Spec => []Ledger
  BY <1>2, <1>3, NextLedger, PTL DEF Spec
<1> QED
  BY <1>1, <1>4, PTL DEF Spec, WrittenConsumptionSurvives

-----------------------------------------------------------------------------
(* When a consumed voucher can be offered again *)

(***************************************************************************)
(* The strengthening: what a reload under way has filtered, and what a     *)
(* request holds from the signer that serves, is consumed only if it       *)
(* crossed a reload.  Reservation supplies that the voucher a request      *)
(* confirms is in no pool of its own signer and in no other hand of it.    *)
(***************************************************************************)
Crossing ==
    /\ ConsumedOfferedOnlyWhenCrossed
    /\ loading.on => Elements(loading.auths) \cap consumed \subseteq crossed
    /\ \A r \in Requests :
          sig[r] = serving /\ held[r] # NoVoucher /\ held[r] \in consumed
          => held[r] \in crossed

LEMMA RequestCrossing ==
    ASSUME TypeInv, Reservation, Crossing, NEW r \in Requests, RequestStep(r)
    PROVE  Crossing'
<1> USE DEF Crossing, ConsumedOfferedOnlyWhenCrossed
<1>0. serving' = serving /\ loading' = loading
  BY DEF RequestStep, ResolveModelRequest, ProbeEndsRequest, CanSign, HoldSign,
         HoldSignExhausted, SendPayment, ReleaseBeforeSend, PaymentReleased,
         PaymentConfirmed
<1>1. CASE ResolveModelRequest(r) \/ CanSign(r) \/ SendPayment(r)
  <2>1. /\ UNCHANGED <<pool, held, consumed, crossed>>
        /\ \A x \in Requests : held[x] # NoVoucher => sig'[x] = sig[x]
    BY <1>1 DEF ResolveModelRequest, CanSign, SendPayment, storeVars, histVars,
                TypeInv, TypeOK, Stages
  <2> QED
    BY <1>0, <2>1
<1>2. CASE ProbeEndsRequest(r) \/ HoldSignExhausted(r)
  <2> DEFINE np == [pool EXCEPT ![sig[r]] = <<>>]
  <2>1. Leave(r, pool, spent) \/ Leave(r, np, spent)
    BY <1>2 DEF ProbeEndsRequest, HoldSignExhausted
  <2>2. /\ pool \in [Signers -> Seq(Vouchers)]
        /\ np \in [Signers -> Seq(Vouchers)]
        /\ \A s \in Signers : np[s] = pool[s] \/ np[s] = <<>>
    BY <<>> \in Seq(Vouchers) DEF TypeInv, TypeOK
  <2> HIDE DEF np
  <2>3. /\ \A s \in Signers : pool'[s] = pool[s] \/ pool'[s] = <<>>
        /\ \A x \in Requests : held'[x] # NoVoucher =>
              held'[x] = held[x] /\ sig'[x] = sig[x]
    BY <2>1, <2>2, LeavePools
  <2>4. consumed' = consumed /\ crossed' = crossed
    BY <1>2 DEF ProbeEndsRequest, HoldSignExhausted, storeVars, histVars
  <2>5. serving # NoSigner => serving \in Signers
    BY DEF TypeInv, TypeOK
  <2> QED
    BY <1>0, <2>3, <2>4, <2>5, EmptyPool
<1>3. CASE HoldSign(r)
  <2> DEFINE s == sig[r]
             q == pool[s]
  <2>1. s \in Signers /\ s # NoSigner /\ q \in Seq(Vouchers)
    BY <1>3, SidecarAssumption DEF HoldSign, TypeInv, TypeOK, Stages
  <2>2. PICK k \in 1..Len(q) :
           /\ held' = [held EXCEPT ![r] = q[k]]
           /\ pool' = [pool EXCEPT ![s] = PoppedAt(q, k)]
    BY <1>3 DEF HoldSign
  <2>3. UNCHANGED <<sig, consumed, crossed>>
    BY <1>3 DEF HoldSign, storeVars, histVars
  <2>4. q[k] \in Elements(q)
    BY DEF Elements
  <2>5. Elements(PoppedAt(q, k)) \subseteq Elements(q)
    BY <2>1, PoppedProperties
  <2>6. \A t \in Signers : Elements(pool'[t]) \subseteq Elements(pool[t])
    BY <2>1, <2>2, <2>5 DEF TypeInv, TypeOK
  <2>7. /\ held'[r] = q[k]
        /\ \A x \in Requests \ {r} : held'[x] = held[x]
    BY <2>2 DEF TypeInv, TypeOK
  <2>8. serving # NoSigner => serving \in Signers
    BY DEF TypeInv, TypeOK
  <2> QED
    BY <1>0, <2>1, <2>3, <2>4, <2>6, <2>7, <2>8
<1>4. CASE ReleaseBeforeSend(r) \/ PaymentReleased(r)
  <2>1. /\ Leave(r, Released(r), Unspent(r))
        /\ sig[r] \in Signers /\ held[r] \in Vouchers /\ held[r] # NoVoucher
    BY <1>4, SidecarAssumption
    DEF ReleaseBeforeSend, PaymentReleased, TypeInv, TypeOK, Stages
  <2>2. Released(r) \in [Signers -> Seq(Vouchers)]
    BY <2>1, ReleasedType DEF TypeInv
  <2>3. /\ \A t \in Signers : pool'[t] = Released(r)[t] \/ pool'[t] = <<>>
        /\ \A x \in Requests : held'[x] # NoVoucher =>
              held'[x] = held[x] /\ sig'[x] = sig[x]
    BY <2>1, <2>2, LeavePools
  <2>4. /\ Elements(Released(r)[sig[r]]) = {held[r]} \cup Elements(pool[sig[r]])
        /\ \A t \in Signers \ {sig[r]} : Released(r)[t] = pool[t]
    BY <2>1, PrependProperties DEF Released, TypeInv, TypeOK
  <2>5. consumed' = consumed /\ crossed' = crossed
    BY <1>4 DEF ReleaseBeforeSend, PaymentReleased, storeVars, histVars
  <2>6. serving # NoSigner => serving \in Signers
    BY DEF TypeInv, TypeOK
  <2> QED
    BY <1>0, <2>1, <2>3, <2>4, <2>5, <2>6, EmptyPool
<1>5. CASE PaymentConfirmed(r)
  <2>1. /\ Leave(r, pool, spent)
        /\ held[r] # NoVoucher
        /\ crossed' = IF sig[r] # serving \/ loading.on
                      THEN crossed \cup {held[r]} ELSE crossed
    BY <1>5 DEF PaymentConfirmed, TypeInv, Stages
  <2>2. pool \in [Signers -> Seq(Vouchers)]
    BY DEF TypeInv, TypeOK
  <2>3. /\ \A s \in Signers : pool'[s] = pool[s] \/ pool'[s] = <<>>
        /\ held'[r] = NoVoucher
        /\ \A x \in Requests : held'[x] # NoVoucher =>
              held'[x] = held[x] /\ sig'[x] = sig[x]
    BY <2>1, <2>2, LeavePools
  <2>4. consumed' \subseteq consumed \cup {held[r]}
    BY <1>5 DEF PaymentConfirmed, MarkConsumed, storeVars
  <2>5. serving # NoSigner => serving \in Signers
    BY DEF TypeInv, TypeOK
  <2>6. CASE sig[r] # serving \/ loading.on
    BY <1>0, <2>1, <2>3, <2>4, <2>5, <2>6, EmptyPool
  <2>7. CASE sig[r] = serving /\ ~loading.on
    <3>1. held[r] \notin Elements(pool[serving])
      BY <2>1, <2>7 DEF Reservation, OneHolderPerSigner
    <3>2. \A x \in Requests \ {r} :
             sig[x] = serving /\ held[x] # NoVoucher => held[x] # held[r]
      BY <2>1, <2>7 DEF Reservation, OneHolderPerSigner
    <3> QED
      BY <1>0, <2>1, <2>3, <2>4, <2>5, <2>7, <3>1, <3>2, EmptyPool
  <2> QED
    BY <2>6, <2>7
<1> QED
  BY <1>1, <1>2, <1>3, <1>4, <1>5 DEF RequestStep

LEMMA ReloadCrossing ==
    ASSUME TypeInv, Crossing, ReloadFilter \/ ReloadSwap \/ AdminRemove \/ Restart
    PROVE  Crossing'
<1> USE DEF Crossing, ConsumedOfferedOnlyWhenCrossed
<1>1. CASE ReloadFilter
  <2>1. PICK q \in FileOrder(Unconsumed(consumed)) : loading'.auths = q
    BY <1>1 DEF ReloadFilter
  <2>2. Unconsumed(consumed) \in SUBSET Vouchers
    BY SidecarAssumption DEF Unconsumed, Vouchers, TypeInv, TypeOK
  <2>3. Elements(loading'.auths) \cap consumed = {}
    BY <2>1, <2>2, FileOrderProperties DEF Unconsumed
  <2>4. UNCHANGED <<pool, held, sig, serving, consumed, crossed>>
    BY <1>1 DEF ReloadFilter, requestVars, storeVars, histVars
  <2> QED
    BY <2>3, <2>4
<1>2. CASE ReloadSwap
  <2>1. /\ UNCHANGED <<held, sig, consumed>> /\ loading' = NotLoading
        /\ loading.on /\ crossed' = crossed \cap Elements(loading.auths)
    BY <1>2 DEF ReloadSwap, requestVars, storeVars
  <2>2. ~loading'.on
    BY <2>1 DEF NotLoading
  <2>3. CASE loading.present
    <3>1. PICK s \in Signers \ {sig[r] : r \in Requests} :
             Install(s, loading.auths, loading.count, sig)
      BY <1>2, <2>3 DEF ReloadSwap
    <3>2. loading.auths \in Seq(Vouchers)
      BY DEF TypeInv, TypeOK
    <3>3. serving' = s /\ pool'[s] = loading.auths
      BY <3>1, <3>2, InstallPools
    <3>4. \A r \in Requests : sig'[r] # serving'
      BY <2>1, <3>1, <3>3
    <3> QED
      BY <2>1, <2>2, <3>3, <3>4
  <2>4. CASE ~loading.present
    <3>1. serving' = NoSigner
      BY <1>2, <2>4 DEF ReloadSwap, Unroute
    <3>2. \A r \in Requests : sig'[r] = serving' => held'[r] = NoVoucher
      BY <2>1, <3>1 DEF TypeInv, Stages
    <3> QED
      BY <2>2, <3>1, <3>2
  <2> QED
    BY <2>3, <2>4
<1>3. CASE AdminRemove
  <2>1. UNCHANGED <<held, sig, consumed, crossed, loading>> /\ serving' = NoSigner
    BY <1>3 DEF AdminRemove, Unroute, requestVars, storeVars, histVars
  <2>2. \A r \in Requests : sig'[r] = serving' => held'[r] = NoVoucher
    BY <2>1 DEF TypeInv, Stages
  <2> QED
    BY <2>1, <2>2
<1>4. CASE Restart
  <2> DEFINE noSig == [r \in Requests |-> NoSigner]
  <2>1. /\ consumed' = persisted /\ loading' = NotLoading
        /\ \A r \in Requests : held'[r] = NoVoucher
    BY <1>4 DEF Restart
  <2>2. ~loading'.on
    BY <2>1 DEF NotLoading
  <2>3. serving' # NoSigner => Elements(pool'[serving']) \cap persisted = {}
    <3>1. CASE listed # Unlisted
      <4>1. PICK s \in Signers, q \in FileOrder(Unconsumed(persisted)) :
               Install(s, q, Cardinality(persisted), noSig)
        BY <1>4, <3>1 DEF Restart
      <4>2. Unconsumed(persisted) \in SUBSET Vouchers
        BY SidecarAssumption DEF Unconsumed, Vouchers, TypeInv, TypeOK
      <4>3. q \in Seq(Vouchers) /\ Elements(q) \subseteq Unconsumed(persisted)
        BY <4>2, FileOrderProperties
      <4>4. serving' = s /\ pool'[s] = q
        BY <4>1, <4>3, InstallPools
      <4> QED
        BY <4>3, <4>4 DEF Unconsumed
    <3>2. CASE listed = Unlisted
      BY <1>4, <3>2 DEF Restart, Unroute
    <3> QED
      BY <3>1, <3>2
  <2> QED
    BY <2>1, <2>2, <2>3
<1> QED
  BY <1>1, <1>2, <1>3, <1>4

LEMMA NextCrossing ==
    TypeInv /\ Reservation /\ Crossing /\ [Next]_vars => Crossing'
<1> SUFFICES ASSUME TypeInv, Reservation, Crossing, [Next]_vars PROVE Crossing'
  OBVIOUS
<1>1. ASSUME NEW r \in Requests, RequestStep(r) PROVE Crossing'
  BY <1>1, RequestCrossing
<1>2. CASE ReloadFilter \/ ReloadSwap \/ AdminRemove \/ Restart
  BY <1>2, ReloadCrossing
<1>3. CASE Mount \/ (\E v \in Vouchers : Expire(v)) \/ UNCHANGED vars
  <2>1. UNCHANGED <<pool, held, sig, serving, loading, consumed, crossed>>
    BY <1>3 DEF Mount, Expire, vars, requestVars, storeVars, histVars
  <2> QED
    BY <2>1 DEF Crossing, ConsumedOfferedOnlyWhenCrossed
<1> QED
  BY <1>1, <1>2, <1>3 DEF Next

(***************************************************************************)
(* Reload's filter and HoldSign leave one way only for a consumed voucher  *)
(* to be offered again in the life of a process: it was confirmed through  *)
(* a signer that a reload had replaced or was replacing.                   *)
(***************************************************************************)
THEOREM OnlyCrossedOffered == Spec => []ConsumedOfferedOnlyWhenCrossed
<1>1. Init => Crossing
  BY DEF Init, NotLoading, Crossing, ConsumedOfferedOnlyWhenCrossed
<1>2. Spec => []TypeInv
  BY InitType, NextType, PTL DEF Spec
<1>3. Spec => []Reservation
  BY <1>2, InitReservation, NextReservation, PTL DEF Spec
<1>4. Spec => []Crossing
  BY <1>1, <1>2, <1>3, NextCrossing, PTL DEF Spec
<1>5. Crossing => ConsumedOfferedOnlyWhenCrossed
  BY DEF Crossing
<1> QED
  BY <1>4, <1>5, PTL

-----------------------------------------------------------------------------
(* What requests do to a pool *)

(***************************************************************************)
(* A step of a request takes no usable voucher out of a pool in use but    *)
(* the one it holds: dropping expired vouchers from the head of a mixed    *)
(* pool loses no other.                                                    *)
(***************************************************************************)
THEOREM UsableKept == Spec => UsableVoucherNeverDropped
<1> DEFINE Out(s) == Elements(pool'[s]) \cup expired \cup {held'[x] : x \in Requests}
           Kept == \A s \in InUse(serving, sig') : Elements(pool[s]) \subseteq Out(s)
<1>1. ASSUME TypeInv, NEW r \in Requests, RequestStep(r) PROVE Kept
  <2>1. CASE ResolveModelRequest(r) \/ CanSign(r) \/ SendPayment(r)
    BY <2>1 DEF ResolveModelRequest, CanSign, SendPayment
  <2>2. CASE ProbeEndsRequest(r) \/ PaymentConfirmed(r)
    <3>1. Leave(r, pool, spent) /\ pool \in [Signers -> Seq(Vouchers)]
      BY <1>1, <2>2 DEF ProbeEndsRequest, PaymentConfirmed, TypeInv, TypeOK
    <3> QED
      BY <1>1, <3>1, LeavePools DEF InUse
  <2>3. CASE HoldSign(r)
    <3> DEFINE q == pool[sig[r]]
    <3>1. sig[r] \in Signers /\ q \in Seq(Vouchers)
      BY <1>1, <2>3 DEF HoldSign, TypeInv, TypeOK, Stages
    <3>2. PICK k \in 1..Len(q) :
             /\ \A j \in 1..(k - 1) : q[j] \in expired
             /\ held' = [held EXCEPT ![r] = q[k]]
             /\ pool' = [pool EXCEPT ![sig[r]] = PoppedAt(q, k)]
      BY <2>3 DEF HoldSign
    <3>3. held'[r] = q[k]
      BY <1>1, <3>2 DEF TypeInv, TypeOK
    <3>4. Elements(q) \subseteq Elements(PoppedAt(q, k)) \cup expired \cup {q[k]}
      <4> SUFFICES ASSUME NEW i \in 1..Len(q)
                   PROVE  q[i] \in Elements(PoppedAt(q, k)) \cup expired \cup {q[k]}
        BY DEF Elements
      <4>1. i \in 1..(k - 1) \/ i = k \/ i \in (k + 1)..Len(q)
        BY <3>1, LenProperties
      <4>2. \A j \in (k + 1)..Len(q) : q[j] \in Elements(PoppedAt(q, k))
        BY <3>1, PoppedProperties
      <4> QED
        BY <3>2, <4>1, <4>2
    <3>5. \A s \in Signers : Elements(pool[s]) \subseteq Out(s)
      BY <1>1, <3>1, <3>2, <3>3, <3>4 DEF TypeInv, TypeOK
    <3> QED
      BY <3>5 DEF InUse
  <2>4. CASE HoldSignExhausted(r)
    <3> DEFINE np == [pool EXCEPT ![sig[r]] = <<>>]
    <3>1. Leave(r, np, spent) /\ Elements(pool[sig[r]]) \subseteq expired
      BY <2>4 DEF HoldSignExhausted, Exhausted
    <3>2. /\ np \in [Signers -> Seq(Vouchers)]
          /\ \A s \in Signers \ {sig[r]} : np[s] = pool[s]
      BY <1>1, <<>> \in Seq(Vouchers) DEF TypeInv, TypeOK
    <3> HIDE DEF np
    <3>3. \A s \in InUse(serving, sig') : pool'[s] = np[s]
      BY <1>1, <3>1, <3>2, LeavePools DEF InUse
    <3> QED
      BY <3>1, <3>2, <3>3 DEF InUse
  <2>5. CASE ReleaseBeforeSend(r) \/ PaymentReleased(r)
    <3>1. /\ Leave(r, Released(r), Unspent(r))
          /\ sig[r] \in Signers /\ held[r] \in Vouchers
      BY <1>1, <2>5 DEF ReleaseBeforeSend, PaymentReleased, TypeInv, TypeOK, Stages
    <3>2. Released(r) \in [Signers -> Seq(Vouchers)]
      BY <1>1, <3>1, ReleasedType DEF TypeInv
    <3>3. \A s \in Signers : Elements(pool[s]) \subseteq Elements(Released(r)[s])
      BY <1>1, <3>1, PrependProperties DEF Released, TypeInv, TypeOK
    <3>4. \A s \in InUse(serving, sig') : pool'[s] = Released(r)[s]
      BY <1>1, <3>1, <3>2, LeavePools DEF InUse
    <3> QED
      BY <3>3, <3>4 DEF InUse
  <2> QED
    BY <1>1, <2>1, <2>2, <2>3, <2>4, <2>5 DEF RequestStep
<1> HIDE DEF Kept
<1>2. ASSUME TypeInv
      PROVE  [(\E r \in Requests : RequestStep(r)) => Kept]_vars
  BY <1>1, <1>2
<1>3. Spec => []TypeInv
  BY InitType, NextType, PTL DEF Spec
<1>4. TypeInv => [(\E r \in Requests : RequestStep(r)) =>
          \A s \in InUse(serving, sig') :
              Elements(pool[s]) \subseteq
                  Elements(pool'[s]) \cup expired
                      \cup {held'[r] : r \in Requests}]_vars
  BY <1>2 DEF Kept
<1> QED
  BY <1>3, <1>4, PTL DEF UsableVoucherNeverDropped
=============================================================================
