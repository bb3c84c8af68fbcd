-------------------------- MODULE PaymentGateProofs --------------------------
(***************************************************************************)
(* Proofs about the two ends of a payment.  The seller's, PaymentGate, for  *)
(* every set of requests and authorizations and every value of the         *)
(* registry's bounds: its invariants and action properties, and that it    *)
(* implements PaidCalls.  The buyer's, BuyOrder, for every price and       *)
(* catalog: the budget and the ceiling hold, and no write of a purchase    *)
(* loses a voucher that is not spent.                                      *)
(***************************************************************************)
EXTENDS PaymentGate, BuyOrder, FiniteSetTheorems, SequenceTheorems, TLAPS

-----------------------------------------------------------------------------
(* Type correctness *)

\* A request has an authorization exactly while it is being handled.
KeyWhileHandled == \A r \in Requests : pc[r] # "idle" <=> key[r] # NoKey

TypeInv == TypeOK /\ KeyWhileHandled

LEMMA InitType == Init => TypeInv
<1>1. 0 \in Time
  BY GateAssumption DEF Time
<1>2. NoEntry \in [state: {"none", "inFlight", "settled"}, expires: Nat]
  BY DEF NoEntry
<1> QED
  BY <1>1, <1>2 DEF Init, TypeInv, TypeOK, KeyWhileHandled, Modes, PC

\* The registry's own operations keep its type.
LEMMA RegistryType ==
    ASSUME TypeOK, NEW k \in Keys, NEW isSettled \in BOOLEAN
    PROVE  /\ ClaimTable(k) \in [Keys -> [state: {"none", "inFlight", "settled"},
                                           expires: Nat]]
           /\ NextSweepAfterClaim(k) \in Nat
           /\ ReleasedEntry(k, isSettled) \in
                 [state: {"none", "inFlight", "settled"}, expires: Nat]
<1> DEFINE E == [state: {"none", "inFlight", "settled"}, expires: Nat]
<1>1. NoEntry \in E
  BY DEF NoEntry
<1>2. ClaimTable(k) \in [Keys -> E]
  BY <1>1 DEF ClaimTable, Swept, TypeOK
<1>3. NextSweepAfterClaim(k) \in Nat
  BY GateAssumption DEF NextSweepAfterClaim, TypeOK, Time
<1>4. BlockedUntil(k) \in Nat
  BY GateAssumption DEF BlockedUntil, TypeOK, Time
<1>5. ReleasedEntry(k, isSettled) \in E
  BY <1>1, <1>4 DEF ReleasedEntry, Until
<1> QED
  BY <1>2, <1>3, <1>5

LEMMA LeaveType ==
    ASSUME TypeInv, NEW r \in Requests, Leave(r)
    PROVE  /\ pc' \in [Requests -> PC]
           /\ key' \in [Requests -> Keys \cup {NoKey}]
           /\ mode' \in [Requests -> Modes]
           /\ verifiedAt' \in [Requests -> Time]
           /\ settled' \in [Requests -> BOOLEAN]
           /\ gone' \in [Requests -> BOOLEAN]
           /\ KeyWhileHandled'
BY GateAssumption
DEF Leave, Goto, TypeInv, TypeOK, KeyWhileHandled, PC, Modes, Time

\* Up to the claim.
LEMMA ClaimStepType ==
    ASSUME TypeInv, NEW r \in Requests,
           \/ \E k \in Keys, m \in Modes : Receive(r, k, m)
           \/ VerifyValid(r) \/ VerifyRefused(r)
           \/ ClaimInUse(r) \/ ClaimFull(r) \/ ClaimOK(r)
    PROVE  TypeInv'
<1>1. ASSUME NEW k \in Keys, NEW m \in Modes, Receive(r, k, m) PROVE TypeInv'
  BY <1>1, GateAssumption
  DEF Receive, Goto, TypeInv, TypeOK, KeyWhileHandled, PC, registryVars, chainVars, histVars
<1>2. CASE VerifyValid(r)
  BY <1>2
  DEF VerifyValid, Goto, TypeInv, TypeOK, KeyWhileHandled, PC, registryVars, chainVars, histVars
<1>3. CASE VerifyRefused(r)
  BY <1>3, LeaveType DEF VerifyRefused, TypeInv, TypeOK, registryVars, chainVars, histVars
<1>4. CASE ClaimInUse(r)
  BY <1>4, LeaveType DEF ClaimInUse, TypeInv, TypeOK, registryVars, chainVars, histVars
<1>5. CASE ClaimFull(r)
  <2>1. key[r] \in Keys
    BY <1>5 DEF ClaimFull, TypeInv, TypeOK, KeyWhileHandled
  <2>2. TypeOK /\ Leave(r)
    BY <1>5 DEF ClaimFull, TypeInv
  <2> QED
    BY <1>5, <2>1, <2>2, LeaveType, RegistryType DEF ClaimFull, TypeInv, TypeOK, chainVars, histVars
<1>6. CASE ClaimOK(r)
  <2>1. key[r] \in Keys
    BY <1>6 DEF ClaimOK, TypeInv, TypeOK, KeyWhileHandled
  <2>2. TypeOK
    BY DEF TypeInv
  <2>3. /\ entry' \in [Keys -> [state: {"none", "inFlight", "settled"}, expires: Nat]]
        /\ nextSweep' \in Nat
    BY <1>6, <2>1, <2>2, RegistryType DEF ClaimOK, InFlight
  <2> QED
    BY <1>6, <2>2, <2>3
    DEF ClaimOK, Goto, TypeInv, TypeOK, KeyWhileHandled, PC, chainVars, histVars
<1> QED
  BY <1>1, <1>2, <1>3, <1>4, <1>5, <1>6

\* From the upstream's answer to the release.
LEMMA AnswerStepType ==
    ASSUME TypeInv, NEW r \in Requests,
           \/ UpstreamError(r) \/ ForwardAuthAllows(r)
           \/ UpstreamStreams(r) \/ UpstreamAnswers(r)
           \/ BufferedHasValue(r) \/ BufferedNoValue(r)
           \/ StreamSkipped(r) \/ StreamDelivered(r)
           \/ SettleSkipped(r) \/ SettleSucceeds(r)
           \/ SettleErrorWithTx(r) \/ SettleFails(r)
           \/ SendBody(r) \/ Abort(r) \/ Release(r)
    PROVE  TypeInv'
<1> USE DEF TypeInv
<1>1. CASE \/ UpstreamError(r) \/ ForwardAuthAllows(r) \/ UpstreamStreams(r)
           \/ UpstreamAnswers(r) \/ BufferedHasValue(r) \/ BufferedNoValue(r)
           \/ StreamSkipped(r) \/ StreamDelivered(r) \/ SettleSkipped(r) \/ Abort(r)
  <2>1. /\ UNCHANGED <<now, entry, nextSweep, key, mode, verifiedAt, gone,
                       chain, submittedAt, receipted, bodies>>
        /\ settled' = settled \/ settled' = [settled EXCEPT ![r] = TRUE]
        /\ earned' = earned \/ earned' = earned \cup {key[r]}
        /\ pc[r] # "idle"
        /\ \E l \in PC \ {"idle"} : pc' = [pc EXCEPT ![r] = l]
    BY <1>1
    DEF UpstreamError, ForwardAuthAllows, UpstreamStreams, UpstreamAnswers,
        BufferedHasValue, BufferedNoValue, StreamSkipped, StreamDelivered,
        SettleSkipped, Abort, Goto, Keep, Settling, PC, registryVars, chainVars, histVars
  <2>2. key[r] \in Keys
    BY <2>1 DEF TypeOK, KeyWhileHandled
  <2>3. pc' \in [Requests -> PC] /\ KeyWhileHandled'
    BY <2>1 DEF TypeOK, KeyWhileHandled
  <2>4. settled' \in [Requests -> BOOLEAN] /\ earned' \subseteq Keys
    BY <2>1, <2>2 DEF TypeOK
  <2>5. UNCHANGED <<now, entry, nextSweep, key, mode, verifiedAt, gone,
                    chain, submittedAt, receipted, bodies>>
    BY <2>1
  <2> QED
    BY <2>3, <2>4, <2>5 DEF TypeOK
<1>2. CASE SettleSucceeds(r) \/ SettleErrorWithTx(r) \/ SettleFails(r)
  <2>1. /\ UNCHANGED <<now, entry, nextSweep, key, mode, verifiedAt, gone, earned, bodies>>
        /\ settled' = settled \/ settled' = [settled EXCEPT ![r] = TRUE]
        /\ receipted' = receipted \/ receipted' = receipted \cup {key[r]}
        /\ \/ UNCHANGED <<chain, submittedAt>>
           \/ /\ chain' = [chain EXCEPT ![key[r]] = "submitted"]
              /\ submittedAt' = [submittedAt EXCEPT ![key[r]] = now]
        /\ pc[r] # "idle"
        /\ \E l \in PC \ {"idle"} : pc' = [pc EXCEPT ![r] = l]
    BY <1>2
    DEF SettleSucceeds, SettleErrorWithTx, SettleFails, FacilitatorSubmits, Goto,
        Keep, Settling, PC, registryVars, chainVars, histVars
  <2>2. key[r] \in Keys
    BY <2>1 DEF TypeOK, KeyWhileHandled
  <2>3. pc' \in [Requests -> PC] /\ KeyWhileHandled'
    BY <2>1 DEF TypeOK, KeyWhileHandled
  <2>4. settled' \in [Requests -> BOOLEAN] /\ receipted' \subseteq Keys
    BY <2>1, <2>2 DEF TypeOK
  <2>5. /\ chain' \in [Keys -> {"unused", "submitted", "used"}]
        /\ submittedAt' \in [Keys -> Time]
    <3>1. CASE UNCHANGED <<chain, submittedAt>>
      BY <3>1 DEF TypeOK
    <3>2. CASE /\ chain' = [chain EXCEPT ![key[r]] = "submitted"]
               /\ submittedAt' = [submittedAt EXCEPT ![key[r]] = now]
      BY <2>2, <3>2 DEF TypeOK
    <3> QED
      BY <2>1, <3>1, <3>2
  <2>6. UNCHANGED <<now, entry, nextSweep, key, mode, verifiedAt, gone, earned, bodies>>
    BY <2>1
  <2> QED
    BY <2>3, <2>4, <2>5, <2>6 DEF TypeOK
<1>3. CASE SendBody(r)
  <2>1. key[r] \in Keys
    BY <1>3 DEF SendBody, TypeOK, KeyWhileHandled
  <2>2. bodies' \in [Keys -> 0..2]
    BY <1>3, <2>1 DEF SendBody, TypeOK
  <2> QED
    BY <1>3, <2>2
    DEF SendBody, Goto, Keep, TypeOK, KeyWhileHandled, PC, registryVars, chainVars
<1>4. CASE Release(r)
  <2>1. key[r] \in Keys /\ settled[r] \in BOOLEAN
    BY <1>4 DEF Release, TypeOK, KeyWhileHandled
  <2>2. entry' \in [Keys -> [state: {"none", "inFlight", "settled"}, expires: Nat]]
    BY <1>4, <2>1, RegistryType DEF Release, TypeOK
  <2> QED
    BY <1>4, <2>2, LeaveType DEF Release, TypeOK, chainVars, histVars
<1> QED
  BY <1>1, <1>2, <1>3, <1>4

LEMMA NextType == TypeInv /\ [Next]_vars => TypeInv'
<1> SUFFICES ASSUME TypeInv, [Next]_vars PROVE TypeInv'
  OBVIOUS
<1>1. ASSUME NEW r \in Requests, RequestStep(r) PROVE TypeInv'
  BY <1>1, ClaimStepType, AnswerStepType DEF RequestStep
<1>2. ASSUME NEW r \in Requests, Disconnect(r) PROVE TypeInv'
  BY <1>2
  DEF Disconnect, TypeInv, TypeOK, KeyWhileHandled, registryVars, chainVars, histVars
<1>3. ASSUME NEW k \in Keys, Mine(k) PROVE TypeInv'
  BY <1>3 DEF Mine, TypeInv, TypeOK, KeyWhileHandled, registryVars, histVars
<1>4. CASE Tick
  <2>1. now' \in Time
    BY <1>4, GateAssumption DEF Tick, TypeInv, TypeOK, Time
  <2> QED
    BY <1>4, <2>1
    DEF Tick, TypeInv, TypeOK, KeyWhileHandled, registryVars, chainVars, histVars
<1>5. CASE Restart
  BY <1>5, GateAssumption
  DEF Restart, TypeInv, TypeOK, KeyWhileHandled, NoEntry, PC, Modes, Time, chainVars
<1>6. CASE UNCHANGED vars
  BY <1>6 DEF vars, TypeInv, TypeOK, KeyWhileHandled, registryVars, chainVars, histVars
<1> QED
  BY <1>1, <1>2, <1>3, <1>4, <1>5, <1>6 DEF Next

(***************************************************************************)
(* Every variable of the gateway keeps its type: in particular a release   *)
(* is always for a key that was claimed, and expiry instants never wrap.   *)
(***************************************************************************)
THEOREM TypeCorrect == Spec => []TypeOK
<1>1. Spec => []TypeInv
  BY InitType, NextType, PTL DEF Spec
<1>2. TypeInv => TypeOK
  BY DEF TypeInv
<1> QED
  BY <1>1, <1>2, PTL

-----------------------------------------------------------------------------
(* One request per authorization *)

\* What the registry's operations do to keys in flight.
LEMMA RegistryInFlight ==
    ASSUME TypeOK, NEW k \in Keys
    PROVE  /\ \A j \in Keys \ {k} : ClaimTable(k)[j] = InFlight <=> entry[j] = InFlight
           /\ ~Blocked(k) => entry[k] # InFlight
           /\ \A b \in BOOLEAN : ReleasedEntry(k, b) # InFlight
<1>1. InFlight # NoEntry /\ InFlight.state = "inFlight" /\ \A t : InFlight # Until(t)
  BY DEF InFlight, NoEntry, Until
<1>2. \A j \in Keys \ {k} : ClaimTable(k)[j] = InFlight <=> entry[j] = InFlight
  BY <1>1 DEF ClaimTable, Swept, Lapsed, TypeOK
<1>3. ~Blocked(k) => entry[k] # InFlight
  BY <1>1 DEF Blocked, Lapsed
<1>4. \A b \in BOOLEAN : ReleasedEntry(k, b) # InFlight
  BY <1>1 DEF ReleasedEntry
<1> QED
  BY <1>2, <1>3, <1>4

\* Steps that leave the registry alone and move no request across the claim
\* or the release.
LEMMA ClaimsUntouched ==
    ASSUME OneRequestPerAuthorization, entry' = entry,
           \A r \in Requests :
              /\ pc'[r] \in Claimed <=> pc[r] \in Claimed
              /\ pc[r] \in Claimed => key'[r] = key[r]
    PROVE  OneRequestPerAuthorization'
BY DEF OneRequestPerAuthorization

LEMMA NextExclusive ==
    TypeInv /\ OneRequestPerAuthorization /\ [Next]_vars
        => OneRequestPerAuthorization'
<1> SUFFICES ASSUME TypeInv, OneRequestPerAuthorization, [Next]_vars
             PROVE  OneRequestPerAuthorization'
  OBVIOUS
<1>1. ASSUME NEW r \in Requests, RequestStep(r)
      PROVE  OneRequestPerAuthorization'
  <2>1. CASE \/ \E k \in Keys, m \in Modes : Receive(r, k, m)
             \/ VerifyValid(r) \/ VerifyRefused(r) \/ ClaimInUse(r)
    <3>1. /\ entry' = entry /\ pc[r] \notin Claimed
          /\ pc'[r] \in {"idle", "verifying", "verified"}
          /\ \A x \in Requests \ {r} : pc'[x] = pc[x] /\ key'[x] = key[x]
      BY <2>1 DEF Receive, VerifyValid, VerifyRefused, ClaimInUse, Leave, Goto,
                  Claimed, registryVars, TypeInv, TypeOK
    <3> QED
      BY <3>1, ClaimsUntouched DEF Claimed
  <2>2. CASE ClaimFull(r)
    <3>1. /\ key[r] \in Keys /\ ~Blocked(key[r]) /\ entry' = ClaimTable(key[r])
          /\ pc[r] \notin Claimed /\ pc'[r] \notin Claimed
          /\ \A x \in Requests \ {r} : pc'[x] = pc[x] /\ key'[x] = key[x]
      BY <2>2 DEF ClaimFull, Leave, Goto, Claimed, TypeInv, TypeOK, KeyWhileHandled
    <3>2. entry'[key[r]] # InFlight
      BY <3>1 DEF ClaimTable, Swept, TypeInv, TypeOK, NoEntry, InFlight
    <3>3. \A k \in Keys : entry'[k] = InFlight <=> entry[k] = InFlight
      BY <3>1, <3>2, RegistryInFlight DEF TypeInv
    <3> QED
      BY <3>1, <3>3 DEF OneRequestPerAuthorization
  <2>3. CASE ClaimOK(r)
    <3> DEFINE k == key[r]
    <3>1. /\ k \in Keys /\ ~Blocked(k)
          /\ entry' = [ClaimTable(k) EXCEPT ![k] = InFlight]
          /\ pc[r] \notin Claimed /\ pc'[r] \in Claimed /\ key' = key
          /\ \A x \in Requests \ {r} : pc'[x] = pc[x]
      BY <2>3 DEF ClaimOK, Goto, Claimed, TypeInv, TypeOK, KeyWhileHandled
    <3>2. ClaimTable(k) \in [Keys -> [state: {"none", "inFlight", "settled"},
                                      expires: Nat]]
      BY <3>1, RegistryType DEF TypeInv
    <3>3. /\ entry'[k] = InFlight
          /\ \A j \in Keys \ {k} : entry'[j] = InFlight <=> entry[j] = InFlight
      BY <3>1, <3>2, RegistryInFlight DEF TypeInv
    <3>4. ~\E x \in Requests : pc[x] \in Claimed /\ key[x] = k
      BY <3>1, RegistryInFlight DEF TypeInv, OneRequestPerAuthorization
    <3> QED
      BY <3>1, <3>3, <3>4 DEF OneRequestPerAuthorization
  <2>4. CASE Release(r)
    <3> DEFINE k == key[r]
    <3>1. /\ k \in Keys /\ settled[r] \in BOOLEAN
          /\ entry' = [entry EXCEPT ![k] = ReleasedEntry(k, settled[r])]
          /\ pc[r] \in Claimed /\ pc'[r] \notin Claimed
          /\ \A x \in Requests \ {r} : pc'[x] = pc[x] /\ key'[x] = key[x]
      BY <2>4 DEF Release, Leave, Goto, Claimed, TypeInv, TypeOK, KeyWhileHandled
    <3>2. /\ entry'[k] # InFlight
          /\ \A j \in Keys \ {k} : entry'[j] = entry[j]
      BY <3>1, RegistryInFlight DEF TypeInv, TypeOK
    <3>3. ~\E x \in Requests \ {r} : pc[x] \in Claimed /\ key[x] = k
      BY <3>1 DEF OneRequestPerAuthorization
    <3> QED
      BY <3>1, <3>2, <3>3 DEF OneRequestPerAuthorization
  <2>5. CASE \/ UpstreamError(r) \/ ForwardAuthAllows(r)
             \/ UpstreamStreams(r) \/ UpstreamAnswers(r)
             \/ BufferedHasValue(r) \/ BufferedNoValue(r)
             \/ StreamSkipped(r) \/ StreamDelivered(r)
             \/ SettleSkipped(r) \/ SettleSucceeds(r)
             \/ SettleErrorWithTx(r) \/ SettleFails(r)
             \/ SendBody(r) \/ Abort(r)
    <3>1. /\ entry' = entry /\ key' = key
          /\ pc[r] \in Claimed /\ pc'[r] \in Claimed
          /\ \A x \in Requests \ {r} : pc'[x] = pc[x]
      BY <2>5
      DEF UpstreamError, ForwardAuthAllows, UpstreamStreams, UpstreamAnswers,
          BufferedHasValue, BufferedNoValue, StreamSkipped, StreamDelivered,
          SettleSkipped, SettleSucceeds, SettleErrorWithTx, SettleFails,
          SendBody, Abort, Settling, Goto, Keep, Claimed, registryVars,
          TypeInv, TypeOK
    <3> QED
      BY <3>1, ClaimsUntouched
  <2> QED
    BY <1>1, <2>1, <2>2, <2>3, <2>4, <2>5 DEF RequestStep
<1>2. CASE \/ \E r \in Requests : Disconnect(r)
           \/ \E k \in Keys : Mine(k)
           \/ Tick \/ UNCHANGED vars
  <2>1. UNCHANGED <<entry, pc, key>>
    BY <1>2 DEF Disconnect, Mine, Tick, vars, registryVars
  <2> QED
    BY <2>1, ClaimsUntouched
<1>3. CASE Restart
  <2>1. /\ \A k \in Keys : entry'[k] # InFlight
        /\ \A r \in Requests : pc'[r] \notin Claimed
    BY <1>3 DEF Restart, NoEntry, InFlight, Claimed
  <2> QED
    BY <2>1 DEF OneRequestPerAuthorization
<1> QED
  BY <1>1, <1>2, <1>3 DEF Next

LEMMA InitExclusive == Init => OneRequestPerAuthorization
BY DEF Init, OneRequestPerAuthorization, NoEntry, InFlight, Claimed

(***************************************************************************)
(* At most one request is served for an authorization at a time, and a key *)
(* is in flight exactly while the request that claimed it is, for any      *)
(* number of requests and any bounds of the registry.                      *)
(***************************************************************************)
THEOREM RegistryExclusive == Spec => []OneRequestPerAuthorization
<1>1. Spec => []TypeInv
  BY InitType, NextType, PTL DEF Spec
<1> QED
  BY <1>1, InitExclusive, NextExclusive, PTL DEF Spec

-----------------------------------------------------------------------------
(* The bound on the registry *)

\* Finiteness comes with the bound: Keys itself may be infinite.
Bounded == IsFiniteSet(Tracked(entry)) /\ RegistryBounded

LEMMA NextBounded ==
    TypeInv /\ OneRequestPerAuthorization /\ Bounded /\ [Next]_vars => Bounded'
<1> SUFFICES ASSUME TypeInv, OneRequestPerAuthorization, Bounded, [Next]_vars
             PROVE  Bounded'
  OBVIOUS
<1> USE DEF Bounded, RegistryBounded
<1>0. MaxEntries \in Nat \ {0} /\ Cardinality(Tracked(entry)) \in Nat
  BY GateAssumption, FS_CardinalityType
<1>1. ASSUME NEW S \in SUBSET Tracked(entry), Tracked(entry') = S
      PROVE  Bounded'
  <2>1. IsFiniteSet(S) /\ Cardinality(S) <= Cardinality(Tracked(entry))
    BY FS_Subset
  <2>2. Cardinality(S) \in Nat
    BY <2>1, FS_CardinalityType
  <2> QED
    BY <1>0, <1>1, <2>1, <2>2
<1>2. ASSUME NEW k \in Keys
      PROVE  Tracked(ClaimTable(k)) \subseteq Tracked(entry)
  BY DEF ClaimTable, Swept, Tracked, TypeInv, TypeOK
<1>3. ASSUME NEW r \in Requests, ClaimFull(r) PROVE Bounded'
  <2>1. key[r] \in Keys /\ entry' = ClaimTable(key[r])
    BY <1>3 DEF ClaimFull, TypeInv, TypeOK, KeyWhileHandled
  <2> QED
    BY <1>1, <1>2, <2>1
<1>4. ASSUME NEW r \in Requests, ClaimOK(r) PROVE Bounded'
  <2> DEFINE k == key[r]
             T == Tracked(ClaimTable(k))
  <2>1. /\ k \in Keys /\ ~Full(ClaimTable(k))
        /\ entry' = [ClaimTable(k) EXCEPT ![k] = InFlight]
    BY <1>4 DEF ClaimOK, TypeInv, TypeOK, KeyWhileHandled
  <2>2. ClaimTable(k) \in [Keys -> [state: {"none", "inFlight", "settled"},
                                    expires: Nat]]
    BY <2>1, RegistryType DEF TypeInv
  <2>3. Tracked(entry') = T \cup {k}
    BY <2>1, <2>2 DEF Tracked, InFlight, NoEntry
  <2>4. IsFiniteSet(T) /\ Cardinality(T) \in Nat
    BY <1>2, <2>1, FS_Subset, FS_CardinalityType
  <2>5. Cardinality(T) < MaxEntries
    BY <1>0, <2>1, <2>4 DEF Full
  <2> HIDE DEF T
  <2>6. /\ IsFiniteSet(T \cup {k})
        /\ Cardinality(T \cup {k}) <= Cardinality(T) + 1
    <3>1. /\ IsFiniteSet(T \cup {k})
          /\ Cardinality(T \cup {k}) =
                IF k \in T THEN Cardinality(T) ELSE Cardinality(T) + 1
      BY <2>4, FS_AddElement
    <3> QED
      BY <2>4, <3>1
  <2>7. Cardinality(T \cup {k}) \in Nat
    BY <2>6, FS_CardinalityType
  <2> QED
    BY <1>0, <2>3, <2>4, <2>5, <2>6, <2>7
<1>5. ASSUME NEW r \in Requests, Release(r) PROVE Bounded'
  <2> DEFINE k == key[r]
  <2>1. /\ k \in Keys /\ pc[r] \in Claimed
        /\ entry' = [entry EXCEPT ![k] = ReleasedEntry(k, settled[r])]
    BY <1>5 DEF Release, Claimed, TypeInv, TypeOK, KeyWhileHandled
  <2>2. entry[k] = InFlight
    BY <2>1 DEF OneRequestPerAuthorization
  <2>3. k \in Tracked(entry)
    BY <2>1, <2>2 DEF Tracked, InFlight, NoEntry
  <2>4. Tracked(entry') \subseteq Tracked(entry)
    BY <2>1, <2>3 DEF Tracked, TypeInv, TypeOK
  <2> QED
    BY <1>1, <2>4
<1>6. ASSUME entry' = entry PROVE Bounded'
  BY <1>6
<1>7. CASE Restart
  <2>1. Tracked(entry') = {}
    BY <1>7 DEF Restart, Tracked
  <2> QED
    BY <1>1, <2>1
<1>8. ASSUME NEW r \in Requests, RequestStep(r),
             ~ClaimFull(r), ~ClaimOK(r), ~Release(r)
      PROVE  entry' = entry
  BY <1>8
  DEF RequestStep, Receive, VerifyValid, VerifyRefused, ClaimInUse,
      UpstreamError, ForwardAuthAllows, UpstreamStreams, UpstreamAnswers,
      BufferedHasValue, BufferedNoValue, StreamSkipped, StreamDelivered,
      SettleSkipped, SettleSucceeds, SettleErrorWithTx, SettleFails,
      SendBody, Abort, registryVars
<1>9. CASE \/ \E r \in Requests : Disconnect(r)
           \/ \E k \in Keys : Mine(k)
           \/ Tick \/ UNCHANGED vars
  <2>1. entry' = entry
    BY <1>9 DEF Disconnect, Mine, Tick, vars, registryVars
  <2> QED
    BY <1>6, <2>1
<1> QED
  BY <1>3, <1>4, <1>5, <1>6, <1>7, <1>8, <1>9 DEF Next

(***************************************************************************)
(* The registry never tracks more keys than its bound: release may add a   *)
(* settled entry without looking at the bound because the key was in       *)
(* flight, and so already counted.                                         *)
(***************************************************************************)
THEOREM RegistryStaysBounded == Spec => []RegistryBounded
<1>1. Init => Bounded
  <2> SUFFICES ASSUME Init PROVE Bounded
    OBVIOUS
  <2>1. Tracked(entry) = {}
    BY DEF Init, Tracked
  <2> QED
    BY <2>1, FS_EmptySet, GateAssumption DEF Bounded, RegistryBounded
<1>2. Spec => []TypeInv
  BY InitType, NextType, PTL DEF Spec
<1>3. Spec => []Bounded
  BY <1>1, <1>2, RegistryExclusive, NextBounded, PTL DEF Spec
<1>4. Bounded => RegistryBounded
  BY DEF Bounded
<1> QED
  BY <1>3, <1>4, PTL

-----------------------------------------------------------------------------
(* Charging and delivering *)

(***************************************************************************)
(* A request that settles has earned the charge; a held body is sent only  *)
(* after its own settlement, which the chain allows once.                  *)
(***************************************************************************)
Charged ==
    /\ NeverChargedForNothing
    /\ \A r \in Requests : pc[r] \in Settling => key[r] \in earned

Delivered ==
    /\ \A k \in Keys : chain[k] = "unused" => bodies[k] = 0
    /\ \A r \in Requests :
          pc[r] = "sending" => chain[key[r]] # "unused" /\ bodies[key[r]] = 0
    /\ \A r1, r2 \in Requests :
          pc[r1] = "sending" /\ pc[r2] = "sending" /\ key[r1] = key[r2] => r1 = r2
    /\ AtMostOneHeldBody

\* The steps that neither settle, nor send, nor decide to do so.
Quiet(r) ==
    \/ \E k \in Keys, m \in Modes : Receive(r, k, m)
    \/ VerifyValid(r) \/ VerifyRefused(r)
    \/ ClaimInUse(r) \/ ClaimFull(r) \/ ClaimOK(r)
    \/ UpstreamError(r) \/ ForwardAuthAllows(r) \/ UpstreamStreams(r)
    \/ BufferedNoValue(r) \/ StreamSkipped(r) \/ SettleSkipped(r)
    \/ Abort(r) \/ Release(r)

LEMMA QuietStep ==
    ASSUME TypeInv, NEW r \in Requests, Quiet(r)
    PROVE  /\ UNCHANGED <<chain, earned, bodies>>
           /\ pc'[r] \notin Settling \cup {"sending"}
           /\ \A x \in Requests \ {r} : pc'[x] = pc[x] /\ key'[x] = key[x]
<1>1. CASE \/ \E k \in Keys, m \in Modes : Receive(r, k, m)
           \/ VerifyValid(r) \/ VerifyRefused(r)
           \/ ClaimInUse(r) \/ ClaimFull(r) \/ ClaimOK(r) \/ Release(r)
  BY <1>1
  DEF Receive, VerifyValid, VerifyRefused, ClaimInUse, ClaimFull, ClaimOK, Release,
      Leave, Goto, Settling, chainVars, histVars, TypeInv, TypeOK
<1>2. CASE \/ UpstreamError(r) \/ ForwardAuthAllows(r) \/ UpstreamStreams(r)
           \/ BufferedNoValue(r) \/ StreamSkipped(r) \/ SettleSkipped(r) \/ Abort(r)
  BY <1>2
  DEF UpstreamError, ForwardAuthAllows, UpstreamStreams, BufferedNoValue,
      StreamSkipped, SettleSkipped, Abort, Keep, Goto, Settling, chainVars,
      histVars, TypeInv, TypeOK
<1> QED
  BY <1>1, <1>2 DEF Quiet

\* The environment's steps charge nothing and send nothing.
LEMMA EnvironmentStep ==
    ASSUME TypeInv,
           \/ \E r \in Requests : Disconnect(r)
           \/ \E k \in Keys : Mine(k)
           \/ Tick \/ Restart \/ UNCHANGED vars
    PROVE  /\ UNCHANGED <<earned, bodies>>
           /\ \A k \in Keys : chain'[k] = "unused" <=> chain[k] = "unused"
           /\ \A r \in Requests :
                 pc'[r] # "idle" => pc'[r] = pc[r] /\ key'[r] = key[r]
<1>1. CASE \E k \in Keys : Mine(k)
  BY <1>1 DEF Mine, histVars, TypeInv, TypeOK
<1>2. CASE (\E r \in Requests : Disconnect(r)) \/ Tick \/ Restart \/ UNCHANGED vars
  BY <1>2 DEF Disconnect, Tick, Restart, vars, chainVars, histVars
<1> QED
  BY <1>1, <1>2

LEMMA NextCharged == TypeInv /\ Charged /\ [Next]_vars => Charged'
<1> SUFFICES ASSUME TypeInv, Charged, [Next]_vars PROVE Charged'
  OBVIOUS
<1> USE DEF Charged, NeverChargedForNothing
<1>1. ASSUME NEW r \in Requests, RequestStep(r) PROVE Charged'
  <2>1. CASE Quiet(r)
    BY <2>1, QuietStep
  <2>2. CASE UpstreamAnswers(r) \/ BufferedHasValue(r) \/ StreamDelivered(r)
    <3>1. /\ UNCHANGED <<chain, key>>
          /\ earned \subseteq earned'
          /\ pc'[r] \in Settling => key[r] \in earned'
          /\ \A x \in Requests \ {r} : pc'[x] = pc[x]
      BY <2>2 DEF UpstreamAnswers, BufferedHasValue, StreamDelivered, Goto, Keep,
                  Settling, chainVars, TypeInv, TypeOK
    <3> QED
      BY <3>1
  <2>3. CASE SettleSucceeds(r) \/ SettleErrorWithTx(r) \/ SettleFails(r)
    <3>1. /\ UNCHANGED <<key, earned>> /\ pc[r] \in Settling
          /\ pc'[r] \notin Settling
          /\ \A k \in Keys \ {key[r]} : chain'[k] = chain[k]
          /\ \A x \in Requests \ {r} : pc'[x] = pc[x]
      BY <2>3 DEF SettleSucceeds, SettleErrorWithTx, SettleFails, FacilitatorSubmits,
                  Goto, Keep, Settling, chainVars, histVars, TypeInv, TypeOK
    <3> QED
      BY <3>1
  <2>4. CASE SendBody(r)
    <3>1. /\ UNCHANGED <<key, earned, chain>> /\ pc'[r] \notin Settling
          /\ \A x \in Requests \ {r} : pc'[x] = pc[x]
      BY <2>4 DEF SendBody, Goto, Keep, Settling, chainVars, TypeInv, TypeOK
    <3> QED
      BY <3>1
  <2> QED
    BY <1>1, <2>1, <2>2, <2>3, <2>4 DEF RequestStep, Quiet
<1>2. CASE \/ \E r \in Requests : Disconnect(r)
           \/ \E k \in Keys : Mine(k)
           \/ Tick \/ Restart \/ UNCHANGED vars
  BY <1>2, EnvironmentStep DEF Settling
<1> QED
  BY <1>1, <1>2 DEF Next

(***************************************************************************)
(* No authorization is settled for an answer that did not justify it, in   *)
(* any interleaving of requests that carry the same authorization.         *)
(***************************************************************************)
THEOREM VerifyIsNotCharge == Spec => []NeverChargedForNothing
<1>1. Init => Charged
  BY DEF Init, Charged, NeverChargedForNothing, Settling
<1>2. Spec => []TypeInv
  BY InitType, NextType, PTL DEF Spec
<1>3. Spec => []Charged
  BY <1>1, <1>2, NextCharged, PTL DEF Spec
<1>4. Charged => NeverChargedForNothing
  BY DEF Charged
<1> QED
  BY <1>3, <1>4, PTL

LEMMA NextDelivered == TypeInv /\ Delivered /\ [Next]_vars => Delivered'
<1> SUFFICES ASSUME TypeInv, Delivered, [Next]_vars PROVE Delivered'
  OBVIOUS
<1> USE DEF Delivered, AtMostOneHeldBody
<1>1. ASSUME NEW r \in Requests, RequestStep(r) PROVE Delivered'
  <2>1. CASE Quiet(r)
    BY <2>1, QuietStep
  <2>2. CASE UpstreamAnswers(r) \/ BufferedHasValue(r) \/ StreamDelivered(r)
    <3>1. /\ UNCHANGED <<chain, key, bodies>> /\ pc'[r] # "sending"
          /\ \A x \in Requests \ {r} : pc'[x] = pc[x]
      BY <2>2 DEF UpstreamAnswers, BufferedHasValue, StreamDelivered, Goto, Keep,
                  chainVars, TypeInv, TypeOK
    <3> QED
      BY <3>1
  <2>3. CASE SettleSucceeds(r)
    <3>1. /\ key[r] \in Keys /\ chain[key[r]] = "unused"
          /\ UNCHANGED <<key, bodies>>
          /\ chain' = [chain EXCEPT ![key[r]] = "submitted"]
          /\ \A x \in Requests \ {r} : pc'[x] = pc[x]
      BY <2>3 DEF SettleSucceeds, CanSubmit, FacilitatorSubmits, Goto, Settling,
                  TypeInv, TypeOK, KeyWhileHandled
    <3>2. /\ chain'[key[r]] # "unused"
          /\ \A k \in Keys \ {key[r]} : chain'[k] = chain[k]
      BY <3>1 DEF TypeInv, TypeOK
    <3>3. \A x \in Requests : pc[x] = "sending" => key[x] # key[r]
      BY <3>1
    <3>4. \A x \in Requests : pc[x] = "sending" => key[x] \in Keys
      BY DEF TypeInv, TypeOK, KeyWhileHandled
    <3> QED
      BY <3>1, <3>2, <3>3, <3>4
  <2>4. CASE SettleErrorWithTx(r) \/ SettleFails(r)
    <3>1. /\ UNCHANGED <<key, bodies>> /\ pc'[r] # "sending"
          /\ \A x \in Requests \ {r} : pc'[x] = pc[x]
          /\ \/ chain' = chain
             \/ chain' = [chain EXCEPT ![key[r]] = "submitted"]
      BY <2>4 DEF SettleErrorWithTx, SettleFails, FacilitatorSubmits, Goto, Keep,
                  chainVars, histVars, TypeInv, TypeOK
    <3>2. \A k \in Keys : chain'[k] = chain[k] \/ chain'[k] = "submitted"
      BY <3>1 DEF TypeInv, TypeOK
    <3>3. \A x \in Requests : pc[x] = "sending" => key[x] \in Keys
      BY DEF TypeInv, TypeOK, KeyWhileHandled
    <3> QED
      BY <3>1, <3>2, <3>3
  <2>5. CASE SendBody(r)
    <3>1. /\ key[r] \in Keys /\ pc[r] = "sending" /\ pc'[r] # "sending"
          /\ UNCHANGED <<key, chain>>
          /\ \A x \in Requests \ {r} : pc'[x] = pc[x]
          /\ bodies' = [bodies EXCEPT ![key[r]] = IF @ < 2 THEN @ + 1 ELSE 2]
      BY <2>5 DEF SendBody, Goto, Keep, chainVars, TypeInv, TypeOK, KeyWhileHandled
    <3>2. /\ bodies'[key[r]] = 1
          /\ \A k \in Keys \ {key[r]} : bodies'[k] = bodies[k]
      BY <3>1 DEF TypeInv, TypeOK
    <3>3. \A x \in Requests \ {r} : pc[x] = "sending" =>
             key[x] # key[r] /\ key[x] \in Keys
      BY <3>1 DEF TypeInv, TypeOK, KeyWhileHandled
    <3> QED
      BY <3>1, <3>2, <3>3
  <2> QED
    BY <1>1, <2>1, <2>2, <2>3, <2>4, <2>5 DEF RequestStep, Quiet
<1>2. CASE \/ \E r \in Requests : Disconnect(r)
           \/ \E k \in Keys : Mine(k)
           \/ Tick \/ Restart \/ UNCHANGED vars
  <2>1. /\ bodies' = bodies
        /\ \A k \in Keys : chain'[k] = "unused" <=> chain[k] = "unused"
        /\ \A r \in Requests :
              pc'[r] # "idle" => pc'[r] = pc[r] /\ key'[r] = key[r]
    BY <1>2, EnvironmentStep
  <2>2. \A x \in Requests : pc[x] = "sending" => key[x] \in Keys
    BY DEF TypeInv, TypeOK, KeyWhileHandled
  <2> QED
    BY <2>1, <2>2
<1> QED
  BY <1>1, <1>2 DEF Next

(***************************************************************************)
(* A body that is held until settlement is delivered at most once per      *)
(* authorization, across restarts of the gateway and settlements that      *)
(* landed unseen.                                                          *)
(***************************************************************************)
THEOREM HeldBodySentOnce == Spec => []AtMostOneHeldBody
<1>1. Init => Delivered
  BY DEF Init, Delivered, AtMostOneHeldBody
<1>2. Spec => []TypeInv
  BY InitType, NextType, PTL DEF Spec
<1>3. Spec => []Delivered
  BY <1>1, <1>2, NextDelivered, PTL DEF Spec
<1>4. Delivered => AtMostOneHeldBody
  BY DEF Delivered
<1> QED
  BY <1>3, <1>4, PTL

-----------------------------------------------------------------------------
(* Authorizations with a receipt *)

\* A verify answer is used within VerifyTimeout, and a settlement is visible to
\* verify after MineDelay: so an answer in use was given at most MineDelay after
\* the settlement, if there is one.
Clocks ==
    /\ \A k \in Keys :
          /\ chain[k] # "unused" => submittedAt[k] <= now
          /\ chain[k] = "submitted" => now <= submittedAt[k] + MineDelay
    /\ \A r \in Requests :
          pc[r] = "verified" =>
             /\ verifiedAt[r] <= now /\ now <= verifiedAt[r] + VerifyTimeout
             /\ chain[key[r]] # "unused" =>
                   verifiedAt[r] <= submittedAt[key[r]] + MineDelay

PastDeadline(k) == Deadline[k] # 0 /\ now >= Deadline[k]

\* What stands between a settled authorization and another claim: its deadline,
\* the chain, the request that still holds it, or its entry in the registry.
Barred(k) ==
    \/ PastDeadline(k)
    \/ now >= submittedAt[k] + SettledCap
    \/ /\ entry[k] = InFlight
       /\ \A r \in Requests : pc[r] \in Claimed /\ key[r] = k => settled[r]
    \/ /\ entry[k].state = "settled"
       /\ \/ entry[k].expires >= submittedAt[k] + SettledCap
          \/ Deadline[k] # 0 /\ entry[k].expires = Deadline[k]

Receipts == \A k \in receipted : chain[k] # "unused" /\ Barred(k)

\* The settlements a step submits are new, and of this instant.
LEMMA SubmittedOnce ==
    ASSUME TypeInv, [Next]_vars, NEW k \in Keys
    PROVE  /\ chain[k] # "unused" => chain'[k] # "unused" /\ submittedAt'[k] = submittedAt[k]
           /\ chain[k] = "unused" /\ chain'[k] # "unused" =>
                 submittedAt'[k] = now /\ now' = now /\ chain'[k] = "submitted"
           /\ chain'[k] = "submitted" => chain[k] \in {"unused", "submitted"}
<1>1. ASSUME NEW r \in Requests, RequestStep(r)
      PROVE  /\ now' = now
             /\ \/ UNCHANGED chainVars
                \/ CanSubmit(key[r]) /\ FacilitatorSubmits(key[r])
  BY <1>1
  DEF RequestStep, Receive, VerifyValid, VerifyRefused, ClaimInUse, ClaimFull,
      ClaimOK, UpstreamError, ForwardAuthAllows, UpstreamStreams, UpstreamAnswers,
      BufferedHasValue, BufferedNoValue, StreamSkipped, StreamDelivered,
      SettleSkipped, SettleSucceeds, SettleErrorWithTx, SettleFails, SendBody,
      Abort, Release
<1>2. CASE \E r \in Requests : RequestStep(r)
  BY <1>1, <1>2 DEF CanSubmit, FacilitatorSubmits, chainVars, TypeInv, TypeOK
<1>3. CASE \E j \in Keys : Mine(j)
  BY <1>3 DEF Mine, TypeInv, TypeOK
<1>4. CASE (\E r \in Requests : Disconnect(r)) \/ Tick \/ Restart \/ UNCHANGED vars
  <2>1. UNCHANGED chainVars
    BY <1>4 DEF Disconnect, Tick, Restart, vars
  <2> QED
    BY <2>1 DEF chainVars
<1> QED
  BY <1>2, <1>3, <1>4 DEF Next

LEMMA NextClocks == TypeInv /\ Clocks /\ [Next]_vars => Clocks'
<1> SUFFICES ASSUME TypeInv, Clocks, [Next]_vars PROVE Clocks'
  OBVIOUS
<1>0. /\ now \in Nat /\ {MineDelay, VerifyTimeout} \subseteq Nat
      /\ \A k \in Keys : submittedAt[k] \in Nat
      /\ \A r \in Requests : verifiedAt[r] \in Nat /\ (pc[r] = "verified" => key[r] \in Keys)
  BY GateAssumption DEF TypeInv, TypeOK, KeyWhileHandled, Time
<1>1. CASE Tick
  <2>1. /\ now' = now + 1 /\ UNCHANGED <<chain, submittedAt, pc, key, verifiedAt>>
        /\ \A r \in Requests : pc[r] = "verified" => now < verifiedAt[r] + VerifyTimeout
        /\ \A k \in Keys : chain[k] = "submitted" => now < submittedAt[k] + MineDelay
    BY <1>1 DEF Tick, chainVars
  <2> QED
    BY <1>0, <2>1 DEF Clocks
<1>2. CASE now' = now
  <2>1. \A k \in Keys :
          /\ chain'[k] # "unused" => submittedAt'[k] <= now'
          /\ chain'[k] = "submitted" => now' <= submittedAt'[k] + MineDelay
    BY <1>0, <1>2, SubmittedOnce DEF Clocks
  <2>2. ASSUME NEW r \in Requests, pc'[r] = "verified"
        PROVE  /\ key'[r] = key[r] /\ key[r] \in Keys
               /\ \/ pc[r] = "verified" /\ verifiedAt'[r] = verifiedAt[r]
                  \/ chain[key[r]] # "used" /\ verifiedAt'[r] = now /\ chain' = chain
    <3>1. ASSUME NEW x \in Requests, RequestStep(x), ~VerifyValid(x)
          PROVE  /\ pc'[x] # "verified"
                 /\ \A y \in Requests \ {x} : pc'[y] = pc[y] /\ key'[y] = key[y]
                                              /\ verifiedAt'[y] = verifiedAt[y]
      BY <3>1
      DEF RequestStep, Receive, VerifyRefused, ClaimInUse, ClaimFull,
          ClaimOK, UpstreamError, ForwardAuthAllows, UpstreamStreams, UpstreamAnswers,
          BufferedHasValue, BufferedNoValue, StreamSkipped, StreamDelivered,
          SettleSkipped, SettleSucceeds, SettleErrorWithTx, SettleFails, SendBody,
          Abort, Release, Leave, Keep, Goto, TypeInv, TypeOK
    <3>2. CASE \E x \in Requests : RequestStep(x) /\ ~VerifyValid(x)
      BY <1>0, <2>2, <3>1, <3>2
    <3>3. ASSUME NEW x \in Requests, VerifyValid(x)
          PROVE  /\ chain[key[x]] # "used" /\ verifiedAt'[x] = now /\ chain' = chain
                 /\ pc[x] = "verifying" /\ key' = key
                 /\ \A y \in Requests \ {x} : pc'[y] = pc[y]
                                              /\ verifiedAt'[y] = verifiedAt[y]
      BY <3>3 DEF VerifyValid, Goto, chainVars, TypeInv, TypeOK
    <3>4. CASE \E x \in Requests : VerifyValid(x)
      <4>1. PICK x \in Requests : VerifyValid(x)
        BY <3>4
      <4>2. key[x] \in Keys
        BY <3>3, <4>1 DEF TypeInv, TypeOK, KeyWhileHandled
      <4> QED
        BY <1>0, <2>2, <3>3, <4>1, <4>2
    <3>5. CASE \/ \E x \in Requests : Disconnect(x)
               \/ \E j \in Keys : Mine(j)
               \/ Tick \/ Restart \/ UNCHANGED vars
      BY <1>0, <2>2, <3>5 DEF Disconnect, Mine, Tick, Restart, vars
    <3> QED
      BY <3>2, <3>4, <3>5 DEF Next
  <2>3. ASSUME NEW r \in Requests, pc'[r] = "verified"
        PROVE  /\ verifiedAt'[r] <= now' /\ now' <= verifiedAt'[r] + VerifyTimeout
               /\ chain'[key'[r]] # "unused" =>
                     verifiedAt'[r] <= submittedAt'[key'[r]] + MineDelay
    <3>1. /\ key'[r] = key[r] /\ key[r] \in Keys
          /\ \/ pc[r] = "verified" /\ verifiedAt'[r] = verifiedAt[r]
             \/ chain[key[r]] # "used" /\ verifiedAt'[r] = now /\ chain' = chain
      BY <2>2, <2>3
    <3>2. CASE pc[r] = "verified" /\ verifiedAt'[r] = verifiedAt[r]
      BY <1>0, <1>2, <3>1, <3>2, SubmittedOnce DEF Clocks
    <3>3. CASE chain[key[r]] # "used" /\ verifiedAt'[r] = now /\ chain' = chain
      <4>1. chain[key[r]] # "unused" => chain[key[r]] = "submitted"
        BY <3>1, <3>3 DEF TypeInv, TypeOK
      <4> QED
        BY <1>0, <1>2, <3>1, <3>3, <4>1, SubmittedOnce DEF Clocks
    <3> QED
      BY <3>1, <3>2, <3>3
  <2> QED
    BY <2>1, <2>3 DEF Clocks
<1>3. Tick \/ now' = now
  <2>1. ASSUME NEW r \in Requests, RequestStep(r) PROVE now' = now
    BY <2>1
    DEF RequestStep, Receive, VerifyValid, VerifyRefused, ClaimInUse, ClaimFull,
        ClaimOK, UpstreamError, ForwardAuthAllows, UpstreamStreams, UpstreamAnswers,
        BufferedHasValue, BufferedNoValue, StreamSkipped, StreamDelivered,
        SettleSkipped, SettleSucceeds, SettleErrorWithTx, SettleFails, SendBody,
        Abort, Release
  <2> QED
    BY <2>1 DEF Next, Disconnect, Mine, Restart, vars
<1> QED
  BY <1>1, <1>2, <1>3

\* While an answer in use was given before the settlement could be seen, the
\* cap on settled entries has not run out.
LEMMA CapOutlastsVerify ==
    ASSUME TypeInv, Clocks, NEW r \in Requests, pc[r] = "verified",
           chain[key[r]] # "unused"
    PROVE  now < submittedAt[key[r]] + SettledCap
<1>1. /\ now \in Nat /\ {MineDelay, VerifyTimeout, SettledCap} \subseteq Nat
      /\ key[r] \in Keys
      /\ submittedAt[key[r]] \in Nat /\ verifiedAt[r] \in Nat
      /\ MineDelay + VerifyTimeout < SettledCap
  BY GateAssumption DEF TypeInv, TypeOK, KeyWhileHandled, Time
<1> QED
  BY <1>1 DEF Clocks

LEMMA NextReceipts ==
    TypeInv /\ OneRequestPerAuthorization /\ Clocks /\ Receipts /\ [Next]_vars
    => Receipts'
<1> SUFFICES ASSUME TypeInv, OneRequestPerAuthorization, Clocks, Receipts, [Next]_vars,
                    NEW k \in receipted'
             PROVE  chain'[k] # "unused" /\ Barred(k)'
  BY DEF Receipts
<1>0. /\ now \in Nat /\ SettledCap \in Nat \ {0} /\ receipted \subseteq Keys
      /\ \A j \in Keys : submittedAt[j] \in Nat /\ Deadline[j] \in Nat
                         /\ entry[j].expires \in Nat
  BY GateAssumption DEF TypeInv, TypeOK, Time
<1>1. ASSUME NEW r \in Requests, SettleSucceeds(r) \/ SettleErrorWithTx(r),
             k = key[r]
      PROVE  chain'[k] # "unused" /\ Barred(k)'
  <2>1. /\ k \in Keys /\ pc[r] \in Claimed /\ entry' = entry /\ key' = key
        /\ pc'[r] \in Claimed /\ settled'[r] /\ chain'[k] = "submitted"
        /\ \A x \in Requests \ {r} : pc'[x] = pc[x]
    BY <1>1 DEF SettleSucceeds, SettleErrorWithTx, FacilitatorSubmits, Goto, Settling,
                Claimed, registryVars, TypeInv, TypeOK, KeyWhileHandled
  <2>2. entry[k] = InFlight
    BY <1>1, <2>1 DEF OneRequestPerAuthorization
  <2>3. \A x \in Requests : pc'[x] \in Claimed /\ key'[x] = k => x = r
    BY <1>1, <2>1 DEF OneRequestPerAuthorization
  <2> QED
    BY <2>1, <2>2, <2>3 DEF Barred
<1>2. CASE k \in receipted
  <2>1. /\ k \in Keys /\ chain[k] # "unused" /\ Barred(k)
        /\ chain'[k] # "unused" /\ submittedAt'[k] = submittedAt[k]
    BY <1>0, <1>2, SubmittedOnce DEF Receipts
  <2> SUFFICES Barred(k)'
    BY <2>1
  <2> USE <1>0, <2>1
  <2>2. ASSUME entry'[k] = entry[k], now' = now,
               \A r \in Requests : pc'[r] \in Claimed /\ key'[r] = k =>
                  pc[r] \in Claimed /\ key[r] = k /\ (settled[r] => settled'[r])
        PROVE  Barred(k)'
    BY <2>2 DEF Barred, PastDeadline
  <2>3. ASSUME NEW r \in Requests, ClaimFull(r) \/ ClaimOK(r) PROVE Barred(k)'
    <3>1. /\ key[r] \in Keys /\ now' = now /\ pc[r] = "verified" /\ ~Blocked(key[r])
          /\ \A x \in Requests \ {r} : pc'[x] = pc[x]
          /\ \A x \in Requests \ {r} : key'[x] = key[x] /\ settled'[x] = settled[x]
      BY <2>3 DEF ClaimFull, ClaimOK, Leave, Goto, TypeInv, TypeOK, KeyWhileHandled
    <3>2. CASE k = key[r]
      <4>1. entry[k] # InFlight
        BY <3>1, <3>2 DEF Blocked, Lapsed, InFlight, NoEntry
      <4>2. entry[k].state = "settled" => now >= entry[k].expires
        BY <3>1, <3>2 DEF Blocked, Lapsed, NoEntry
      <4>3. PastDeadline(k) \/ now >= submittedAt[k] + SettledCap
        BY <4>1, <4>2 DEF Barred, PastDeadline
      <4> QED
        BY <3>1, <4>3 DEF Barred, PastDeadline
    <3>3. CASE k # key[r]
      <4>1. entry'[k] = entry[k] \/ (entry'[k] = NoEntry /\ Lapsed(entry[k]))
        <5>1. ClaimTable(key[r])[k] \in {entry[k], NoEntry}
          BY <3>3 DEF ClaimTable, Swept, TypeInv, TypeOK
        <5>2. ClaimTable(key[r])[k] # entry[k] => Lapsed(entry[k])
          BY <3>3 DEF ClaimTable, Swept, TypeInv, TypeOK
        <5>3. entry'[k] = ClaimTable(key[r])[k]
          <6>1. CASE ClaimFull(r)
            BY <6>1 DEF ClaimFull
          <6>2. CASE ClaimOK(r)
            BY <3>1, <3>3, <6>2, RegistryType DEF ClaimOK, TypeInv
          <6> QED
            BY <2>3, <6>1, <6>2
        <5> QED
          BY <5>1, <5>2, <5>3
      <4>2. \A x \in Requests : pc'[x] \in Claimed /\ key'[x] = k =>
               pc[x] \in Claimed /\ key[x] = k /\ settled'[x] = settled[x]
        <5>1. ~(pc'[r] \in Claimed /\ key'[r] = k)
          BY <2>3, <3>3 DEF ClaimFull, ClaimOK, Leave, Goto, Claimed, TypeInv, TypeOK
        <5> QED
          BY <3>1, <5>1
      <4>3. CASE entry'[k] = entry[k]
        BY <2>2, <3>1, <4>2, <4>3
      <4>4. CASE Lapsed(entry[k])
        <5>1. PastDeadline(k) \/ now >= submittedAt[k] + SettledCap
          BY <4>4 DEF Lapsed, Barred, PastDeadline, InFlight
        <5> QED
          BY <3>1, <5>1 DEF Barred, PastDeadline
      <4> QED
        BY <4>1, <4>3, <4>4
    <3> QED
      BY <3>2, <3>3
  <2>4. ASSUME NEW r \in Requests, Release(r) PROVE Barred(k)'
    <3>1. /\ key[r] \in Keys /\ now' = now /\ pc[r] \in Claimed
          /\ entry' = [entry EXCEPT ![key[r]] = ReleasedEntry(key[r], settled[r])]
          /\ pc'[r] \notin Claimed
          /\ \A x \in Requests \ {r} :
                pc'[x] = pc[x] /\ key'[x] = key[x] /\ settled'[x] = settled[x]
      BY <2>4 DEF Release, Leave, Goto, Claimed, TypeInv, TypeOK, KeyWhileHandled
    <3>2. CASE k # key[r]
      BY <2>2, <3>1, <3>2 DEF TypeInv, TypeOK
    <3>3. CASE k = key[r]
      <4>1. entry[k] = InFlight
        BY <3>1, <3>3 DEF OneRequestPerAuthorization
      <4>2. CASE PastDeadline(k) \/ now >= submittedAt[k] + SettledCap
        BY <3>1, <4>2 DEF Barred, PastDeadline
      <4>3. CASE settled[r]
        <5>1. entry'[k] = ReleasedEntry(k, TRUE)
          BY <3>1, <3>3, <4>3 DEF TypeInv, TypeOK
        <5>2. submittedAt[k] <= now
          BY DEF Clocks
        <5>3. CASE Deadline[k] # 0 /\ Deadline[k] < now + SettledCap
          <6>1. BlockedUntil(k) = Deadline[k]
            BY <5>3 DEF BlockedUntil
          <6> QED
            BY <3>1, <5>1, <5>3, <6>1 DEF ReleasedEntry, Until, Barred, PastDeadline
        <5>4. CASE ~(Deadline[k] # 0 /\ Deadline[k] < now + SettledCap)
          <6>1. BlockedUntil(k) = now + SettledCap
            BY <5>4 DEF BlockedUntil
          <6> QED
            BY <3>1, <5>1, <5>2, <6>1 DEF ReleasedEntry, Until, Barred
        <5> QED
          BY <5>3, <5>4
      <4> QED
        BY <3>1, <3>3, <4>1, <4>2, <4>3 DEF Barred, InFlight
    <3> QED
      BY <3>2, <3>3
  <2>5. ASSUME NEW r \in Requests, RequestStep(r),
               ~ClaimFull(r), ~ClaimOK(r), ~Release(r)
        PROVE  Barred(k)'
    <3>1. entry' = entry /\ now' = now
      BY <2>5
      DEF RequestStep, Receive, VerifyValid, VerifyRefused, ClaimInUse,
          UpstreamError, ForwardAuthAllows, UpstreamStreams, UpstreamAnswers,
          BufferedHasValue, BufferedNoValue, StreamSkipped, StreamDelivered,
          SettleSkipped, SettleSucceeds, SettleErrorWithTx, SettleFails,
          SendBody, Abort, registryVars
    <3>2. \A x \in Requests \ {r} :
             pc'[x] = pc[x] /\ key'[x] = key[x] /\ settled'[x] = settled[x]
      BY <2>5
      DEF RequestStep, Receive, VerifyValid, VerifyRefused, ClaimInUse,
          UpstreamError, ForwardAuthAllows, UpstreamStreams, UpstreamAnswers,
          BufferedHasValue, BufferedNoValue, StreamSkipped, StreamDelivered,
          SettleSkipped, SettleSucceeds, SettleErrorWithTx, SettleFails,
          SendBody, Abort, Keep, Leave, Goto, TypeInv, TypeOK
    <3>3. pc'[r] \in Claimed =>
             pc[r] \in Claimed /\ key'[r] = key[r] /\ (settled[r] => settled'[r])
      BY <2>5
      DEF RequestStep, Receive, VerifyValid, VerifyRefused, ClaimInUse,
          UpstreamError, ForwardAuthAllows, UpstreamStreams, UpstreamAnswers,
          BufferedHasValue, BufferedNoValue, StreamSkipped, StreamDelivered,
          SettleSkipped, SettleSucceeds, SettleErrorWithTx, SettleFails,
          SendBody, Abort, Keep, Leave, Goto, Claimed, Settling, TypeInv, TypeOK
    <3> QED
      BY <2>2, <3>1, <3>2, <3>3
  <2>6. CASE (\E r \in Requests : Disconnect(r)) \/ (\E j \in Keys : Mine(j)) \/ UNCHANGED vars
    BY <2>2, <2>6 DEF Disconnect, Mine, vars, registryVars
  <2>7. CASE Tick
    <3>1. now' = now + 1 /\ UNCHANGED <<entry, pc, key, settled>>
      BY <2>7 DEF Tick, registryVars
    <3> QED
      BY <3>1 DEF Barred, PastDeadline
  <2>8. CASE Restart
    BY <2>8 DEF Restart
  <2> QED
    BY <2>3, <2>4, <2>5, <2>6, <2>7, <2>8 DEF Next
<1>3. CASE k \notin receipted
  <2>1. ASSUME NEW r \in Requests, RequestStep(r),
               ~SettleSucceeds(r), ~SettleErrorWithTx(r)
        PROVE  receipted' = receipted
    BY <2>1
    DEF RequestStep, Receive, VerifyValid, VerifyRefused, ClaimInUse, ClaimFull,
        ClaimOK, UpstreamError, ForwardAuthAllows, UpstreamStreams, UpstreamAnswers,
        BufferedHasValue, BufferedNoValue, StreamSkipped, StreamDelivered,
        SettleSkipped, SettleFails, SendBody, Abort, Release, histVars
  <2>2. ASSUME NEW r \in Requests, SettleSucceeds(r) \/ SettleErrorWithTx(r)
        PROVE  k = key[r]
    BY <1>3, <2>2 DEF SettleSucceeds, SettleErrorWithTx
  <2>3. CASE \/ \E r \in Requests : Disconnect(r)
             \/ \E j \in Keys : Mine(j)
             \/ Tick \/ Restart \/ UNCHANGED vars
    BY <1>3, <2>3 DEF Disconnect, Mine, Tick, Restart, vars, histVars
  <2> QED
    BY <1>1, <1>3, <2>1, <2>2, <2>3 DEF Next
<1> QED
  BY <1>2, <1>3

\* Only a claim takes a request from the verified state to the upstream.
LEMMA ForwardedByClaim ==
    ASSUME TypeInv, [Next]_vars, NEW r \in Requests,
           pc[r] = "verified", pc'[r] = "upstream"
    PROVE  ClaimOK(r)
<1>1. ASSUME NEW x \in Requests, RequestStep(x), ~ClaimOK(x)
      PROVE  pc'[x] # "upstream" /\ \A y \in Requests \ {x} : pc'[y] = pc[y]
  BY <1>1
  DEF RequestStep, Receive, VerifyValid, VerifyRefused, ClaimInUse, ClaimFull,
      UpstreamError, ForwardAuthAllows, UpstreamStreams, UpstreamAnswers,
      BufferedHasValue, BufferedNoValue, StreamSkipped, StreamDelivered,
      SettleSkipped, SettleSucceeds, SettleErrorWithTx, SettleFails, SendBody,
      Abort, Release, Leave, Goto, TypeInv, TypeOK
<1>2. ASSUME NEW x \in Requests, ClaimOK(x)
      PROVE  \A y \in Requests \ {x} : pc'[y] = pc[y]
  BY <1>2 DEF ClaimOK, Goto, TypeInv, TypeOK
<1>3. ~(\/ \E x \in Requests : Disconnect(x)
        \/ \E j \in Keys : Mine(j)
        \/ Tick \/ Restart \/ UNCHANGED vars)
  BY DEF Disconnect, Mine, Tick, Restart, vars
<1> QED
  BY <1>1, <1>2, <1>3 DEF Next

LEMMA ReceiptedClaim ==
    ASSUME TypeInv, OneRequestPerAuthorization, Clocks, Receipts,
           NEW r \in Requests, ClaimOK(r), key[r] \in receipted
    PROVE  PastDeadline(key[r])
<1>0. /\ now \in Nat /\ SettledCap \in Nat /\ key[r] \in Keys
      /\ submittedAt[key[r]] \in Nat /\ Deadline[key[r]] \in Nat
      /\ entry[key[r]].expires \in Nat
  BY GateAssumption DEF TypeInv, TypeOK, KeyWhileHandled, Time, ClaimOK
<1>1. /\ pc[r] = "verified" /\ chain[key[r]] # "unused" /\ Barred(key[r])
      /\ ~Blocked(key[r])
  BY DEF ClaimOK, Receipts
<1>2. now < submittedAt[key[r]] + SettledCap
  BY <1>1, CapOutlastsVerify
<1>3. entry[key[r]] # InFlight
  BY <1>1 DEF Blocked, Lapsed, InFlight, NoEntry
<1>4. entry[key[r]].state = "settled" => now >= entry[key[r]].expires
  BY <1>1 DEF Blocked, Lapsed, NoEntry
<1> QED
  BY <1>0, <1>1, <1>2, <1>3, <1>4 DEF Barred, PastDeadline

(***************************************************************************)
(* An authorization this process has a receipt for is forwarded again only *)
(* at or past its own deadline: until then either its entry bars it or the *)
(* chain does, because the cap on settled entries outlasts every verify    *)
(* answer given before the settlement was visible (GateAssumption).        *)
(***************************************************************************)
THEOREM ReceiptBarsUntilDeadline == Spec => ReceiptedForwardedOnlyPastDeadline
<1>1. Init => Clocks /\ Receipts
  BY DEF Init, Clocks, Receipts
<1>2. Spec => []TypeInv
  BY InitType, NextType, PTL DEF Spec
<1>3. Spec => [](Clocks /\ Receipts)
  BY <1>1, <1>2, RegistryExclusive, NextClocks, NextReceipts, PTL DEF Spec
<1>4. TypeInv /\ OneRequestPerAuthorization /\ Clocks /\ Receipts /\ [Next]_vars =>
        [\A r \in Requests :
            pc[r] = "verified" /\ pc'[r] = "upstream" /\ key[r] \in receipted
            => Deadline[key[r]] # 0 /\ now >= Deadline[key[r]]]_vars
  BY ForwardedByClaim, ReceiptedClaim DEF PastDeadline
<1> QED
  BY <1>2, <1>3, <1>4, RegistryExclusive, PTL
     DEF Spec, ReceiptedForwardedOnlyPastDeadline

-----------------------------------------------------------------------------
\* The gate implements PaidCalls.

\* servingNow, for any program counters and keys.
ServingIn(p, q) ==
    [k \in Keys |-> OneOf({r \in Requests : p[r] \in Claimed /\ q[r] = k})]

LEMMA ServingIs ==
    ASSUME NEW p, NEW q, NEW k \in Keys,
           \A r1, r2 \in Requests :
              p[r1] \in Claimed /\ p[r2] \in Claimed /\ q[r1] = q[r2] => r1 = r2
    PROVE  /\ \A r \in Requests : p[r] \in Claimed /\ q[r] = k => ServingIn(p, q)[k] = r
           /\ (\A r \in Requests : ~(p[r] \in Claimed /\ q[r] = k)) => ServingIn(p, q)[k] = NoKey
<1> DEFINE S == {r \in Requests : p[r] \in Claimed /\ q[r] = k}
<1>1. ServingIn(p, q)[k] = IF S = {} THEN NoKey ELSE CHOOSE r \in S : TRUE
  BY DEF ServingIn, OneOf
<1>2. ASSUME NEW r \in Requests, p[r] \in Claimed, q[r] = k
      PROVE  ServingIn(p, q)[k] = r
  <2>1. r \in S /\ \A x \in S : x = r
    BY <1>2
  <2>2. (CHOOSE x \in S : TRUE) \in S
    BY <2>1
  <2> HIDE DEF S
  <2> QED
    BY <1>1, <2>1, <2>2
<1> QED
  BY <1>1, <1>2

LEMMA SameServing ==
    ASSUME NEW p, NEW q, NEW pp, NEW qq,
           \A r \in Requests :
              /\ pp[r] \in Claimed <=> p[r] \in Claimed
              /\ p[r] \in Claimed => qq[r] = q[r]
    PROVE  ServingIn(pp, qq) = ServingIn(p, q)
<1>1. \A k : {r \in Requests : pp[r] \in Claimed /\ qq[r] = k}
               = {r \in Requests : p[r] \in Claimed /\ q[r] = k}
  OBVIOUS
<1> QED
  BY <1>1 DEF ServingIn

\* Both ends of a step that leaves the claims alone are served alike.
LEMMA ServingKept ==
    ASSUME \A r \in Requests :
              /\ pc'[r] \in Claimed <=> pc[r] \in Claimed
              /\ pc[r] \in Claimed => key'[r] = key[r]
    PROVE  servingNow' = servingNow
<1>1. servingNow = ServingIn(pc, key) /\ servingNow' = ServingIn(pc', key')
  BY DEF servingNow, Servers, ServingIn
<1> QED
  BY <1>1, SameServing

GateInv == TypeInv /\ OneRequestPerAuthorization /\ Charged /\ Delivered

LEMMA GateInvariant == Spec => []GateInv
<1>1. Init => GateInv
  BY InitType, InitExclusive
  DEF Init, GateInv, Charged, NeverChargedForNothing, Settling, Delivered, AtMostOneHeldBody
<1>2. GateInv /\ [Next]_vars => GateInv'
  BY NextType, NextExclusive, NextCharged, NextDelivered DEF GateInv
<1> QED
  BY <1>1, <1>2, PTL DEF Spec

-----------------------------------------------------------------------------
\* What serves a claimed request's authorization, before and after a step.
LEMMA Serving ==
    ASSUME GateInv, NEW r \in Requests, pc[r] \in Claimed
    PROVE  key[r] \in Keys /\ servingNow[key[r]] = r /\ r # NoKey
<1>1. key[r] \in Keys
  BY DEF GateInv, TypeInv, TypeOK, KeyWhileHandled, Claimed
<1>2. servingNow = ServingIn(pc, key)
  BY DEF servingNow, Servers, ServingIn
<1>3. \A r1, r2 \in Requests :
         pc[r1] \in Claimed /\ pc[r2] \in Claimed /\ key[r1] = key[r2] => r1 = r2
  BY DEF GateInv, OneRequestPerAuthorization
<1> QED
  BY <1>1, <1>2, <1>3, ServingIs, GateAssumption

LEMMA ClaimServes ==
    ASSUME GateInv, [Next]_vars, NEW r \in Requests, ClaimOK(r)
    PROVE  Calls!Serve(r, key[r])
<1> DEFINE k == key[r]
<1>1. /\ k \in Keys /\ ~Blocked(k) /\ key' = key
      /\ pc[r] \notin Claimed /\ pc'[r] \in Claimed
      /\ \A x \in Requests \ {r} : pc'[x] = pc[x]
      /\ UNCHANGED <<chain, earned, bodies>>
  BY DEF ClaimOK, Goto, Claimed, GateInv, TypeInv, TypeOK, KeyWhileHandled, chainVars, histVars
<1>2. \A x \in Requests : ~(pc[x] \in Claimed /\ key[x] = k)
  BY <1>1, RegistryInFlight DEF GateInv, TypeInv, OneRequestPerAuthorization
<1>3. /\ \A r1, r2 \in Requests :
            pc[r1] \in Claimed /\ pc[r2] \in Claimed /\ key[r1] = key[r2] => r1 = r2
      /\ \A r1, r2 \in Requests :
            pc'[r1] \in Claimed /\ pc'[r2] \in Claimed /\ key'[r1] = key'[r2] => r1 = r2
  BY NextExclusive DEF GateInv, OneRequestPerAuthorization
<1>4. servingNow = ServingIn(pc, key) /\ servingNow' = ServingIn(pc', key')
  BY DEF servingNow, Servers, ServingIn
<1>5. servingNow[k] = NoKey /\ servingNow'[k] = r
  <2>1. servingNow[k] = NoKey
    BY <1>1, <1>2, <1>3, <1>4, ServingIs
  <2>2. ServingIn(pc', key')[k] = r
    BY <1>1, <1>3, ServingIs
  <2> QED
    BY <1>4, <2>1, <2>2
<1>6. ASSUME NEW j \in Keys, j # k PROVE servingNow'[j] = servingNow[j]
  <2>1. {x \in Requests : pc'[x] \in Claimed /\ key'[x] = j}
          = {x \in Requests : pc[x] \in Claimed /\ key[x] = j}
    BY <1>1, <1>6
  <2> QED
    BY <1>4, <2>1 DEF ServingIn
<1>7. \A j \in Keys : servingNow[j] # r
  <2> SUFFICES ASSUME NEW j \in Keys PROVE servingNow[j] # r
    OBVIOUS
  <2>1. CASE \A x \in Requests : ~(pc[x] \in Claimed /\ key[x] = j)
    BY <1>3, <1>4, <2>1, ServingIs, GateAssumption
  <2>2. CASE \E x \in Requests : pc[x] \in Claimed /\ key[x] = j
    BY <1>1, <1>3, <1>4, <2>2, ServingIs
  <2> QED
    BY <2>1, <2>2
<1>8. servingNow' = [servingNow EXCEPT ![k] = r]
  BY <1>5, <1>6 DEF servingNow
<1> QED
  BY <1>1, <1>5, <1>7, <1>8 DEF Calls!Serve, Calls!Served

LEMMA ReleaseFinishes ==
    ASSUME GateInv, [Next]_vars, NEW r \in Requests, Release(r)
    PROVE  Calls!Finish(key[r])
<1> DEFINE k == key[r]
<1>1. /\ pc[r] \in Claimed /\ pc'[r] \notin Claimed
      /\ \A x \in Requests \ {r} : pc'[x] = pc[x] /\ key'[x] = key[x]
      /\ UNCHANGED <<chain, earned, bodies>>
  BY DEF Release, Leave, Goto, Claimed, GateInv, TypeInv, TypeOK, chainVars, histVars
<1>2. k \in Keys /\ servingNow[k] = r /\ r # NoKey
  BY <1>1, Serving
<1>3. /\ \A r1, r2 \in Requests :
            pc[r1] \in Claimed /\ pc[r2] \in Claimed /\ key[r1] = key[r2] => r1 = r2
      /\ \A r1, r2 \in Requests :
            pc'[r1] \in Claimed /\ pc'[r2] \in Claimed /\ key'[r1] = key'[r2] => r1 = r2
  BY NextExclusive DEF GateInv, OneRequestPerAuthorization
<1>4. servingNow = ServingIn(pc, key) /\ servingNow' = ServingIn(pc', key')
  BY DEF servingNow, Servers, ServingIn
<1>5. servingNow'[k] = NoKey
  <2>1. \A x \in Requests : ~(pc'[x] \in Claimed /\ key'[x] = k)
    BY <1>1, <1>3
  <2>2. ServingIn(pc', key')[k] = NoKey
    BY <1>2, <1>3, <2>1, ServingIs
  <2> QED
    BY <1>4, <2>2
<1>6. ASSUME NEW j \in Keys, j # k PROVE servingNow'[j] = servingNow[j]
  <2>1. {x \in Requests : pc'[x] \in Claimed /\ key'[x] = j}
          = {x \in Requests : pc[x] \in Claimed /\ key[x] = j}
    BY <1>1, <1>6
  <2> QED
    BY <1>4, <2>1 DEF ServingIn
<1>7. servingNow' = [servingNow EXCEPT ![k] = NoKey]
  BY <1>2, <1>5, <1>6 DEF servingNow
<1> QED
  BY <1>1, <1>2, <1>7 DEF Calls!Finish, Calls!Served

-----------------------------------------------------------------------------
\* The steps of a claimed request that keep the claim.
LEMMA AnswerRefines ==
    ASSUME GateInv, NEW r \in Requests,
           \/ UpstreamError(r) \/ ForwardAuthAllows(r) \/ UpstreamStreams(r)
           \/ UpstreamAnswers(r) \/ BufferedHasValue(r) \/ BufferedNoValue(r)
           \/ StreamSkipped(r) \/ StreamDelivered(r) \/ SettleSkipped(r) \/ Abort(r)
    PROVE  Calls!FindWorth(key[r]) \/ UNCHANGED Calls!callVars
<1>1. /\ UNCHANGED <<key, chain, bodies>>
      /\ pc[r] \in Claimed /\ pc'[r] \in Claimed
      /\ \A x \in Requests \ {r} : pc'[x] = pc[x]
      /\ earned' = earned \/ earned' = earned \cup {key[r]}
  BY DEF UpstreamError, ForwardAuthAllows, UpstreamStreams, UpstreamAnswers,
         BufferedHasValue, BufferedNoValue, StreamSkipped, StreamDelivered,
         SettleSkipped, Abort, Settling, Goto, Keep, Claimed, chainVars, histVars,
         GateInv, TypeInv, TypeOK
<1>2. servingNow' = servingNow
  BY <1>1, ServingKept
<1>3. servingNow[key[r]] # NoKey
  BY <1>1, Serving
<1> QED
  BY <1>1, <1>2, <1>3 DEF Calls!FindWorth, Calls!Served, Calls!callVars

LEMMA SettleRefines ==
    ASSUME GateInv, NEW r \in Requests,
           SettleSucceeds(r) \/ SettleErrorWithTx(r) \/ SettleFails(r)
    PROVE  (\E a \in Keys : Calls!Charge(a)) \/ UNCHANGED Calls!callVars
<1> DEFINE k == key[r]
           charged == {j \in Keys : chain[j] # "unused"}
<1>1. /\ UNCHANGED <<key, earned, bodies>>
      /\ pc[r] \in Settling /\ pc'[r] \in Claimed
      /\ \A x \in Requests \ {r} : pc'[x] = pc[x]
      /\ \/ chain' = chain
         \/ chain[k] = "unused" /\ chain' = [chain EXCEPT ![k] = "submitted"]
  BY DEF SettleSucceeds, SettleErrorWithTx, SettleFails, CanSubmit, FacilitatorSubmits,
         Settling, Goto, Keep, Claimed, chainVars, histVars, GateInv, TypeInv, TypeOK
<1>2. pc[r] \in Claimed /\ k \in earned
  BY <1>1 DEF GateInv, Charged, Settling, Claimed
<1>3. servingNow' = servingNow
  BY <1>1, <1>2, ServingKept
<1>4. k \in Keys /\ servingNow[k] # NoKey
  BY <1>2, Serving
<1>5. CASE chain' = chain
  BY <1>1, <1>3, <1>5 DEF Calls!callVars
<1>6. CASE chain[k] = "unused" /\ chain' = [chain EXCEPT ![k] = "submitted"]
  <2>1. k \notin charged /\ charged' = charged \cup {k}
    BY <1>4, <1>6 DEF GateInv, TypeInv, TypeOK
  <2> QED
    BY <1>1, <1>2, <1>3, <1>4, <2>1 DEF Calls!Charge, Calls!Served
<1> QED
  BY <1>1, <1>5, <1>6

LEMMA SendRefines ==
    ASSUME GateInv, NEW r \in Requests, SendBody(r)
    PROVE  Calls!SendHeld(key[r])
<1> DEFINE k == key[r]
<1>1. /\ UNCHANGED <<key, chain, earned>>
      /\ pc[r] = "sending" /\ pc'[r] \in Claimed /\ pc[r] \in Claimed
      /\ \A x \in Requests \ {r} : pc'[x] = pc[x]
      /\ bodies' = [bodies EXCEPT ![k] = IF @ < 2 THEN @ + 1 ELSE 2]
  BY DEF SendBody, Goto, Keep, Claimed, chainVars, GateInv, TypeInv, TypeOK
<1>2. servingNow' = servingNow
  BY <1>1, ServingKept
<1>3. k \in Keys /\ servingNow[k] # NoKey
  BY <1>1, Serving
<1>4. chain[k] # "unused" /\ bodies[k] = 0
  BY <1>1 DEF GateInv, Delivered
<1>5. bodies' = [bodies EXCEPT ![k] = 1]
  BY <1>1, <1>3, <1>4 DEF GateInv, TypeInv, TypeOK
<1> QED
  BY <1>1, <1>2, <1>3, <1>4, <1>5 DEF Calls!SendHeld, Calls!Served

\* Before the claim, and the environment apart from a restart.
LEMMA UnseenSteps ==
    ASSUME GateInv,
           \/ \E r \in Requests :
                 \/ \E k \in Keys, m \in Modes : Receive(r, k, m)
                 \/ VerifyValid(r) \/ VerifyRefused(r) \/ ClaimInUse(r) \/ ClaimFull(r)
                 \/ Disconnect(r)
           \/ \E k \in Keys : Mine(k)
           \/ Tick \/ UNCHANGED vars
    PROVE  UNCHANGED Calls!callVars
<1> SUFFICES /\ \A r \in Requests :
                  /\ pc'[r] \in Claimed <=> pc[r] \in Claimed
                  /\ pc[r] \in Claimed => key'[r] = key[r]
             /\ UNCHANGED <<earned, bodies>>
             /\ \A k \in Keys : chain'[k] = "unused" <=> chain[k] = "unused"
  <2>1. ASSUME \A k \in Keys : chain'[k] = "unused" <=> chain[k] = "unused"
        PROVE  {k \in Keys : chain'[k] # "unused"} = {k \in Keys : chain[k] # "unused"}
    BY <2>1
  <2> QED
    BY <2>1, ServingKept DEF Calls!callVars
<1>1. ASSUME NEW r \in Requests,
             \/ \E k \in Keys, m \in Modes : Receive(r, k, m)
             \/ VerifyValid(r) \/ VerifyRefused(r) \/ ClaimInUse(r) \/ ClaimFull(r)
      PROVE  /\ pc[r] \notin Claimed /\ pc'[r] \notin Claimed
             /\ \A x \in Requests \ {r} : pc'[x] = pc[x] /\ key'[x] = key[x]
             /\ UNCHANGED <<chain, earned, bodies>>
  BY <1>1 DEF Receive, VerifyValid, VerifyRefused, ClaimInUse, ClaimFull, Leave, Goto,
              Claimed, chainVars, histVars, GateInv, TypeInv, TypeOK
<1>2. ASSUME NEW k \in Keys, Mine(k)
      PROVE  /\ UNCHANGED <<pc, key, earned, bodies>>
             /\ \A j \in Keys : chain'[j] = "unused" <=> chain[j] = "unused"
  BY <1>2 DEF Mine, histVars, GateInv, TypeInv, TypeOK
<1>3. CASE (\E r \in Requests : Disconnect(r)) \/ Tick \/ UNCHANGED vars
  BY <1>3 DEF Disconnect, Tick, vars, chainVars, histVars
<1> QED
  BY <1>1, <1>2, <1>3

LEMMA RestartRefines ==
    ASSUME GateInv, Restart
    PROVE  Calls!LoseAll
<1>1. \A k : {r \in Requests : pc'[r] \in Claimed /\ key'[r] = k} = {}
  BY DEF Restart, Claimed
<1>2. servingNow' = [k \in Keys |-> NoKey]
  BY <1>1 DEF servingNow, Servers, OneOf
<1> QED
  BY <1>2 DEF Restart, chainVars, Calls!LoseAll

LEMMA StepRefines == GateInv /\ [Next]_vars => [Calls!Next]_(Calls!callVars)
<1> SUFFICES ASSUME GateInv, [Next]_vars PROVE Calls!Next \/ UNCHANGED Calls!callVars
  OBVIOUS
<1>1. ASSUME NEW r \in Requests, RequestStep(r)
      PROVE  Calls!Next \/ UNCHANGED Calls!callVars
  <2>1. CASE \/ \E k \in Keys, m \in Modes : Receive(r, k, m)
             \/ VerifyValid(r) \/ VerifyRefused(r) \/ ClaimInUse(r) \/ ClaimFull(r)
    BY <2>1, UnseenSteps
  <2>2. ASSUME pc[r] # "idle" PROVE key[r] \in Keys
    BY <2>2 DEF GateInv, TypeInv, TypeOK, KeyWhileHandled
  <2>3. CASE ClaimOK(r)
    BY <2>2, <2>3, ClaimServes DEF ClaimOK, Calls!Next
  <2>4. CASE Release(r)
    BY <2>2, <2>4, ReleaseFinishes DEF Release, Calls!Next
  <2>5. CASE SendBody(r)
    BY <2>2, <2>5, SendRefines DEF SendBody, Calls!Next
  <2>6. CASE SettleSucceeds(r) \/ SettleErrorWithTx(r) \/ SettleFails(r)
    BY <2>6, SettleRefines DEF Calls!Next
  <2>7. CASE \/ UpstreamError(r) \/ ForwardAuthAllows(r) \/ UpstreamStreams(r)
             \/ UpstreamAnswers(r) \/ BufferedHasValue(r) \/ BufferedNoValue(r)
             \/ StreamSkipped(r) \/ StreamDelivered(r) \/ SettleSkipped(r) \/ Abort(r)
    <3>1. pc[r] # "idle"
      BY <2>7 DEF UpstreamError, ForwardAuthAllows, UpstreamStreams, UpstreamAnswers,
                  BufferedHasValue, BufferedNoValue, StreamSkipped, StreamDelivered,
                  SettleSkipped, Abort, Settling
    <3> QED
      BY <2>2, <2>7, <3>1, AnswerRefines DEF Calls!Next
  <2> QED
    BY <1>1, <2>1, <2>3, <2>4, <2>5, <2>6, <2>7 DEF RequestStep
<1>2. CASE \/ \E r \in Requests : Disconnect(r)
           \/ \E k \in Keys : Mine(k)
           \/ Tick \/ UNCHANGED vars
  BY <1>2, UnseenSteps
<1>3. CASE Restart
  BY <1>3, RestartRefines DEF Calls!Next
<1> QED
  BY <1>1, <1>2, <1>3 DEF Next

(***************************************************************************)
(* The gateway implements the promise of paying per call, for any number   *)
(* of requests and authorizations and any bounds of the registry and the   *)
(* clock: nothing its middleware does is more than serving an              *)
(* authorization for one request at a time, finding an answer worth it,    *)
(* charging it once, and sending a held answer once after the charge.      *)
(***************************************************************************)
THEOREM GateImplementsPaidCalls == Spec => ImplementsPaidCalls
<1>1. Init => Calls!Init
  <2> SUFFICES ASSUME Init PROVE Calls!Init
    OBVIOUS
  <2>1. \A k : Servers(k) = {}
    BY DEF Init, Servers, Claimed
  <2> QED
    BY <2>1 DEF Init, Calls!Init, servingNow, OneOf
<1> QED
  BY <1>1, GateInvariant, StepRefines, PTL DEF Spec, ImplementsPaidCalls, Calls!Spec

-----------------------------------------------------------------------------
(* Orders: the inductive invariant *)

USE DEF buyCounts, walletVars

\* Vouchers are numbered in the order in which they were signed.
Rising(pool, next) ==
    /\ Vouchers(pool) \subseteq 1..(next - 1)
    /\ \A i, j \in 1..Len(pool) : i < j => pool[i].n < pool[j].n

\* The first m vouchers of a pool are spent, and those held come next in it.
SpentUpTo(m, pool, held, spent) ==
    /\ \A i \in 1..Len(pool) : pool[i].n \in spent <=> i <= m
    /\ m + Len(held) <= Len(pool)
    /\ \A i \in 1..Len(held) : held[i] = pool[m + i]

Carries(pool, held, spent) == \E m \in 0..Len(pool) : SpentUpTo(m, pool, held, spent)

\* ... and are all that is left of it.
InStep(pool, held, spent) ==
    \E m \in 0..Len(pool) : SpentUpTo(m, pool, held, spent) /\ m + Len(held) = Len(pool)

PoolsRise ==
    /\ Vouchers(loaded) \subseteq 1..(signedNext - 1)
    /\ purchase # NoPurchase => Rising(purchase.auths, signedNext)
    /\ order.at \in {"status", "sign"} => Rising(order.have, signedNext)
    /\ order.at = "post" => Rising(order.pool, signedNext)
    /\ refill.at = "quote" => Rising(refill.have, signedNext)
    /\ refill.at = "put" => Rising(refill.pool, signedNext)

\* A purchase is named after the order that made it and is deleted by a waiting
\* one only; what was read of it by name is no newer than what was loaded.
NamesKept ==
    /\ IF purchase = NoPurchase THEN loaded = << >>
       ELSE /\ purchase.uid \in 1..orders /\ purchase.gen # 0
            /\ order # NoOrder => purchase.uid < orders
            /\ purchase.deleting => order.at = "deleting"
    /\ order # NoOrder => orders # 0
    /\ order.at = "status" => purchase # NoPurchase
    /\ order.at \in {"status", "sign", "post"} =>
         IF purchase = NoPurchase THEN order.seen = Unwritten
         ELSE order.seen[1] = purchase.uid /\ order.seen[2] <= purchase.loadedGen
    /\ refill # NoOrder =>
         /\ refill.since[1] \in 1..orders /\ (order # NoOrder => refill.since[1] < orders)
         /\ purchase # NoPurchase /\ refill.since[1] = purchase.uid => refill.since[2] <= purchase.loadedGen

\* A command signs within its budget, a round below its ceiling.
Affordable ==
    /\ order.at \in {"read", "status", "sign", "post"} => order.n * order.price <= order.budget
    /\ RefillsUnderTheCeiling

\* Nobody wrote since the command, or the round, read.
OrderFollows == purchase # NoPurchase /\ ~undercut /\ WrittenPool = order.seen
RefillFollows == purchase # NoPurchase /\ ~undercut /\ WrittenPool = refill.since

\* A purchase never written over another's write holds all that is unspent, and
\* so does what is about to be written over what was read.
UnspentFollows ==
    /\ purchase # NoPurchase /\ ~undercut =>
         /\ Carries(purchase.auths, loaded, burnt)
         /\ ~PendingSync => InStep(purchase.auths, loaded, burnt)
    /\ order.at \in {"status", "sign"} /\ OrderFollows => order.have = purchase.auths
    /\ order.at = "sign" /\ OrderFollows => Len(loaded) <= order.left
    /\ order.at = "sign" /\ purchase = NoPurchase => order.have = << >>
    /\ order.at = "post" /\ (purchase = NoPurchase \/ OrderFollows) => Carries(order.pool, loaded, burnt)
    /\ refill.at \in {"list", "quote"} /\ RefillFollows => Len(loaded) <= refill.left
    /\ refill.at = "quote" /\ RefillFollows => refill.have = purchase.auths
    /\ refill.at = "put" /\ RefillFollows => Carries(refill.pool, loaded, burnt)

BuyIInv == BuyTypeOK /\ PoolsRise /\ NamesKept /\ Affordable /\ UnspentFollows

-----------------------------------------------------------------------------
(* Orders: lemmas about numbers, commands and rounds *)

LEMMA QuotientIsNat ==
    ASSUME NEW a \in Nat, NEW b \in Nat \ {0}
    PROVE  a \div b \in Nat
BY SMT

LEMMA ProductIsNat ==
    ASSUME NEW a \in Nat, NEW b \in Nat
    PROVE  a * b \in Nat
BY SMT

\* What the steps of a command keep.
OrderIsOf(c) ==
    /\ c.at \in {"none", "probe", "mode", "deleting", "ask", "pod", "read", "status", "sign", "post"}
    /\ c.at = "none" <=> c = NoOrder
    /\ c.at \in {"probe", "mode", "deleting", "ask"} <=> c \in HostOrders
    /\ c.at \in {"mode", "deleting", "ask"} =>
         c \in [at : {"mode", "deleting", "ask"}, price : Nat, count : Nat, budget : Nat,
                on : BOOLEAN, rc : Nat, cap : Nat, replace : BOOLEAN]
    /\ c \in HostOrders =>
         /\ c.price \in Nat /\ c.count \in Nat /\ c.budget \in Nat /\ c.on \in BOOLEAN
         /\ c.rc \in Nat /\ c.cap \in Nat /\ c.replace \in BOOLEAN
    /\ c.at \in {"pod", "read", "status", "sign", "post"} =>
         c.n \in Nat /\ c.budget \in Nat /\ c.on \in BOOLEAN
    /\ c.at \in {"pod", "read", "status", "sign"} => c.rc \in Nat /\ c.cap \in Nat
    /\ c.at \in {"read", "status", "sign", "post"} => c.price \in Nat
    /\ c.at \in {"status", "sign"} => c.have \in AuthPools /\ c.left \in Nat
    /\ c.at \in {"status", "sign", "post"} => c.seen \in Nat \X Nat
    /\ c.at = "post" => c.pool \in AuthPools /\ c.policy \in Policies

LEMMA OrderKinds ==
    ASSUME NEW c \in {NoOrder} \cup HostOrders \cup PodOrders
    PROVE  OrderIsOf(c)
<1>1. CASE c = NoOrder
  BY <1>1 DEF OrderIsOf, NoOrder, HostOrders
<1>2. CASE c \in HostOrders
  BY <1>2 DEF OrderIsOf, NoOrder, HostOrders
<1>3. CASE c \in PodOrders
  BY <1>3 DEF OrderIsOf, NoOrder, HostOrders, PodOrders
<1> QED BY <1>1, <1>2, <1>3

\* What the steps of a round keep.
RefillIsOf(r) ==
    /\ r.at \in {"none", "list", "quote", "put"}
    /\ r.at = "none" <=> r = NoOrder
    /\ r # NoOrder => r.since \in Nat \X Nat
    /\ r.at \in {"list", "quote"} => r.left \in Nat
    /\ r.at = "quote" => r.have \in AuthPools /\ r.policy \in Policies /\ r.stored \in Nat
    /\ r.at = "put" => r.price \in Nat /\ r.policy \in Policies /\ r.pool \in AuthPools

LEMMA RefillKinds ==
    ASSUME NEW r \in {NoOrder} \cup Refills
    PROVE  RefillIsOf(r)
BY DEF RefillIsOf, NoOrder, Refills

LEMMA PurchaseFields ==
    ASSUME BuyTypeOK, purchase # NoPurchase
    PROVE  /\ purchase \in Purchases
           /\ purchase.auths \in AuthPools /\ purchase.price \in Nat /\ purchase.policy \in Policies
           /\ purchase.deleting \in BOOLEAN /\ purchase.uid \in Nat /\ purchase.gen \in Nat
           /\ purchase.loadedGen \in Nat /\ purchase.loadedGen <= purchase.gen
BY DEF BuyTypeOK, Purchases

-----------------------------------------------------------------------------
(* Orders: lemmas about pools *)

\* The last vouchers of a pool.
LEMMA LastOnes ==
    ASSUME NEW auths \in AuthPools, NEW left \in Nat, left <= Len(auths)
    PROVE  /\ ActiveAuthPool(auths, left) \in AuthPools
           /\ Len(ActiveAuthPool(auths, left)) = left
           /\ \A i \in 1..left : ActiveAuthPool(auths, left)[i] = auths[Len(auths) - left + i]
<1> DEFINE V == [n : Nat, price : Nat]  a == Len(auths) - left + 1  b == Len(auths)
<1>1. auths \in Seq(V) /\ Len(auths) \in Nat
  BY DEF AuthPools
<1>2. a \in 1..(Len(auths) + 1) /\ b \in (a - 1)..Len(auths)
  BY <1>1
<1>3. /\ SubSeq(auths, a, b) \in Seq(V)
      /\ Len(SubSeq(auths, a, b)) = IF a <= b THEN b - a + 1 ELSE 0
      /\ \A i \in 1..(b - a + 1) : SubSeq(auths, a, b)[i] = auths[a + i - 1]
  <2>1. a \in Int /\ b \in Int /\ \A i \in a..b : i \in 1..Len(auths)
    BY <1>1
  <2> HIDE DEF V, a, b
  <2>2. \A i \in a..b : auths[i] \in V
    BY <1>1, <2>1, ElementOfSeq
  <2> QED BY <2>1, <2>2, SubSeqProperties
<1>4. b - a + 1 = left /\ (IF a <= b THEN b - a + 1 ELSE 0) = left
  BY <1>1
<1>5. ASSUME NEW i \in 1..left
      PROVE  SubSeq(auths, a, b)[i] = auths[Len(auths) - left + i]
  <2>1. SubSeq(auths, a, b)[i] = auths[a + i - 1]
    BY <1>3, <1>4
  <2>2. a + i - 1 = Len(auths) - left + i
    BY <1>1
  <2> QED BY <2>1, <2>2
<1> QED BY <1>3, <1>4, <1>5 DEF ActiveAuthPool, AuthPools

LEMMA NewOnes ==
    ASSUME NEW price \in Nat, NEW n \in Nat, signedNext \in Nat
    PROVE  /\ PresignAuths(price, n) \in AuthPools /\ Len(PresignAuths(price, n)) = n
           /\ \A i \in 1..n : PresignAuths(price, n)[i].n = signedNext + i - 1
BY LenProperties, SeqDef DEF PresignAuths, AuthPools

\* The pool a command, or a round, writes: the last vouchers of what was read
\* and the new ones.
Refilled(have, left, price, n) == ActiveAuthPool(have, left) \o PresignAuths(price, n)

IsRefilled(pool, have, left, n) ==
    /\ pool \in AuthPools /\ Len(pool) = left + n
    /\ \A i \in 1..left : pool[i] = have[Len(have) - left + i]
    /\ \A i \in (left + 1)..(left + n) : pool[i].n = signedNext + i - left - 1

LEMMA RefilledIs ==
    \A have \in AuthPools, left \in Nat, price \in Nat, n \in Nat :
       left <= Len(have) /\ signedNext \in Nat =>
         IsRefilled(Refilled(have, left, price, n), have, left, n)
<1> SUFFICES ASSUME NEW have \in AuthPools, NEW left \in Nat, NEW price \in Nat, NEW n \in Nat,
                    left <= Len(have), signedNext \in Nat
             PROVE  IsRefilled(Refilled(have, left, price, n), have, left, n)
  OBVIOUS
<1> DEFINE V == [n : Nat, price : Nat]  s == ActiveAuthPool(have, left)  t == PresignAuths(price, n)
<1>1. s \in Seq(V) /\ Len(s) = left /\ \A i \in 1..left : s[i] = have[Len(have) - left + i]
  BY LastOnes DEF AuthPools
<1>2. t \in Seq(V) /\ Len(t) = n /\ \A i \in 1..n : t[i].n = signedNext + i - 1
  BY NewOnes DEF AuthPools
<1> HIDE DEF s, t, V
<1>3. /\ s \o t \in Seq(V) /\ Len(s \o t) = Len(s) + Len(t)
      /\ \A i \in 1..(Len(s) + Len(t)) : (s \o t)[i] = IF i <= Len(s) THEN s[i] ELSE t[i - Len(s)]
  BY <1>1, <1>2, ConcatProperties
<1>4. \A i \in 1..left : (s \o t)[i] = have[Len(have) - left + i]
  BY <1>1, <1>2, <1>3
<1>5. ASSUME NEW i \in (left + 1)..(left + n)
      PROVE  (s \o t)[i].n = signedNext + i - left - 1
  <2>1. (s \o t)[i] = t[i - left] /\ i - left \in 1..n
    BY <1>1, <1>2, <1>3
  <2> QED BY <1>2, <2>1
<1> QED BY <1>1, <1>2, <1>3, <1>4, <1>5 DEF IsRefilled, Refilled, s, t, V, AuthPools

\* The unspent vouchers of a pool are vouchers of the pool: every rank up to
\* their number is the rank of one of them.
LEMMA UnspentAmong ==
    ASSUME NEW auths \in AuthPools
    PROVE  Unspent(auths) \in AuthPools /\ Vouchers(Unspent(auths)) \subseteq Vouchers(auths)
<1> DEFINE K == {i \in 1..Len(auths) : auths[i].n \notin burnt}
           Rank(i) == Cardinality({k \in K : k <= i})
           c == Cardinality(K)
           f == [i \in K |-> Rank(i)]
<1>1. Len(auths) \in Nat /\ \A i \in 1..Len(auths) : auths[i] \in [n : Nat, price : Nat]
  BY ElementOfSeq, LenProperties DEF AuthPools
<1>2. IsFiniteSet(1..Len(auths))
  BY <1>1, FS_Interval
<1>3. IsFiniteSet(K) /\ c \in Nat
  BY <1>2, FS_Subset, FS_CardinalityType
<1>4. \A T \in SUBSET K : IsFiniteSet(T) /\ Cardinality(T) \in Nat /\ Cardinality(T) <= c
  BY <1>3, FS_Subset, FS_CardinalityType
<1>5. ASSUME NEW i \in K
      PROVE  Rank(i) \in 1..c
  <2>1. Rank(i) \in Nat /\ Rank(i) <= c /\ IsFiniteSet({k \in K : k <= i})
    BY <1>4
  <2>2. i \in {k \in K : k <= i}
    BY <1>1
  <2>3. Rank(i) # 0
    BY <2>1, <2>2, FS_EmptySet
  <2> QED BY <1>3, <2>1, <2>3
<1>6. ASSUME NEW i \in K, NEW j \in K, i < j
      PROVE  Rank(i) # Rank(j)
  <2>0. K \subseteq Int
    OBVIOUS
  <2> HIDE DEF K
  <2>a. \A k \in K : k <= i => k <= j
    BY <2>0, <1>6
  <2>1. {k \in K : k <= i} \in SUBSET {k \in K : k <= j}
    BY <2>a
  <2>2. j \in {k \in K : k <= j} /\ j \notin {k \in K : k <= i}
    BY <2>0, <1>6
  <2>3. IsFiniteSet({k \in K : k <= j})
    BY <1>4
  <2> QED BY <2>1, <2>2, <2>3, FS_Subset
<1>7. f \in Injection(K, 1..c)
  <2>1. f \in [K -> 1..c]
    BY <1>5
  <2>2. ASSUME NEW i \in K, NEW j \in K, f[i] = f[j]
        PROVE  i = j
    <3>1. i \in Int /\ j \in Int
      BY <1>1
    <3>2. Rank(i) = Rank(j)
      BY <2>2
    <3> HIDE DEF Rank, K
    <3> QED BY <1>6, <3>1, <3>2
  <2> HIDE DEF f, c, K
  <2> QED BY <2>1, <2>2 DEF Injection, IsInjective
<1>8. Cardinality(1..c) = c /\ IsFiniteSet(1..c)
  BY <1>3, FS_Interval
<1>9. f \in Surjection(K, 1..c)
  <2> HIDE DEF f, K
  <2> QED BY <1>7, <1>8, FS_Injection
<1>10. \A j \in 1..c : \E i \in K : Rank(i) = j
  <2>1. \A j \in 1..c : \E i \in K : f[i] = j
    <3> HIDE DEF f, K, c
    <3> QED BY <1>9 DEF Surjection
  <2> QED BY <2>1
<1>11. \A j \in 1..c : (CHOOSE i \in K : Rank(i) = j) \in K
  <2> HIDE DEF K, Rank, c
  <2> QED BY <1>10
<1>12. Unspent(auths) = [j \in 1..c |-> auths[CHOOSE i \in K : Rank(i) = j]]
  BY DEF Unspent
<1>13. \A k \in K : k \in 1..Len(auths)
  OBVIOUS
<1> HIDE DEF K, Rank, c
<1>14. /\ Unspent(auths) \in Seq([n : Nat, price : Nat]) /\ Len(Unspent(auths)) = c
       /\ \A j \in 1..c : \E i \in 1..Len(auths) : Unspent(auths)[j] = auths[i]
  <2>0. \A k \in 1..Len(auths) : auths[k] \in [n : Nat, price : Nat]
    BY <1>1
  <2>1. Unspent(auths) \in [1..c -> [n : Nat, price : Nat]]
    <3>1. ASSUME NEW j \in 1..c
          PROVE  auths[CHOOSE i \in K : Rank(i) = j] \in [n : Nat, price : Nat]
      BY <1>11, <1>13, <2>0
    <3> QED BY <1>12, <3>1
  <2>2. \A j \in 1..c : \E i \in 1..Len(auths) : Unspent(auths)[j] = auths[i]
    BY <1>11, <1>12, <1>13
  <2>3. Unspent(auths) \in Seq([n : Nat, price : Nat])
    <3>1. \A S : c \in Nat /\ Unspent(auths) \in [1..c -> S] => Unspent(auths) \in Seq(S)
      BY SeqDef, Zenon
    <3> QED BY <1>3, <2>1, <3>1
  <2>4. Len(Unspent(auths)) = c
    <3>1. \A a, b \in Nat : 1..a = 1..b => a = b
      OBVIOUS
    <3>2. Len(Unspent(auths)) \in Nat /\ 1..Len(Unspent(auths)) = 1..c
      BY <2>1, <2>3, LenProperties
    <3> QED BY <1>3, <3>1, <3>2
  <2> QED BY <2>2, <2>3, <2>4
<1>15. ASSUME NEW j \in 1..c
       PROVE  Unspent(auths)[j].n \in Vouchers(auths)
  <2>1. PICK i \in 1..Len(auths) : Unspent(auths)[j] = auths[i]
    BY <1>14
  <2> QED BY <2>1 DEF Vouchers
<1>16. Vouchers(Unspent(auths)) = {Unspent(auths)[j].n : j \in 1..c}
  BY <1>14 DEF Vouchers
<1> QED BY <1>14, <1>15, <1>16 DEF AuthPools

LEMMA IntervalSize ==
    ASSUME NEW a \in Int, NEW b \in Int, a <= b + 1
    PROVE  Cardinality(a..b) = b - a + 1
BY FS_Interval

\* The unspent vouchers of a pool of which the first m are spent are the others.
LEMMA UnspentIsRest ==
    ASSUME NEW auths \in AuthPools, NEW m \in 0..Len(auths),
           \A i \in 1..Len(auths) : auths[i].n \in burnt <=> i <= m
    PROVE  /\ Len(Unspent(auths)) = Len(auths) - m
           /\ \A j \in 1..(Len(auths) - m) : Unspent(auths)[j] = auths[m + j]
<1> DEFINE K == {i \in 1..Len(auths) : auths[i].n \notin burnt}
           Rank(i) == Cardinality({k \in K : k <= i})
<1>1. Len(auths) \in Nat /\ m \in Nat /\ m <= Len(auths)
  BY DEF AuthPools
<1>2. K = (m + 1)..Len(auths)
  BY <1>1
<1>3. Cardinality(K) = Len(auths) - m
  <2>1. m + 1 \in Int /\ m + 1 <= Len(auths) + 1 /\ Len(auths) - (m + 1) + 1 = Len(auths) - m
    BY <1>1
  <2>2. Cardinality((m + 1)..Len(auths)) = Len(auths) - (m + 1) + 1
    BY <1>1, <2>1, IntervalSize
  <2> HIDE DEF K
  <2> QED BY <1>2, <2>1, <2>2
<1>4. ASSUME NEW i \in K
      PROVE  Rank(i) = i - m
  <2> HIDE DEF K
  <2>1. i \in Int /\ m < i /\ {k \in K : k <= i} = (m + 1)..i
    BY <1>1, <1>2
  <2>2. m + 1 \in Int /\ m + 1 <= i + 1 /\ i - (m + 1) + 1 = i - m
    BY <1>1, <2>1
  <2>3. Cardinality((m + 1)..i) = i - (m + 1) + 1
    BY <2>1, <2>2, IntervalSize
  <2> QED BY <2>1, <2>2, <2>3
<1>5. ASSUME NEW j \in 1..(Len(auths) - m)
      PROVE  (CHOOSE i \in K : Rank(i) = j) = m + j
  <2>1. m + j \in K /\ m + j - m = j
    BY <1>1, <1>2
  <2>2. \A i \in K : Rank(i) = j <=> i = m + j
    BY <1>1, <1>2, <1>4
  <2> HIDE DEF K, Rank
  <2> QED BY <2>1, <2>2
<1>6. Unspent(auths) = [j \in 1..Cardinality(K) |-> auths[CHOOSE i \in K : Rank(i) = j]]
  BY DEF Unspent
<1> HIDE DEF K, Rank
<1>7. Unspent(auths) = [j \in 1..(Len(auths) - m) |-> auths[CHOOSE i \in K : Rank(i) = j]]
  BY <1>3, <1>6
<1>8. \A j \in 1..(Len(auths) - m) : Unspent(auths)[j] = auths[m + j]
  BY <1>5, <1>7
<1>9. Len(Unspent(auths)) = Len(auths) - m
  BY <1>1, <1>7, LenProperties
<1> QED BY <1>8, <1>9

LEMMA RisingLater ==
    ASSUME NEW pool, NEW a \in Int, NEW b \in Int, a <= b, Rising(pool, a)
    PROVE  Rising(pool, b)
BY DEF Rising

\* The numbers of a refilled pool rise: what is kept is older than what is new.
LEMMA RisingRefilled ==
    ASSUME NEW have \in AuthPools, NEW left \in Nat, left <= Len(have),
           NEW price \in Nat, NEW n \in Nat, signedNext \in Nat \ {0}, Rising(have, signedNext)
    PROVE  Rising(Refilled(have, left, price, n), signedNext + n)
<1> DEFINE p == Refilled(have, left, price, n)  d == Len(have) - left
<1>0. Len(have) \in Nat
  BY LenProperties DEF AuthPools
<1>1. /\ Len(have) \in Nat /\ d \in Nat /\ Len(p) = left + n
      /\ \A i \in 1..left : p[i] = have[d + i]
      /\ \A i \in (left + 1)..(left + n) : p[i].n = signedNext + i - left - 1
  <2>1. d \in Nat
    BY <1>0
  <2>2. IsRefilled(p, have, left, n)
    BY RefilledIs
  <2> HIDE DEF p
  <2> QED BY <1>0, <2>1, <2>2 DEF IsRefilled
<1>2. \A i \in 1..Len(have) : have[i].n \in 1..(signedNext - 1)
  BY DEF Rising, Vouchers
<1>3. \A i, j \in 1..Len(have) : i < j => have[i].n < have[j].n
  BY DEF Rising
<1> HIDE DEF p
<1>d. d + left = Len(have)
  BY <1>1
<1> HIDE DEF d
<1>4. ASSUME NEW i \in 1..left
      PROVE  d + i \in 1..Len(have) /\ p[i].n = have[d + i].n /\ p[i].n \in 1..(signedNext - 1)
  <2>1. d + i \in 1..Len(have)
    BY <1>1, <1>d
  <2> QED BY <1>1, <1>2, <2>1
<1>5. ASSUME NEW i \in (left + 1)..(left + n)
      PROVE  p[i].n = signedNext + i - left - 1 /\ p[i].n \in signedNext..(signedNext + n - 1)
  <2>1. p[i].n = signedNext + i - left - 1
    BY <1>1
  <2> QED BY <2>1
<1>6. \A i \in 1..Len(p) : i \in 1..left \/ i \in (left + 1)..(left + n)
  BY <1>1
<1>7. ASSUME NEW i \in 1..Len(p)
      PROVE  p[i].n \in 1..(signedNext + n - 1)
  <2>1. CASE i \in 1..left
    BY <1>4, <2>1
  <2>2. CASE i \in (left + 1)..(left + n)
    BY <1>5, <2>2
  <2> QED BY <1>6, <2>1, <2>2
<1>8. ASSUME NEW i \in 1..Len(p), NEW j \in 1..Len(p), i < j
      PROVE  p[i].n < p[j].n
  <2>1. CASE j \in 1..left
    <3>1. i \in 1..left
      BY <2>1, <1>8
    <3>2. d + i \in 1..Len(have) /\ d + j \in 1..Len(have) /\ d + i < d + j
      BY <1>1, <1>4, <1>8, <2>1, <3>1
    <3> QED BY <1>3, <1>4, <2>1, <3>1, <3>2
  <2>2. CASE j \in (left + 1)..(left + n) /\ i \in 1..left
    BY <1>4, <1>5, <2>2
  <2>3. CASE j \in (left + 1)..(left + n) /\ i \in (left + 1)..(left + n)
    BY <1>5, <1>8, <2>3
  <2> QED BY <1>6, <2>1, <2>2, <2>3
<1> QED BY <1>7, <1>8 DEF Rising, Vouchers, p

\* Spending the next voucher of a pool leaves the others next.
LEMMA SpentMore ==
    ASSUME NEW pool \in AuthPools, NEW next, Rising(pool, next), NEW held \in AuthPools, held # << >>,
           NEW spent, NEW m \in 0..Len(pool), SpentUpTo(m, pool, held, spent)
    PROVE  /\ m + 1 \in 0..Len(pool) /\ Len(Tail(held)) = Len(held) - 1 /\ Len(held) \in Nat
           /\ SpentUpTo(m + 1, pool, Tail(held), spent \cup {Head(held).n})
<1>1. /\ Len(held) \in Nat \ {0} /\ Len(pool) \in Nat /\ Head(held) = held[1]
      /\ Len(Tail(held)) = Len(held) - 1
      /\ \A i \in 1..(Len(held) - 1) : Tail(held)[i] = held[i + 1]
  BY HeadTailProperties, LenProperties, EmptySeq DEF AuthPools
<1>2. /\ \A i \in 1..Len(pool) : pool[i].n \in spent <=> i <= m
      /\ m + Len(held) <= Len(pool)
      /\ \A i \in 1..Len(held) : held[i] = pool[m + i]
  BY DEF SpentUpTo
<1>3. m + 1 \in 1..Len(pool) /\ held[1] = pool[m + 1]
  BY <1>1, <1>2
<1>4. \A i \in 1..Len(pool) : pool[i].n = pool[m + 1].n <=> i = m + 1
  <2>1. \A i, j \in 1..Len(pool) : i < j => pool[i].n < pool[j].n /\ pool[i].n \in Int /\ pool[j].n \in Int
    BY DEF Rising, Vouchers
  <2> QED BY <1>1, <1>3, <2>1
<1>5. \A i \in 1..Len(pool) : pool[i].n \in spent \cup {Head(held).n} <=> i <= m + 1
  BY <1>1, <1>2, <1>3, <1>4
<1>6. m + 1 + Len(Tail(held)) <= Len(pool)
  BY <1>1, <1>2
<1>7. ASSUME NEW i \in 1..Len(Tail(held))
      PROVE  Tail(held)[i] = pool[m + 1 + i]
  <2>1. i + 1 \in 1..Len(held) /\ m + (i + 1) = m + 1 + i /\ i \in 1..(Len(held) - 1)
    BY <1>1
  <2> QED BY <1>1, <1>2, <2>1
<1> QED BY <1>1, <1>3, <1>5, <1>6, <1>7 DEF SpentUpTo

LEMMA SpendingCarries ==
    ASSUME NEW pool \in AuthPools, NEW next, Rising(pool, next), NEW held \in AuthPools, held # << >>, NEW spent
    PROVE  /\ Carries(pool, held, spent) =>
                Carries(pool, Tail(held), spent \cup {Head(held).n})
           /\ InStep(pool, held, spent) =>
                InStep(pool, Tail(held), spent \cup {Head(held).n})
<1>1. Len(pool) \in Nat
  BY LenProperties DEF AuthPools
<1>2. ASSUME Carries(pool, held, spent)
      PROVE  Carries(pool, Tail(held), spent \cup {Head(held).n})
  <2>1. PICK m \in 0..Len(pool) : SpentUpTo(m, pool, held, spent)
    BY <1>2 DEF Carries
  <2> QED BY <2>1, SpentMore DEF Carries
<1>3. ASSUME InStep(pool, held, spent)
      PROVE  InStep(pool, Tail(held), spent \cup {Head(held).n})
  <2>1. PICK m \in 0..Len(pool) : SpentUpTo(m, pool, held, spent) /\ m + Len(held) = Len(pool)
    BY <1>3 DEF InStep
  <2>2. /\ m + 1 \in 0..Len(pool) /\ Len(Tail(held)) = Len(held) - 1 /\ Len(held) \in Nat
        /\ SpentUpTo(m + 1, pool, Tail(held), spent \cup {Head(held).n})
    BY <2>1, SpentMore
  <2>3. m + 1 + Len(Tail(held)) = Len(pool)
    BY <1>1, <2>1, <2>2
  <2> QED BY <2>2, <2>3 DEF InStep
<1> QED BY <1>2, <1>3

\* A pool refilled from one in step carries what is held, when no fewer were
\* kept than are held.
LEMMA RefilledCarries ==
    ASSUME NEW have \in AuthPools, NEW left \in Nat, left <= Len(have), Len(loaded) <= left,
           NEW price \in Nat, NEW n \in Nat, signedNext \in Nat, loaded \in AuthPools,
           burnt \subseteq 1..(signedNext - 1), InStep(have, loaded, burnt)
    PROVE  Carries(Refilled(have, left, price, n), loaded, burnt)
<1> DEFINE p == Refilled(have, left, price, n)  d == Len(have) - left
<1>0. Len(have) \in Nat
  BY LenProperties DEF AuthPools
<1>1. /\ Len(have) \in Nat /\ d \in Nat /\ Len(p) = left + n
      /\ \A i \in 1..left : p[i] = have[d + i]
      /\ \A i \in (left + 1)..(left + n) : p[i].n = signedNext + i - left - 1
  <2>1. d \in Nat
    BY <1>0
  <2>2. IsRefilled(p, have, left, n)
    BY RefilledIs
  <2> HIDE DEF p
  <2> QED BY <1>0, <2>1, <2>2 DEF IsRefilled
<1> HIDE DEF p
<1>d. d + left = Len(have)
  BY <1>1
<1> HIDE DEF d
<1>2. PICK m \in 0..Len(have) : SpentUpTo(m, have, loaded, burnt) /\ m + Len(loaded) = Len(have)
  BY DEF InStep
<1>3. /\ \A i \in 1..Len(have) : have[i].n \in burnt <=> i <= m
      /\ \A i \in 1..Len(loaded) : loaded[i] = have[m + i]
      /\ Len(loaded) \in Nat
  BY <1>2, LenProperties DEF SpentUpTo, AuthPools
<1>4. m - d \in 0..Len(p) /\ (m - d) + Len(loaded) = left /\ left <= Len(p)
  <2>0. m \in Int /\ d \in Int /\ Len(loaded) \in Int /\ 0 <= Len(loaded) /\ m + Len(loaded) = d + left
    <3>1. Len(loaded) \in Nat /\ Len(have) \in Nat /\ d \in Nat
      BY <1>1, <1>3
    <3>2. m \in Nat /\ m + Len(loaded) = d + left
      BY <1>d, <1>2, <3>1
    <3> QED BY <3>1, <3>2
  <2>1. m - d = left - Len(loaded) /\ left - Len(loaded) \in 0..left
    BY <2>0
  <2> QED BY <1>1, <1>3, <2>1
<1>5. ASSUME NEW i \in 1..Len(p)
      PROVE  p[i].n \in burnt <=> i <= m - d
  <2>1. CASE i \in 1..left
    <3>1. d + i \in 1..Len(have) /\ (d + i <= m <=> i <= m - d)
      BY <1>1, <1>d, <1>2, <2>1
    <3>2. p[i] = have[d + i]
      BY <1>1, <2>1
    <3> QED BY <1>3, <3>1, <3>2
  <2>2. CASE i \in (left + 1)..(left + n)
    <3>1. p[i].n = signedNext + i - left - 1
      BY <1>1, <2>2
    <3>2. p[i].n \notin burnt
      BY <2>2, <3>1
    <3>3. ~(i <= m - d)
      BY <1>1, <1>2, <1>3, <1>4, <2>2
    <3> QED BY <3>2, <3>3
  <2> QED BY <1>1, <2>1, <2>2
<1>6. ASSUME NEW i \in 1..Len(loaded)
      PROVE  loaded[i] = p[(m - d) + i]
  <2>1. (m - d) + i \in 1..left /\ d + ((m - d) + i) = m + i
    BY <1>1, <1>2, <1>3, <1>4
  <2> QED BY <1>1, <1>3, <2>1
<1>7. (m - d) + Len(loaded) <= Len(p)
  BY <1>4
<1> QED BY <1>4, <1>5, <1>6, <1>7 DEF Carries, SpentUpTo, p

LEMMA EmptyInStep == \A spent : InStep(<< >>, << >>, spent)
<1>1. Len(<< >>) = 0
  OBVIOUS
<1>2. 0 \in 0..Len(<< >>) /\ 0 + Len(<< >>) = Len(<< >>) /\ 1..Len(<< >>) = {}
  BY <1>1
<1> QED BY <1>2 DEF InStep, SpentUpTo

LEMMA InStepCarries == \A pool, held, spent : InStep(pool, held, spent) => Carries(pool, held, spent)
BY DEF InStep, Carries

\* A pool that carries what is held has every voucher held.
LEMMA CarriesCovers ==
    ASSUME NEW pool \in AuthPools, NEW held \in AuthPools, NEW spent, Carries(pool, held, spent)
    PROVE  Vouchers(held) \subseteq Vouchers(pool)
<1>1. PICK m \in 0..Len(pool) : SpentUpTo(m, pool, held, spent)
  BY DEF Carries
<1>2. Len(pool) \in Nat /\ Len(held) \in Nat
  BY LenProperties DEF AuthPools
<1>3. \A i \in 1..Len(held) : m + i \in 1..Len(pool) /\ held[i] = pool[m + i]
  BY <1>1, <1>2 DEF SpentUpTo
<1> QED BY <1>3 DEF Vouchers

\* A load takes all that is left of the pool.
LEMMA LoadInStep ==
    ASSUME NEW pool \in AuthPools, NEW held, Carries(pool, held, burnt)
    PROVE  InStep(pool, Unspent(pool), burnt)
<1>1. PICK m \in 0..Len(pool) : SpentUpTo(m, pool, held, burnt)
  BY DEF Carries
<1>2. \A i \in 1..Len(pool) : pool[i].n \in burnt <=> i <= m
  BY <1>1 DEF SpentUpTo
<1>3. /\ Len(Unspent(pool)) = Len(pool) - m
      /\ \A j \in 1..(Len(pool) - m) : Unspent(pool)[j] = pool[m + j]
  BY <1>2, UnspentIsRest
<1>4. Len(pool) \in Nat
  BY LenProperties DEF AuthPools
<1> HIDE DEF Unspent
<1>5. m + Len(Unspent(pool)) = Len(pool)
  BY <1>3, <1>4
<1>6. m + Len(Unspent(pool)) <= Len(pool)
  BY <1>4, <1>5
<1>7. \A i \in 1..Len(Unspent(pool)) : Unspent(pool)[i] = pool[m + i]
  BY <1>3
<1> QED BY <1>2, <1>5, <1>6, <1>7 DEF InStep, SpentUpTo

-----------------------------------------------------------------------------
(* Orders: who changes what *)

Environment == SellerReprices \/ ControllerLoads \/ SidecarSpends \/ DrainEnds
OnHost ==
    \/ \E flags \in BuyInferenceCommand, asks \in PromptAutoRefill : BuyInference(flags, asks)
    \/ SellerProbed \/ ProbeFails \/ ResolveBuyMode \/ DeletePurchaseRequest \/ ConfirmBuy \/ BuyCancelled
InPod == Quote \/ ReadPurchase \/ ReadStatus \/ Presign \/ PodAborts \/ CreatePurchaseRequest
InBackground == ProcessReads \/ PlanAutoRefill \/ RefillQuotes \/ RefillUsesStored \/ RefillPuts

LEMMA BuySteps == BuyNext <=> Environment \/ OnHost \/ InPod \/ InBackground
BY DEF BuyNext, Environment, OnHost, InPod, InBackground

LEMMA EnvironmentKeeps ==
    Environment => UNCHANGED <<order, refill, signedNext, undercut, orders, refills>>
BY DEF Environment, SellerReprices, ControllerLoads, SidecarSpends, DrainEnds

LEMMA HostKeeps ==
    OnHost => UNCHANGED <<quoted, loaded, refill, signedNext, burnt, undercut, refills>>
BY DEF OnHost, BuyInference, SellerProbed, ProbeFails, ResolveBuyMode, DeletePurchaseRequest,
       ConfirmBuy, BuyCancelled

LEMMA PodKeeps ==
    InPod => UNCHANGED <<quoted, loaded, refill, burnt, orders, refills>>
BY DEF InPod, Quote, ReadPurchase, ReadStatus, Presign, PodAborts, CreatePurchaseRequest

LEMMA BackgroundKeeps ==
    InBackground => UNCHANGED <<quoted, loaded, order, burnt, orders>>
BY DEF InBackground, ProcessReads, PlanAutoRefill, RefillQuotes, RefillUsesStored, RefillSigns, RefillPuts

-----------------------------------------------------------------------------
(* Orders: prices and counts *)

LEMMA MultiplierIsNat == AuthMultiplier(quoted.unit) \in Nat \ {0}
BY BuyAssumption DEF AuthMultiplier

LEMMA WireIsNat ==
    ASSUME BuyTypeOK
    PROVE  Wire(quoted) \in Nat /\ PricingPerUnit \subseteq Nat
<1> DEFINE m == AuthMultiplier(quoted.unit)
<1>1. m \in Nat \ {0}
  BY MultiplierIsNat
<1>2. quoted.price \in Nat
  BY DEF BuyTypeOK
<1> HIDE DEF m
<1>3. quoted.price + m - 1 \in Nat
  BY <1>1, <1>2
<1>4. Wire(quoted) \in Nat
  BY <1>1, <1>3, QuotientIsNat DEF Wire, m
<1>5. Wire(quoted) * m \in Nat
  BY <1>1, <1>4, ProductIsNat
<1> QED BY <1>2, <1>4, <1>5 DEF PricingPerUnit, m

LEMMA ArgvIsPodOrder ==
    ASSUME BuyTypeOK, order.at = "ask"
    PROVE  BuildBuyPyArgv \in PodOrders
<1> DEFINE m == AuthMultiplier(quoted.unit)
<1>1. m \in Nat \ {0}
  BY MultiplierIsNat
<1>2. /\ order.price \in Nat /\ order.count \in Nat /\ order.budget \in Nat
      /\ order.on \in BOOLEAN /\ order.rc \in Nat /\ order.cap \in Nat
  BY OrderKinds DEF BuyTypeOK, OrderIsOf
<1> HIDE DEF m
<1>3. order.count * m \in Nat /\ order.rc * m \in Nat
  BY <1>1, <1>2, ProductIsNat
<1>4. Auths \in Nat
  BY <1>3, BuyAssumption DEF Auths, ApplyAuthCap, m
<1>5. order.price \div m \in Nat
  BY <1>1, <1>2, QuotientIsNat
<1>6. Auths * (order.price \div m) \in Nat
  BY <1>4, <1>5, ProductIsNat
<1>7. Budget \in Nat
  BY <1>6 DEF Budget, ResolveBudget, PricePerAuth, m
<1>8. EffectiveAutoRefillAuths(order.on, order.rc, quoted.unit) \in Nat
  BY <1>3, BuyAssumption DEF EffectiveAutoRefillAuths, ApplyAuthCap, m
<1>9. ResolveCostCap(order.cap, order.price, order.on) \in Nat
  <2>1. order.price * 15000 \in Nat
    BY <1>2
  <2>2. (order.price * 15000) \div 10000 \in Nat
    BY <2>1, QuotientIsNat
  <2> QED BY <1>2, <2>2 DEF ResolveCostCap
<1>10. CostCapForBuyPy(ResolveCostCap(order.cap, order.price, order.on), quoted.unit) \in Nat
  BY <1>1, <1>9, QuotientIsNat DEF CostCapForBuyPy, m
<1> QED BY <1>2, <1>4, <1>7, <1>8, <1>10 DEF BuildBuyPyArgv, PodOrders

LEMMA PolicyIsOne ==
    ASSUME NEW on \in BOOLEAN, NEW rc \in Nat, NEW cap \in Nat, NEW n \in Nat, NEW old \in Policies
    PROVE  ResolveAutoRefill(on, rc, cap, n, old) \in Policies
<1>1. n \div 5 \in Nat
  BY QuotientIsNat
<1>2. DefaultRefillThreshold(n) \in Nat
  BY <1>1 DEF DefaultRefillThreshold
<1> QED BY <1>2 DEF ResolveAutoRefill, Policies

LEMMA NoPolicyIsOne == NoPolicy \in Policies
BY DEF NoPolicy, Policies

-----------------------------------------------------------------------------
(* Orders: types *)

\* What the signing of a command writes, when it does.
LEMMA PresignPosts ==
    ASSUME BuyTypeOK, Presign
    PROVE  /\ order.at = "sign" /\ order.n \in Nat /\ signedNext' = signedNext + order.n
           /\ order.have \in AuthPools /\ order.left \in Nat /\ order.price \in Nat
           /\ \/ order' = NoOrder
              \/ /\ order.left <= Len(order.have)
                 /\ order' \in PodOrders /\ order'.at = "post"
                 /\ order'.pool = Refilled(order.have, order.left, order.price, order.n)
                 /\ order'.pool \in AuthPools
                 /\ order'.budget = order.budget /\ order'.n = order.n /\ order'.price = order.price
                 /\ order'.seen = order.seen
<1> DEFINE pool == Refilled(order.have, order.left, order.price, order.n)
           old == IF order.seen # Unwritten /\ purchase # NoPurchase THEN purchase.policy ELSE NoPolicy
           policy == ResolveAutoRefill(order.on, order.rc, order.cap, Len(pool), old)
           post == [at |-> "post", budget |-> order.budget, seen |-> order.seen,
                    price |-> order.price, n |-> order.n, pool |-> pool,
                    policy |-> policy, on |-> order.on]
<1>1. order.at = "sign" /\ signedNext' = signedNext + order.n
  BY DEF Presign, OrderAt
<1>2. /\ order.n \in Nat /\ order.have \in AuthPools /\ order.left \in Nat /\ order.price \in Nat
      /\ order.budget \in Nat /\ order.on \in BOOLEAN /\ order.rc \in Nat /\ order.cap \in Nat
      /\ order.seen \in Nat \X Nat
  BY <1>1, OrderKinds DEF BuyTypeOK, OrderIsOf
<1>3. \/ order' = NoOrder
      \/ ~(order.left > Len(order.have)) /\ order' = post
  BY DEF Presign, Refilled, OrderEnds
<1>4. ASSUME ~(order.left > Len(order.have)), order' = post
      PROVE  /\ order.left <= Len(order.have)
             /\ order' \in PodOrders /\ order'.at = "post"
             /\ order'.pool = pool /\ order'.pool \in AuthPools
             /\ order'.budget = order.budget /\ order'.n = order.n /\ order'.price = order.price
             /\ order'.seen = order.seen
  <2>0. Len(order.have) \in Nat /\ signedNext \in Nat
    BY <1>2, LenProperties DEF AuthPools, BuyTypeOK
  <2>1. order.left <= Len(order.have)
    BY <1>2, <1>4, <2>0
  <2> HIDE DEF pool, old
  <2>2. pool \in AuthPools
    BY <1>2, <2>0, <2>1, RefilledIs DEF pool, IsRefilled
  <2>3. Len(pool) \in Nat
    BY <2>2, LenProperties DEF AuthPools
  <2>4. old \in Policies
    BY PurchaseFields, NoPolicyIsOne DEF old
  <2>5. policy \in Policies
    BY <1>2, <2>3, <2>4, PolicyIsOne
  <2> HIDE DEF policy
  <2>6. post \in PodOrders
    BY <1>2, <2>2, <2>5 DEF PodOrders
  <2> QED BY <1>4, <2>1, <2>2, <2>6
<1> QED BY <1>1, <1>2, <1>3, <1>4

LEMMA OrderTyped ==
    ASSUME BuyTypeOK, [BuyNext]_buyVars
    PROVE  order' \in {NoOrder} \cup HostOrders \cup PodOrders
<1>o. OrderIsOf(order) /\ order \in {NoOrder} \cup HostOrders \cup PodOrders
  BY OrderKinds DEF BuyTypeOK
<1>0. CASE UNCHANGED order
  BY <1>0, <1>o
<1>1. ASSUME NEW flags \in BuyInferenceCommand, NEW asks \in PromptAutoRefill, BuyInference(flags, asks)
      PROVE  order' \in HostOrders
  <2>1. PICK catalog \in FetchServiceCatalog, price \in PricingPerUnit :
          \E e \in PickCatalogEntry(PinCatalogToSeller(catalog), flags.typed) :
            order' = [at |-> "probe", url |-> CanonicalOfferURL(e, flags.typed),
                      price |-> price, count |-> PromptCount(flags.count),
                      budget |-> flags.budget, on |-> asks.on, rc |-> asks.rc,
                      cap |-> flags.cap, replace |-> flags.replace]
    BY <1>1 DEF BuyInference
  <2>2. PICK e \in PickCatalogEntry(PinCatalogToSeller(catalog), flags.typed) :
            order' = [at |-> "probe", url |-> CanonicalOfferURL(e, flags.typed),
                      price |-> price, count |-> PromptCount(flags.count),
                      budget |-> flags.budget, on |-> asks.on, rc |-> asks.rc,
                      cap |-> flags.cap, replace |-> flags.replace]
    BY <2>1
  <2>3. e \in CatalogEntries
    BY <2>2, BuyAssumption DEF PickCatalogEntry, PinCatalogToSeller, FetchServiceCatalog
  <2>4. CanonicalOfferURL(e, flags.typed) \in Places
    BY <2>3 DEF CanonicalOfferURL, CatalogEntries, Places
  <2>5. price \in Nat
    BY WireIsNat
  <2>6. /\ PromptCount(flags.count) \in Nat /\ flags.budget \in Nat /\ flags.cap \in Nat
        /\ flags.replace \in BOOLEAN /\ asks.on \in BOOLEAN /\ asks.rc \in Nat
    BY DEF BuyInferenceCommand, PromptAutoRefill, PromptCount
  <2> QED BY <2>2, <2>4, <2>5, <2>6 DEF HostOrders
<1>2. CASE SellerProbed
  <2>1. order.at = "probe"
    BY <1>2 DEF SellerProbed, OrderAt
  <2> QED BY <1>2, <1>o, <2>1 DEF SellerProbed, OrderIsOf, HostOrders
<1>3. CASE ProbeFails \/ BuyCancelled \/ PodAborts \/ CreatePurchaseRequest
  BY <1>3 DEF ProbeFails, BuyCancelled, PodAborts, CreatePurchaseRequest, OrderEnds
<1>4. CASE ResolveBuyMode \/ DeletePurchaseRequest
  <2>1. order.at \in {"mode", "deleting"} /\ (OrderGoes("deleting") \/ OrderGoes("ask"))
    BY <1>4 DEF ResolveBuyMode, DeletePurchaseRequest, OrderAt
  <2>2. order \in [at : {"mode", "deleting", "ask"}, price : Nat, count : Nat, budget : Nat,
                   on : BOOLEAN, rc : Nat, cap : Nat, replace : BOOLEAN]
    BY <1>o, <2>1 DEF OrderIsOf
  <2> QED BY <2>1, <2>2 DEF OrderGoes, HostOrders
<1>5. CASE ConfirmBuy
  BY <1>5, ArgvIsPodOrder DEF ConfirmBuy, OrderAt
<1>6. CASE Quote
  <2>1. order.at = "pod"
    BY <1>6 DEF Quote, OrderAt
  <2>2. order.n \in Nat /\ order.budget \in Nat /\ order.on \in BOOLEAN /\ order.rc \in Nat /\ order.cap \in Nat
    BY <1>o, <2>1 DEF OrderIsOf
  <2> QED BY <1>6, <2>2, WireIsNat DEF Quote, OrderEnds, PodOrders
<1>7. CASE ReadPurchase \/ ReadStatus
  <2>1. order.at \in {"read", "status"}
    BY <1>7 DEF ReadPurchase, ReadStatus, OrderAt
  <2>2. /\ order.n \in Nat /\ order.budget \in Nat /\ order.on \in BOOLEAN
        /\ order.rc \in Nat /\ order.cap \in Nat /\ order.price \in Nat
    BY <1>o, <2>1 DEF OrderIsOf
  <2>3. order.at = "status" => order.have \in AuthPools /\ order.seen \in Nat \X Nat
    BY <1>o DEF OrderIsOf
  <2>4. ASSUME NEW s \in {"status", "sign"}, NEW auths \in AuthPools, NEW seen \in Nat \X Nat, NEW left \in Nat
        PROVE  Reading(s, auths, seen, left) \in PodOrders
    BY <2>2 DEF Reading, PodOrders
  <2>5. << >> \in AuthPools /\ Unwritten \in Nat \X Nat /\ Len(loaded) \in Nat
    BY EmptySeq, LenProperties DEF AuthPools, Unwritten, BuyTypeOK
  <2>6. purchase # NoPurchase => purchase.auths \in AuthPools /\ WrittenPool \in Nat \X Nat
    BY PurchaseFields DEF WrittenPool
  <2>7. CASE ReadPurchase
    BY <2>4, <2>5, <2>6, <2>7 DEF ReadPurchase, OrderEnds
  <2>8. CASE ReadStatus
    BY <2>3, <2>4, <2>5, <2>8 DEF ReadStatus, OrderAt
  <2> QED BY <1>7, <2>7, <2>8
<1>8. CASE Presign
  BY <1>8, PresignPosts
<1> QED
  BY <1>0, <1>1, <1>2, <1>3, <1>4, <1>5, <1>6, <1>7, <1>8, EnvironmentKeeps, BackgroundKeeps, BuySteps
     DEF OnHost, InPod, buyVars

\* What the signing of a round writes, when it does.
LEMMA RoundPuts ==
    ASSUME BuyTypeOK, RefillQuotes \/ RefillUsesStored
    PROVE  /\ refill.at = "quote" /\ refill.have \in AuthPools /\ refill.left \in Nat
           /\ refill.policy.count \in Nat
           /\ signedNext' \in {signedNext, signedNext + refill.policy.count}
           /\ UNCHANGED <<quoted, purchase, loaded, order, burnt, undercut, orders, refills>>
           /\ moves' \in {moves, moves + 1} /\ (moves' # moves => moves < MaxMoves)
           /\ \/ refill' = NoOrder
              \/ \E price \in Nat :
                   /\ refill.left <= Len(refill.have) /\ signedNext' = signedNext + refill.policy.count
                   /\ UnderCeiling(price, refill.policy, refill.stored)
                   /\ refill' = [at |-> "put", since |-> refill.since, price |-> price,
                                 policy |-> refill.policy,
                                 pool |-> Refilled(refill.have, refill.left, price, refill.policy.count)]
                   /\ refill' \in Refills
<1>1. refill.at = "quote"
  BY DEF RefillQuotes, RefillUsesStored, RefillSigns
<1>2. /\ refill.have \in AuthPools /\ refill.left \in Nat /\ refill.policy \in Policies
      /\ refill.since \in Nat \X Nat /\ refill.stored \in Nat
  BY <1>1, RefillKinds DEF BuyTypeOK, RefillIsOf, NoOrder
<1>3. refill.policy.count \in Nat
  BY <1>2 DEF Policies
<1>4. PICK price \in Nat : RefillSigns(price)
  BY <1>2, WireIsNat DEF RefillQuotes, RefillUsesStored
<1>5. /\ signedNext' \in {signedNext, signedNext + refill.policy.count}
      /\ UNCHANGED <<quoted, purchase, loaded, order, burnt, undercut, orders, refills>>
  BY <1>4 DEF RefillSigns
<1>6. moves' \in {moves, moves + 1} /\ (moves' # moves => moves < MaxMoves)
  BY DEF RefillQuotes, RefillUsesStored, Moves
<1> DEFINE put == [at |-> "put", since |-> refill.since, price |-> price, policy |-> refill.policy,
                   pool |-> Refilled(refill.have, refill.left, price, refill.policy.count)]
<1>7. \/ refill' = NoOrder
      \/ /\ ~(refill.left > Len(refill.have)) /\ signedNext' = signedNext + refill.policy.count
         /\ UnderCeiling(price, refill.policy, refill.stored)
         /\ refill' = put
  BY <1>4 DEF RefillSigns, Refilled, RefillEnds
<1>8. CASE refill' = NoOrder
  BY <1>1, <1>2, <1>3, <1>5, <1>6, <1>8
<1>9. CASE /\ ~(refill.left > Len(refill.have)) /\ signedNext' = signedNext + refill.policy.count
           /\ UnderCeiling(price, refill.policy, refill.stored)
           /\ refill' = put
  <2>1. Len(refill.have) \in Nat /\ signedNext \in Nat
    BY <1>2, LenProperties DEF AuthPools, BuyTypeOK
  <2>2. refill.left <= Len(refill.have)
    BY <1>2, <1>9, <2>1
  <2>3. Refilled(refill.have, refill.left, price, refill.policy.count) \in AuthPools
    BY <1>2, <1>3, <2>1, <2>2, RefilledIs DEF IsRefilled
  <2>4. put \in Refills
    BY <1>2, <2>3 DEF Refills
  <2> QED BY <1>1, <1>2, <1>3, <1>5, <1>6, <1>9, <2>2, <2>4
<1> QED BY <1>7, <1>8, <1>9

LEMMA RefillTyped ==
    ASSUME BuyTypeOK, [BuyNext]_buyVars
    PROVE  refill' \in {NoOrder} \cup Refills
<1>r. RefillIsOf(refill) /\ refill \in {NoOrder} \cup Refills
  BY RefillKinds DEF BuyTypeOK
<1>0. CASE UNCHANGED refill
  BY <1>0, <1>r
<1>1. CASE ProcessReads
  <2>1. Len(loaded) \in Nat /\ Followed \in Nat \X Nat
    BY <1>1, PurchaseFields, LenProperties DEF ProcessReads, Followed, BuyTypeOK, AuthPools
  <2> QED BY <1>1, <2>1 DEF ProcessReads, Refills
<1>2. CASE PlanAutoRefill
  <2>1. refill.at = "list" /\ refill.left \in Nat /\ refill.since \in Nat \X Nat
    BY <1>2, <1>r DEF PlanAutoRefill, RefillIsOf, NoOrder
  <2> QED BY <1>2, <2>1, PurchaseFields DEF PlanAutoRefill, RefillEnds, Refills
<1>3. CASE RefillQuotes \/ RefillUsesStored
  BY <1>3, RoundPuts
<1>4. CASE RefillPuts
  BY <1>4 DEF RefillPuts, RefillEnds
<1> QED BY <1>0, <1>1, <1>2, <1>3, <1>4, EnvironmentKeeps, HostKeeps, PodKeeps, BuySteps DEF InBackground, buyVars

\* Which vouchers there are: those signed, whose number only grows.
LEMMA NumbersGrow ==
    ASSUME BuyTypeOK, [BuyNext]_buyVars
    PROVE  /\ signedNext' \in Nat \ {0} /\ signedNext <= signedNext'
           /\ signedNext' = signedNext \/ Presign \/ RefillQuotes \/ RefillUsesStored
<1>0. signedNext \in Nat \ {0}
  BY DEF BuyTypeOK
<1>1. CASE UNCHANGED signedNext
  BY <1>0, <1>1
<1>2. CASE Presign
  BY <1>0, <1>2, PresignPosts
<1>3. CASE RefillQuotes \/ RefillUsesStored
  BY <1>0, <1>3, RoundPuts
<1>4. CASE Quote \/ ReadPurchase \/ ReadStatus \/ PodAborts \/ CreatePurchaseRequest
  BY <1>1, <1>4 DEF Quote, ReadPurchase, ReadStatus, PodAborts, CreatePurchaseRequest
<1>5. CASE ProcessReads \/ PlanAutoRefill \/ RefillPuts
  BY <1>1, <1>5 DEF ProcessReads, PlanAutoRefill, RefillPuts
<1> QED
  BY <1>1, <1>2, <1>3, <1>4, <1>5, EnvironmentKeeps, HostKeeps, BuySteps DEF InPod, InBackground, buyVars

\* How a purchase changes.
LEMMA PurchaseMoves ==
    ASSUME BuyTypeOK, [BuyNext]_buyVars
    PROVE  \/ UNCHANGED purchase
           \/ /\ ControllerLoads /\ purchase # NoPurchase
              /\ purchase' = [purchase EXCEPT !.loadedGen = purchase.gen]
           \/ DrainEnds /\ purchase' = NoPurchase
           \/ ResolveBuyMode /\ purchase # NoPurchase /\ purchase' = [purchase EXCEPT !.deleting = TRUE]
           \/ /\ CreatePurchaseRequest /\ order.at = "post" /\ purchase = NoPurchase
              /\ purchase' = [auths |-> order.pool, price |-> order.price, policy |-> order.policy,
                              deleting |-> FALSE, uid |-> orders, gen |-> 1, loadedGen |-> 0]
           \/ /\ CreatePurchaseRequest /\ order.at = "post" /\ purchase # NoPurchase
              /\ purchase' = [purchase EXCEPT !.auths = order.pool, !.price = order.price,
                                              !.policy = order.policy, !.gen = @ + 1]
           \/ /\ RefillPuts /\ refill.at = "put" /\ purchase # NoPurchase
              /\ purchase' = [purchase EXCEPT !.auths = refill.pool, !.gen = @ + 1]
<1>1. CASE Environment
  BY <1>1 DEF Environment, SellerReprices, ControllerLoads, SidecarSpends, DrainEnds
<1>2. CASE OnHost
  BY <1>2 DEF OnHost, BuyInference, SellerProbed, ProbeFails, ResolveBuyMode, DeletePurchaseRequest,
              ConfirmBuy, BuyCancelled
<1>3. CASE InPod
  BY <1>3 DEF InPod, Quote, ReadPurchase, ReadStatus, Presign, PodAborts, CreatePurchaseRequest, OrderAt
<1>4. CASE InBackground
  BY <1>4, RoundPuts DEF InBackground, ProcessReads, PlanAutoRefill, RefillPuts
<1> QED BY <1>1, <1>2, <1>3, <1>4, BuySteps DEF buyVars

LEMMA PurchaseTyped ==
    ASSUME BuyTypeOK, [BuyNext]_buyVars
    PROVE  /\ purchase' \in Purchases \cup {NoPurchase}
           /\ purchase' # NoPurchase => purchase'.loadedGen \in 0..purchase'.gen
<1>o. order.at = "post" => order.pool \in AuthPools /\ order.price \in Nat /\ order.policy \in Policies
  BY OrderKinds DEF BuyTypeOK, OrderIsOf
<1>r. refill.at = "put" => refill.pool \in AuthPools
  BY RefillKinds DEF BuyTypeOK, RefillIsOf
<1>p. /\ purchase \in Purchases \cup {NoPurchase} /\ orders \in Nat
      /\ purchase # NoPurchase => purchase.loadedGen \in 0..purchase.gen /\ purchase.gen \in Nat
  BY PurchaseFields, BuyAssumption DEF BuyTypeOK
<1>1. CASE UNCHANGED purchase \/ purchase' = NoPurchase
  BY <1>p, <1>1
<1>2. CASE purchase # NoPurchase /\ purchase' = [purchase EXCEPT !.loadedGen = purchase.gen]
  BY <1>p, <1>2 DEF Purchases
<1>3. CASE purchase # NoPurchase /\ purchase' = [purchase EXCEPT !.deleting = TRUE]
  BY <1>p, <1>3 DEF Purchases
<1>4. CASE /\ order.at = "post"
           /\ purchase' = [auths |-> order.pool, price |-> order.price, policy |-> order.policy,
                           deleting |-> FALSE, uid |-> orders, gen |-> 1, loadedGen |-> 0]
  BY <1>o, <1>p, <1>4 DEF Purchases
<1>5. CASE /\ order.at = "post" /\ purchase # NoPurchase
           /\ purchase' = [purchase EXCEPT !.auths = order.pool, !.price = order.price,
                                           !.policy = order.policy, !.gen = @ + 1]
  <2>0. purchase \in Purchases /\ purchase.gen + 1 \in Nat
    BY <1>p, <1>5 DEF Purchases
  <2>1. purchase' \in Purchases
    BY <1>o, <1>5, <2>0 DEF Purchases
  <2>2. purchase'.loadedGen = purchase.loadedGen /\ purchase'.gen = purchase.gen + 1
    BY <1>p, <1>5 DEF Purchases
  <2>3. purchase.loadedGen \in 0..purchase.gen /\ purchase.gen \in Nat
    BY <1>p, <1>5
  <2> QED BY <2>1, <2>2, <2>3
<1>6. CASE /\ refill.at = "put" /\ purchase # NoPurchase
           /\ purchase' = [purchase EXCEPT !.auths = refill.pool, !.gen = @ + 1]
  <2>0. purchase \in Purchases /\ purchase.gen + 1 \in Nat
    BY <1>p, <1>6 DEF Purchases
  <2>1. purchase' \in Purchases
    BY <1>r, <1>6, <2>0 DEF Purchases
  <2>2. purchase'.loadedGen = purchase.loadedGen /\ purchase'.gen = purchase.gen + 1
    BY <1>p, <1>6 DEF Purchases
  <2>3. purchase.loadedGen \in 0..purchase.gen /\ purchase.gen \in Nat
    BY <1>p, <1>6
  <2> QED BY <2>1, <2>2, <2>3
<1> QED BY <1>1, <1>2, <1>3, <1>4, <1>5, <1>6, PurchaseMoves

LEMMA LoadedTyped ==
    ASSUME BuyTypeOK, [BuyNext]_buyVars
    PROVE  loaded' \in AuthPools
<1>1. CASE UNCHANGED loaded
  BY <1>1 DEF BuyTypeOK
<1>2. CASE ControllerLoads
  BY <1>2, PurchaseFields, UnspentAmong DEF ControllerLoads
<1>3. CASE SidecarSpends
  BY <1>3, HeadTailProperties DEF SidecarSpends, BuyTypeOK, AuthPools
<1>4. CASE SellerReprices \/ DrainEnds
  BY <1>1, <1>4 DEF SellerReprices, DrainEnds
<1> QED BY <1>1, <1>2, <1>3, <1>4, HostKeeps, PodKeeps, BackgroundKeeps, BuySteps DEF Environment, buyVars

LEMMA CountsTyped ==
    ASSUME BuyTypeOK, [BuyNext]_buyVars
    PROVE  /\ quoted' \in [price : 1..TopPrice, unit : Units] /\ undercut' \in BOOLEAN
           /\ orders' \in 0..MaxOrders /\ refills' \in 0..MaxRefills /\ moves' \in 0..MaxMoves
<1>0. /\ quoted \in [price : 1..TopPrice, unit : Units] /\ undercut \in BOOLEAN
      /\ orders \in 0..MaxOrders /\ refills \in 0..MaxRefills /\ moves \in 0..MaxMoves
      /\ {MaxOrders, MaxRefills, MaxMoves} \subseteq Nat
  BY BuyAssumption DEF BuyTypeOK
<1>1. CASE UNCHANGED <<quoted, undercut, orders, refills, moves>>
  BY <1>0, <1>1
<1>2. CASE Environment
  BY <1>0, <1>2 DEF Environment, SellerReprices, ControllerLoads, SidecarSpends, DrainEnds, Moves
<1>3. CASE OnHost
  <2>1. UNCHANGED <<quoted, undercut, refills>>
    BY <1>3, HostKeeps
  <2>2. CASE \E flags \in BuyInferenceCommand, asks \in PromptAutoRefill : BuyInference(flags, asks)
    BY <1>0, <2>1, <2>2 DEF BuyInference
  <2>3. CASE ProbeFails \/ BuyCancelled
    <3>1. UNCHANGED orders /\ (moves' = moves \/ (moves < MaxMoves /\ moves' = moves + 1))
      BY <2>3 DEF ProbeFails, BuyCancelled, Moves
    <3> QED BY <1>0, <2>1, <3>1
  <2>4. CASE SellerProbed \/ ResolveBuyMode \/ DeletePurchaseRequest \/ ConfirmBuy
    <3>1. UNCHANGED <<orders, moves>>
      BY <2>4 DEF SellerProbed, ResolveBuyMode, DeletePurchaseRequest, ConfirmBuy
    <3> QED BY <1>0, <2>1, <3>1
  <2> QED BY <1>3, <2>2, <2>3, <2>4 DEF OnHost
<1>4. CASE InPod
  <2>1. UNCHANGED <<quoted, orders, refills>>
    BY <1>4, PodKeeps
  <2>2. moves' \in 0..MaxMoves
    BY <1>0, <1>4 DEF InPod, Quote, ReadPurchase, ReadStatus, Presign, PodAborts, CreatePurchaseRequest, Moves
  <2>3. undercut' \in BOOLEAN
    BY <1>0, <1>4, Zenon
       DEF InPod, Quote, ReadPurchase, ReadStatus, Presign, PodAborts, CreatePurchaseRequest
  <2> QED BY <1>0, <2>1, <2>2, <2>3
<1>5. CASE RefillQuotes \/ RefillUsesStored
  <2>1. /\ UNCHANGED <<quoted, undercut, orders, refills>>
        /\ moves' \in {moves, moves + 1} /\ (moves' # moves => moves < MaxMoves)
    BY <1>5, RoundPuts
  <2> QED BY <1>0, <2>1
<1>6. CASE ProcessReads
  BY <1>0, <1>6 DEF ProcessReads
<1>7. CASE PlanAutoRefill
  BY <1>0, <1>7 DEF PlanAutoRefill
<1>8. CASE RefillPuts
  <2>1. UNCHANGED <<quoted, orders, refills, moves>>
    BY <1>8 DEF RefillPuts
  <2>2. undercut' \in BOOLEAN
    BY <1>0, <1>8, Zenon DEF RefillPuts
  <2> QED BY <1>0, <2>1, <2>2
<1> QED BY <1>1, <1>2, <1>3, <1>4, <1>5, <1>6, <1>7, <1>8, BuySteps DEF InBackground, buyVars

-----------------------------------------------------------------------------
(* Orders: what a command and a round have read *)

LEMMA OrderMoves ==
    ASSUME BuyTypeOK, [BuyNext]_buyVars
    PROVE  \/ UNCHANGED order
           \/ order'.at \in {"none", "probe", "mode", "deleting", "ask", "pod"}
           \/ /\ Quote /\ order.at = "pod" /\ order'.at = "read"
              /\ order'.n * order'.price <= order'.budget
           \/ /\ ReadPurchase /\ order.at = "read" /\ purchase = NoPurchase
              /\ order' = Reading("sign", << >>, Unwritten, 0)
           \/ /\ ReadPurchase /\ order.at = "read" /\ purchase # NoPurchase
              /\ ~purchase.deleting /\ ~PendingSync
              /\ order' = Reading("status", purchase.auths, WrittenPool, 0)
           \/ /\ ReadStatus /\ order.at = "status"
              /\ order' = Reading("sign", order.have, order.seen, Len(loaded))
           \/ Presign /\ order'.at = "post"
<1>0. CASE UNCHANGED order
  BY <1>0
<1>1. CASE OnHost
  <2>1. CASE \E flags \in BuyInferenceCommand, asks \in PromptAutoRefill : BuyInference(flags, asks)
    <3>1. PICK flags \in BuyInferenceCommand, asks \in PromptAutoRefill : BuyInference(flags, asks)
      BY <2>1
    <3>2. order'.at = "probe"
      BY <3>1 DEF BuyInference
    <3> QED BY <3>2
  <2>2. CASE SellerProbed \/ ConfirmBuy
    <3>1. SellerProbed => order'.at = "mode"
      BY DEF SellerProbed
    <3>2. ConfirmBuy => order'.at = "pod"
      BY DEF ConfirmBuy, BuildBuyPyArgv
    <3> QED BY <2>2, <3>1, <3>2
  <2>3. CASE ProbeFails \/ BuyCancelled
    <3>1. order' = NoOrder
      BY <2>3 DEF ProbeFails, BuyCancelled, OrderEnds
    <3> QED BY <3>1 DEF NoOrder
  <2>4. CASE ResolveBuyMode \/ DeletePurchaseRequest
    <3>1. order.at \in {"mode", "deleting"} /\ (OrderGoes("deleting") \/ OrderGoes("ask"))
      BY <2>4 DEF ResolveBuyMode, DeletePurchaseRequest, OrderAt
    <3>2. order \in [at : {"mode", "deleting", "ask"}, price : Nat, count : Nat, budget : Nat,
                     on : BOOLEAN, rc : Nat, cap : Nat, replace : BOOLEAN]
      BY <3>1, OrderKinds DEF BuyTypeOK, OrderIsOf
    <3>3. order'.at \in {"deleting", "ask"}
      BY <3>1, <3>2 DEF OrderGoes
    <3> QED BY <3>3
  <2> QED BY <1>1, <2>1, <2>2, <2>3, <2>4 DEF OnHost
<1>2. CASE Quote
  BY <1>2 DEF Quote, OrderAt, WithinBudget, OrderEnds, NoOrder
<1>3. CASE ReadPurchase
  BY <1>3 DEF ReadPurchase, OrderAt, OrderEnds, NoOrder
<1>4. CASE ReadStatus
  BY <1>4 DEF ReadStatus, OrderAt
<1>5. CASE Presign
  <2>1. order' = NoOrder \/ order'.at = "post"
    BY <1>5, PresignPosts
  <2> QED BY <1>5, <2>1 DEF NoOrder
<1>6. CASE PodAborts \/ CreatePurchaseRequest
  BY <1>6 DEF PodAborts, CreatePurchaseRequest, OrderEnds, NoOrder
<1> QED BY <1>0, <1>1, <1>2, <1>3, <1>4, <1>5, <1>6, EnvironmentKeeps, BackgroundKeeps, BuySteps DEF InPod, buyVars

LEMMA RefillMoves ==
    ASSUME BuyTypeOK, [BuyNext]_buyVars
    PROVE  \/ UNCHANGED refill \/ refill' = NoOrder
           \/ /\ ProcessReads /\ purchase # NoPurchase
              /\ refill' = [at |-> "list", left |-> Len(loaded), since |-> Followed]
           \/ /\ PlanAutoRefill /\ refill.at = "list" /\ purchase # NoPurchase /\ ~PendingSync
              /\ refill' = [at |-> "quote", left |-> refill.left, since |-> refill.since,
                            have |-> purchase.auths, policy |-> purchase.policy,
                            stored |-> purchase.price]
           \/ (RefillQuotes \/ RefillUsesStored) /\ refill.at = "quote" /\ refill'.at = "put"
<1>1. CASE ProcessReads \/ PlanAutoRefill \/ RefillPuts
  BY <1>1 DEF ProcessReads, PlanAutoRefill, RefillPuts, RefillEnds
<1>2. CASE RefillQuotes \/ RefillUsesStored
  <2>1. refill.at = "quote" /\ (refill' = NoOrder \/ refill'.at = "put")
    BY <1>2, RoundPuts
  <2> QED BY <1>2, <2>1
<1> QED BY <1>1, <1>2, EnvironmentKeeps, HostKeeps, PodKeeps, BuySteps DEF InBackground, buyVars

LEMMA FewerNumbers ==
    ASSUME NEW a \in Nat \ {0}, NEW b \in Nat \ {0}, a <= b
    PROVE  1..(a - 1) \subseteq 1..(b - 1)
OBVIOUS

LEMMA PoolsStep ==
    ASSUME BuyTypeOK, PoolsRise, [BuyNext]_buyVars
    PROVE  PoolsRise'
<1>n. signedNext \in Nat \ {0} /\ signedNext' \in Nat \ {0} /\ signedNext <= signedNext'
  BY NumbersGrow DEF BuyTypeOK
<1>l. \A pool : Rising(pool, signedNext) => Rising(pool, signedNext')
  BY <1>n, RisingLater
<1>a. purchase # NoPurchase => Rising(purchase.auths, signedNext')
  BY <1>l DEF PoolsRise
<1>1. Vouchers(loaded') \subseteq 1..(signedNext' - 1)
  <2>0. \A V : V \subseteq 1..(signedNext - 1) => V \subseteq 1..(signedNext' - 1)
    BY <1>n, FewerNumbers
  <2>1. CASE UNCHANGED loaded
    BY <2>0, <2>1 DEF PoolsRise, Vouchers
  <2>2. CASE ControllerLoads
    <3>1. Vouchers(loaded') \subseteq Vouchers(purchase.auths) /\ purchase # NoPurchase
      BY <2>2, PurchaseFields, UnspentAmong DEF ControllerLoads
    <3> QED BY <1>a, <3>1 DEF Rising
  <2>3. CASE SidecarSpends
    <3>1. /\ Len(loaded) \in Nat \ {0} /\ Len(loaded') = Len(loaded) - 1
          /\ \A i \in 1..(Len(loaded) - 1) : loaded'[i] = loaded[i + 1]
      BY <2>3, HeadTailProperties, LenProperties, EmptySeq DEF SidecarSpends, BuyTypeOK, AuthPools
    <3>2. \A i \in 1..Len(loaded') : i + 1 \in 1..Len(loaded) /\ loaded'[i] = loaded[i + 1]
      BY <3>1
    <3>3. Vouchers(loaded') \subseteq Vouchers(loaded)
      BY <3>2 DEF Vouchers
    <3> QED BY <2>0, <3>3 DEF PoolsRise
  <2>4. CASE SellerReprices \/ DrainEnds
    BY <2>1, <2>4 DEF SellerReprices, DrainEnds
  <2> QED BY <2>1, <2>2, <2>3, <2>4, HostKeeps, PodKeeps, BackgroundKeeps, BuySteps DEF Environment, buyVars
<1>2. purchase' # NoPurchase => Rising(purchase'.auths, signedNext')
  <2>1. order.at = "post" => Rising(order.pool, signedNext')
    BY <1>l DEF PoolsRise
  <2>2. refill.at = "put" => Rising(refill.pool, signedNext')
    BY <1>l DEF PoolsRise
  <2>3. purchase # NoPurchase => purchase \in Purchases
    BY DEF BuyTypeOK
  <2>4. \/ purchase' = NoPurchase
        \/ purchase # NoPurchase /\ purchase'.auths = purchase.auths
        \/ order.at = "post" /\ purchase'.auths = order.pool
        \/ refill.at = "put" /\ purchase'.auths = refill.pool
    <3>1. CASE UNCHANGED purchase \/ purchase' = NoPurchase
      BY <3>1
    <3>2. CASE purchase # NoPurchase /\ purchase' = [purchase EXCEPT !.loadedGen = purchase.gen]
      BY <2>3, <3>2 DEF Purchases
    <3>3. CASE purchase # NoPurchase /\ purchase' = [purchase EXCEPT !.deleting = TRUE]
      BY <2>3, <3>3 DEF Purchases
    <3>4. CASE /\ order.at = "post"
               /\ purchase' = [auths |-> order.pool, price |-> order.price, policy |-> order.policy,
                               deleting |-> FALSE, uid |-> orders, gen |-> 1, loadedGen |-> 0]
      BY <3>4
    <3>5. CASE /\ order.at = "post" /\ purchase # NoPurchase
               /\ purchase' = [purchase EXCEPT !.auths = order.pool, !.price = order.price,
                                               !.policy = order.policy, !.gen = @ + 1]
      BY <2>3, <3>5 DEF Purchases
    <3>6. CASE /\ refill.at = "put" /\ purchase # NoPurchase
               /\ purchase' = [purchase EXCEPT !.auths = refill.pool, !.gen = @ + 1]
      BY <2>3, <3>6 DEF Purchases
    <3> QED BY <3>1, <3>2, <3>3, <3>4, <3>5, <3>6, PurchaseMoves
  <2> QED BY <1>a, <2>1, <2>2, <2>4
<1>3. order'.at \in {"status", "sign"} => Rising(order'.have, signedNext')
  <2>1. Rising(<< >>, signedNext')
    BY DEF Rising, Vouchers
  <2>2. order.at \in {"status", "sign"} => Rising(order.have, signedNext')
    BY <1>l DEF PoolsRise
  <2> QED BY <1>a, <2>1, <2>2, OrderMoves DEF Reading
<1>4. order'.at = "post" => Rising(order'.pool, signedNext')
  <2>1. CASE UNCHANGED order
    BY <1>l, <2>1 DEF PoolsRise
  <2>2. CASE Presign /\ order'.at = "post"
    <3>1. /\ order.at = "sign" /\ order.n \in Nat /\ signedNext' = signedNext + order.n
          /\ order.have \in AuthPools /\ order.left \in Nat /\ order.price \in Nat
          /\ order.left <= Len(order.have)
          /\ order'.pool = Refilled(order.have, order.left, order.price, order.n)
      BY <2>2, PresignPosts DEF NoOrder
    <3>2. Rising(order.have, signedNext)
      BY <3>1 DEF PoolsRise
    <3> QED BY <1>n, <3>1, <3>2, RisingRefilled
  <2> QED BY <2>1, <2>2, OrderMoves DEF Reading
<1>5. refill'.at = "quote" => Rising(refill'.have, signedNext')
  BY <1>l, <1>a, RefillMoves DEF PoolsRise, NoOrder
<1>6. refill'.at = "put" => Rising(refill'.pool, signedNext')
  <2>1. CASE UNCHANGED refill
    BY <1>l, <2>1 DEF PoolsRise
  <2>2. CASE (RefillQuotes \/ RefillUsesStored) /\ refill'.at = "put"
    <3>1. PICK price \in Nat :
            /\ refill.at = "quote" /\ refill.have \in AuthPools /\ refill.left \in Nat
            /\ refill.policy.count \in Nat
            /\ refill.left <= Len(refill.have) /\ signedNext' = signedNext + refill.policy.count
            /\ refill'.pool = Refilled(refill.have, refill.left, price, refill.policy.count)
      BY <2>2, RoundPuts DEF NoOrder
    <3>2. Rising(refill.have, signedNext)
      BY <3>1 DEF PoolsRise
    <3> QED BY <1>n, <3>1, <3>2, RisingRefilled
  <2> QED BY <2>1, <2>2, RefillMoves DEF NoOrder
<1> QED BY <1>1, <1>2, <1>3, <1>4, <1>5, <1>6 DEF PoolsRise

LEMMA BuyTyped ==
    ASSUME BuyTypeOK, PoolsRise, [BuyNext]_buyVars
    PROVE  BuyTypeOK'
<1>1. purchase' # NoPurchase => Vouchers(purchase'.auths) \subseteq 1..(signedNext' - 1)
  BY PoolsStep DEF PoolsRise, Rising
<1>2. burnt' \subseteq 1..(signedNext' - 1)
  <2>1. signedNext \in Nat \ {0} /\ signedNext' \in Nat \ {0} /\ signedNext <= signedNext'
    BY NumbersGrow DEF BuyTypeOK
  <2>2. burnt \subseteq 1..(signedNext - 1) /\ Vouchers(loaded) \subseteq 1..(signedNext - 1)
    BY DEF BuyTypeOK, PoolsRise
  <2>3. burnt' \subseteq burnt \cup Vouchers(loaded)
    <3>1. CASE SidecarSpends
      <4>1. Len(loaded) \in Nat \ {0} /\ Head(loaded) = loaded[1]
        BY <3>1, LenProperties, EmptySeq DEF SidecarSpends, BuyTypeOK, AuthPools
      <4>2. 1 \in 1..Len(loaded)
        BY <4>1
      <4>3. Head(loaded).n \in Vouchers(loaded)
        BY <4>1, <4>2 DEF Vouchers
      <4> QED BY <3>1, <4>3 DEF SidecarSpends
    <3>2. CASE SellerReprices \/ ControllerLoads \/ DrainEnds
      BY <3>2 DEF SellerReprices, ControllerLoads, DrainEnds
    <3> QED BY <3>1, <3>2, HostKeeps, PodKeeps, BackgroundKeeps, BuySteps DEF Environment, buyVars
  <2>4. 1..(signedNext - 1) \subseteq 1..(signedNext' - 1)
    BY <2>1, FewerNumbers
  <2> QED BY <2>2, <2>3, <2>4
<1>3. signedNext' \in Nat \ {0}
  BY NumbersGrow
<1> QED
  BY <1>1, <1>2, <1>3, OrderTyped, RefillTyped, PurchaseTyped, LoadedTyped, CountsTyped DEF BuyTypeOK

-----------------------------------------------------------------------------
(* Orders: how a step changes what two actors share *)

LEMMA LoadedMoves ==
    ASSUME [BuyNext]_buyVars
    PROVE  \/ UNCHANGED <<loaded, burnt>>
           \/ SidecarSpends
           \/ ControllerLoads /\ purchase # NoPurchase /\ PendingSync /\ UNCHANGED burnt
<1>1. CASE Environment
  BY <1>1 DEF Environment, SellerReprices, ControllerLoads, DrainEnds
<1> QED BY <1>1, HostKeeps, PodKeeps, BackgroundKeeps, BuySteps DEF buyVars

LEMMA UndercutMoves ==
    ASSUME [BuyNext]_buyVars
    PROVE  \/ UNCHANGED undercut
           \/ /\ CreatePurchaseRequest
              /\ undercut' = (purchase # NoPurchase /\ (undercut \/ WrittenPool # order.seen))
           \/ /\ RefillPuts /\ purchase # NoPurchase
              /\ undercut' = (undercut \/ WrittenPool # refill.since)
<1>1. CASE InPod
  BY <1>1 DEF InPod, Quote, ReadPurchase, ReadStatus, Presign, PodAborts, CreatePurchaseRequest
<1>2. CASE InBackground
  BY <1>2 DEF InBackground, ProcessReads, PlanAutoRefill, RefillQuotes, RefillUsesStored, RefillSigns, RefillPuts
<1> QED BY <1>1, <1>2, EnvironmentKeeps, HostKeeps, BuySteps DEF buyVars

\* The number of the orders grows with the first step of each.
LEMMA OrdersMove ==
    ASSUME BuyTypeOK, [BuyNext]_buyVars
    PROVE  /\ orders \in Nat
           /\ \/ orders' = orders /\ (order = NoOrder => order' = NoOrder)
              \/ orders' = orders + 1 /\ order = NoOrder /\ UNCHANGED purchase
<1>0. orders \in Nat /\ OrderIsOf(order)
  BY OrderKinds, BuyAssumption DEF BuyTypeOK
<1>1. CASE OnHost
  <2>1. CASE \E flags \in BuyInferenceCommand, asks \in PromptAutoRefill : BuyInference(flags, asks)
    BY <1>0, <2>1 DEF BuyInference, OrderAt, OrderIsOf
  <2>2. CASE SellerProbed \/ ProbeFails \/ ResolveBuyMode \/ DeletePurchaseRequest \/ ConfirmBuy \/ BuyCancelled
    <3>1. UNCHANGED orders
      BY <2>2 DEF SellerProbed, ProbeFails, ResolveBuyMode, DeletePurchaseRequest, ConfirmBuy, BuyCancelled
    <3>2. order.at # "none"
      BY <2>2 DEF SellerProbed, ProbeFails, ResolveBuyMode, DeletePurchaseRequest, ConfirmBuy, BuyCancelled, OrderAt
    <3> QED BY <1>0, <3>1, <3>2 DEF NoOrder
  <2> QED BY <1>1, <2>1, <2>2 DEF OnHost
<1>2. CASE InPod
  <2>1. order.at # "none"
    BY <1>2 DEF InPod, Quote, ReadPurchase, ReadStatus, Presign, PodAborts, CreatePurchaseRequest, OrderAt
  <2> QED BY <1>0, <1>2, <2>1, PodKeeps DEF NoOrder
<1> QED BY <1>0, <1>1, <1>2, EnvironmentKeeps, BackgroundKeeps, BuySteps DEF buyVars

\* A command that waits for a deletion waits until it is done.
LEMMA WaitingMoves ==
    ASSUME [BuyNext]_buyVars, order.at = "deleting"
    PROVE  UNCHANGED order \/ (purchase = NoPurchase /\ UNCHANGED purchase)
<1>1. CASE OnHost
  BY <1>1 DEF OnHost, BuyInference, SellerProbed, ProbeFails, ResolveBuyMode, DeletePurchaseRequest,
              ConfirmBuy, BuyCancelled, OrderAt
<1>2. CASE InPod
  BY <1>2 DEF InPod, Quote, ReadPurchase, ReadStatus, Presign, PodAborts, CreatePurchaseRequest, OrderAt
<1> QED BY <1>1, <1>2, EnvironmentKeeps, BackgroundKeeps, BuySteps DEF buyVars

\* A purchase that stays keeps its name; a write gives it a pool and a number,
\* a load the number of the last write.
LEMMA PurchaseStays ==
    ASSUME BuyTypeOK, [BuyNext]_buyVars, purchase # NoPurchase, purchase' # NoPurchase
    PROVE  /\ purchase'.uid = purchase.uid
           /\ purchase.gen \in Nat /\ purchase.loadedGen \in Nat /\ purchase.loadedGen <= purchase.gen
           /\ purchase'.deleting = purchase.deleting \/ ResolveBuyMode
           /\ \/ /\ purchase'.gen = purchase.gen /\ purchase'.auths = purchase.auths
                 /\ \/ purchase'.loadedGen = purchase.loadedGen
                    \/ ControllerLoads /\ purchase'.loadedGen = purchase.gen
              \/ /\ purchase'.gen = purchase.gen + 1 /\ purchase'.loadedGen = purchase.loadedGen
                 /\ \/ CreatePurchaseRequest /\ order.at = "post" /\ purchase'.auths = order.pool
                    \/ RefillPuts /\ refill.at = "put" /\ purchase'.auths = refill.pool
<1>p. /\ purchase \in Purchases /\ purchase.gen \in Nat /\ purchase.loadedGen \in Nat
      /\ purchase.loadedGen <= purchase.gen
  BY PurchaseFields
<1>1. CASE UNCHANGED purchase
  BY <1>p, <1>1
<1>2. CASE ControllerLoads /\ purchase' = [purchase EXCEPT !.loadedGen = purchase.gen]
  BY <1>p, <1>2 DEF Purchases
<1>3. CASE ResolveBuyMode /\ purchase' = [purchase EXCEPT !.deleting = TRUE]
  BY <1>p, <1>3 DEF Purchases
<1>4. CASE /\ CreatePurchaseRequest /\ order.at = "post"
           /\ purchase' = [purchase EXCEPT !.auths = order.pool, !.price = order.price,
                                           !.policy = order.policy, !.gen = @ + 1]
  BY <1>p, <1>4 DEF Purchases
<1>5. CASE /\ RefillPuts /\ refill.at = "put"
           /\ purchase' = [purchase EXCEPT !.auths = refill.pool, !.gen = @ + 1]
  BY <1>p, <1>5 DEF Purchases
<1> QED BY <1>1, <1>2, <1>3, <1>4, <1>5, PurchaseMoves

\* A purchase comes from the command that asked for it, and goes with a deletion.
LEMMA PurchaseComes ==
    ASSUME BuyTypeOK, [BuyNext]_buyVars, purchase = NoPurchase, purchase' # NoPurchase
    PROVE  /\ CreatePurchaseRequest /\ order.at = "post" /\ order' = NoOrder
           /\ purchase'.auths = order.pool /\ ~purchase'.deleting /\ purchase'.uid = orders
           /\ purchase'.gen = 1 /\ purchase'.loadedGen = 0
           /\ UNCHANGED <<loaded, burnt, refill, orders>> /\ undercut' = FALSE
<1>1. /\ CreatePurchaseRequest /\ order.at = "post"
      /\ purchase' = [auths |-> order.pool, price |-> order.price, policy |-> order.policy,
                      deleting |-> FALSE, uid |-> orders, gen |-> 1, loadedGen |-> 0]
  BY PurchaseMoves
<1>2. /\ purchase'.auths = order.pool /\ ~purchase'.deleting /\ purchase'.uid = orders
      /\ purchase'.gen = 1 /\ purchase'.loadedGen = 0
  BY <1>1
<1>3. order' = NoOrder /\ UNCHANGED <<loaded, burnt, refill, orders>> /\ undercut' = FALSE
  BY <1>1 DEF CreatePurchaseRequest, OrderEnds
<1> QED BY <1>1, <1>2, <1>3

LEMMA PurchaseGoes ==
    ASSUME [BuyNext]_buyVars, BuyTypeOK, purchase # NoPurchase, purchase' = NoPurchase
    PROVE  DrainEnds /\ purchase.deleting /\ loaded' = << >> /\ UNCHANGED <<order, refill>>
<1>0. purchase \in Purchases /\ orders \in Nat
  BY PurchaseFields, OrdersMove
<1>1. purchase' \in Purchases \/ DrainEnds
  <2>o. order.at = "post" => order.pool \in AuthPools /\ order.price \in Nat /\ order.policy \in Policies
    BY OrderKinds DEF BuyTypeOK, OrderIsOf
  <2>r. refill.at = "put" => refill.pool \in AuthPools
    BY RefillKinds DEF BuyTypeOK, RefillIsOf
  <2>g. purchase.gen \in Nat /\ purchase.gen + 1 \in Nat
    BY PurchaseFields
  <2>1. CASE UNCHANGED purchase
    BY <1>0, <2>1
  <2>2. CASE purchase' = [purchase EXCEPT !.loadedGen = purchase.gen]
    BY <1>0, <2>g, <2>2 DEF Purchases
  <2>3. CASE purchase' = [purchase EXCEPT !.deleting = TRUE]
    BY <1>0, <2>3 DEF Purchases
  <2>4. CASE /\ order.at = "post"
             /\ purchase' = [purchase EXCEPT !.auths = order.pool, !.price = order.price,
                                             !.policy = order.policy, !.gen = @ + 1]
    BY <1>0, <2>o, <2>g, <2>4 DEF Purchases
  <2>5. CASE /\ refill.at = "put" /\ purchase' = [purchase EXCEPT !.auths = refill.pool, !.gen = @ + 1]
    BY <1>0, <2>r, <2>g, <2>5 DEF Purchases
  <2> QED BY <2>1, <2>2, <2>3, <2>4, <2>5, PurchaseMoves
<1>2. DrainEnds
  BY <1>1, BuyAssumption
<1> QED BY <1>2 DEF DrainEnds

-----------------------------------------------------------------------------
(* Orders: the invariant is kept *)

LEMMA NamesStep ==
    ASSUME BuyTypeOK, NamesKept, [BuyNext]_buyVars
    PROVE  NamesKept'
<1>o. OrderIsOf(order) /\ OrderIsOf(order') /\ RefillIsOf(refill) /\ RefillIsOf(refill')
  BY OrderKinds, RefillKinds, OrderTyped, RefillTyped DEF BuyTypeOK
<1>n. NoOrder.at = "none"
  BY DEF NoOrder
<1>1. orders \in Nat /\ orders' \in Nat /\ orders <= orders' /\ (order' # NoOrder => orders' # 0)
  BY OrdersMove DEF NamesKept
<1>2. purchase' = NoPurchase => loaded' = << >>
  <2>1. CASE purchase # NoPurchase
    BY <2>1, PurchaseGoes
  <2>2. CASE purchase = NoPurchase
    BY <2>2, LoadedMoves DEF NamesKept, SidecarSpends
  <2> QED BY <2>1, <2>2
<1>3. ASSUME purchase' # NoPurchase
      PROVE  /\ purchase'.uid \in 1..orders' /\ purchase'.gen # 0
             /\ order' # NoOrder => purchase'.uid < orders'
             /\ purchase'.deleting => order'.at = "deleting"
  <2>1. CASE purchase = NoPurchase
    <3>1. /\ order.at = "post" /\ order' = NoOrder /\ orders' = orders
          /\ purchase'.uid = orders /\ purchase'.gen = 1 /\ ~purchase'.deleting
      BY <1>3, <2>1, PurchaseComes
    <3>2. orders # 0
      BY <1>n, <3>1 DEF NamesKept
    <3> QED BY <1>1, <3>1, <3>2
  <2>2. CASE purchase # NoPurchase
    <3>1. /\ purchase'.uid = purchase.uid /\ purchase.gen \in Nat
          /\ purchase'.deleting = purchase.deleting \/ ResolveBuyMode
          /\ purchase'.gen \in {purchase.gen, purchase.gen + 1}
      BY <1>3, <2>2, PurchaseStays
    <3>2. /\ purchase.uid \in 1..orders /\ purchase.gen # 0
          /\ order # NoOrder => purchase.uid < orders
          /\ purchase.deleting => order.at = "deleting"
      BY <2>2 DEF NamesKept
    <3>3. purchase'.uid \in 1..orders' /\ purchase'.gen # 0
      BY <1>1, <3>1, <3>2
    <3>4. order' # NoOrder => purchase'.uid < orders'
      BY <1>1, <3>1, <3>2, OrdersMove
    <3>5. ASSUME purchase'.deleting
          PROVE  order'.at = "deleting"
      <4>1. CASE ResolveBuyMode
        <5>1. CASE order.replace
          <6>1. order.at = "mode" /\ OrderGoes("deleting")
            BY <2>2, <4>1, <5>1 DEF ResolveBuyMode, OrderAt
          <6>2. order \in [at : {"mode", "deleting", "ask"}, price : Nat, count : Nat, budget : Nat,
                           on : BOOLEAN, rc : Nat, cap : Nat, replace : BOOLEAN]
            BY <1>o, <6>1 DEF OrderIsOf
          <6> QED BY <6>1, <6>2 DEF OrderGoes
        <5>2. CASE ~order.replace
          <6>1. order.at = "mode" /\ UNCHANGED purchase
            BY <4>1, <5>2 DEF ResolveBuyMode, OrderAt
          <6> QED BY <3>2, <3>5, <6>1
        <5> QED BY <5>1, <5>2
      <4>2. CASE purchase'.deleting = purchase.deleting
        <5>1. order.at = "deleting"
          BY <3>2, <3>5, <4>2
        <5> QED BY <2>2, <5>1, WaitingMoves
      <4> QED BY <3>1, <4>1, <4>2
    <3> QED BY <3>3, <3>4, <3>5
  <2> QED BY <2>1, <2>2
<1>4. order'.at = "status" => purchase' # NoPurchase
  <2>1. CASE UNCHANGED order
    BY <2>1, PurchaseGoes, PurchaseComes DEF NamesKept
  <2>2. CASE ReadPurchase
    BY <2>2, OrderMoves DEF ReadPurchase, Reading
  <2> QED BY <2>1, <2>2, OrderMoves DEF Reading
<1>5. ASSUME order'.at \in {"status", "sign", "post"}
      PROVE  IF purchase' = NoPurchase THEN order'.seen = Unwritten
             ELSE order'.seen[1] = purchase'.uid /\ order'.seen[2] <= purchase'.loadedGen
  <2>1. CASE UNCHANGED order
    <3>1. /\ IF purchase = NoPurchase THEN order.seen = Unwritten
             ELSE order.seen[1] = purchase.uid /\ order.seen[2] <= purchase.loadedGen
          /\ order.seen \in Nat \X Nat
      BY <1>5, <1>o, <2>1 DEF NamesKept, OrderIsOf
    <3>2. purchase = NoPurchase => purchase' = NoPurchase
      BY <1>5, <1>n, <2>1, PurchaseComes
    <3>3. purchase # NoPurchase => purchase' # NoPurchase
      BY <1>5, <2>1, PurchaseGoes DEF NamesKept
    <3>4. CASE purchase # NoPurchase
      <4>1. /\ purchase'.uid = purchase.uid /\ purchase.loadedGen \in Nat /\ purchase.gen \in Nat
            /\ purchase.loadedGen <= purchase.gen
            /\ purchase'.loadedGen \in {purchase.loadedGen, purchase.gen}
        BY <3>3, <3>4, PurchaseStays
      <4>2. order.seen[1] \in Nat /\ order.seen[2] \in Nat
        BY <3>1
      <4>3. order.seen[1] = purchase.uid /\ order.seen[2] <= purchase.loadedGen
        BY <3>1, <3>4
      <4>4. order.seen[2] <= purchase'.loadedGen
        BY <4>1, <4>2, <4>3
      <4> QED BY <2>1, <3>3, <3>4, <4>1, <4>3, <4>4
    <3>5. CASE purchase = NoPurchase
      BY <2>1, <3>1, <3>2, <3>5
    <3> QED BY <3>4, <3>5
  <2>2. CASE ReadPurchase /\ purchase = NoPurchase /\ order' = Reading("sign", << >>, Unwritten, 0)
    BY <2>2 DEF ReadPurchase, Reading
  <2>3. CASE /\ ReadPurchase /\ purchase # NoPurchase /\ ~PendingSync
             /\ order' = Reading("status", purchase.auths, WrittenPool, 0)
    <3>1. purchase' = purchase /\ purchase.loadedGen \in Nat /\ purchase.gen \in Nat
      BY <2>3, PurchaseFields DEF ReadPurchase
    <3>2. order'.seen = <<purchase.uid, purchase.gen>>
      BY <2>3 DEF Reading, WrittenPool
    <3> QED BY <2>3, <3>1, <3>2 DEF PendingSync
  <2>4. CASE ReadStatus /\ order.at = "status" /\ order' = Reading("sign", order.have, order.seen, Len(loaded))
    BY <2>4 DEF ReadStatus, Reading, NamesKept
  <2>5. CASE Presign /\ order'.at = "post"
    <3>1. purchase' = purchase
      BY <2>5 DEF Presign
    <3>2. order'.seen = order.seen /\ order.at = "sign"
      BY <2>5, PresignPosts DEF NoOrder
    <3> QED BY <3>1, <3>2 DEF NamesKept
  <2> QED BY <1>5, <2>1, <2>2, <2>3, <2>4, <2>5, OrderMoves
<1>6. ASSUME refill' # NoOrder
      PROVE  /\ refill'.since[1] \in 1..orders' /\ (order' # NoOrder => refill'.since[1] < orders')
             /\ purchase' # NoPurchase /\ refill'.since[1] = purchase'.uid =>
                  refill'.since[2] <= purchase'.loadedGen
  <2>1. CASE ProcessReads /\ purchase # NoPurchase /\ refill'.since = Followed
    <3>1. UNCHANGED <<purchase, order, orders>> /\ purchase.loadedGen \in Nat
      BY <2>1, PurchaseFields DEF ProcessReads
    <3>2. refill'.since = <<purchase.uid, purchase.loadedGen>>
      BY <2>1 DEF Followed
    <3>3. purchase.uid \in 1..orders /\ (order # NoOrder => purchase.uid < orders)
      BY <2>1 DEF NamesKept
    <3> QED BY <3>1, <3>2, <3>3
  <2>2. CASE refill # NoOrder /\ refill'.since = refill.since
    <3>1. /\ refill.since[1] \in 1..orders /\ (order # NoOrder => refill.since[1] < orders)
          /\ purchase # NoPurchase /\ refill.since[1] = purchase.uid =>
               refill.since[2] <= purchase.loadedGen
      BY <2>2 DEF NamesKept
    <3>2. refill.since[1] \in Nat /\ refill.since[2] \in Nat
      BY <1>o, <2>2 DEF RefillIsOf
    <3>3. refill'.since[1] \in 1..orders'
      BY <1>1, <2>2, <3>1
    <3>4. order' # NoOrder => refill'.since[1] < orders'
      BY <1>1, <2>2, <3>1, OrdersMove
    <3>5. ASSUME purchase' # NoPurchase, refill.since[1] = purchase'.uid
          PROVE  refill.since[2] <= purchase'.loadedGen
      <4>1. purchase # NoPurchase
        <5>1. SUFFICES ASSUME purchase = NoPurchase
                       PROVE  FALSE
          OBVIOUS
        <5>2. order.at = "post" /\ purchase'.uid = orders
          BY <3>5, <5>1, PurchaseComes
        <5>3. refill.since[1] < orders
          BY <1>n, <3>1, <5>2
        <5> QED BY <1>1, <3>2, <3>5, <5>2, <5>3
      <4>2. /\ purchase'.uid = purchase.uid /\ purchase.loadedGen \in Nat /\ purchase.gen \in Nat
            /\ purchase.loadedGen <= purchase.gen
            /\ purchase'.loadedGen \in {purchase.loadedGen, purchase.gen}
        BY <3>5, <4>1, PurchaseStays
      <4> QED BY <3>1, <3>2, <3>5, <4>1, <4>2
    <3> QED BY <2>2, <3>3, <3>4, <3>5
  <2>3. CASE UNCHANGED refill
    BY <1>6, <2>2, <2>3
  <2>4. CASE (RefillQuotes \/ RefillUsesStored) /\ refill.at = "quote" /\ refill'.at = "put"
    BY <1>6, <1>n, <2>2, <2>4, RoundPuts
  <2>5. CASE PlanAutoRefill /\ refill.at = "list" /\ refill'.since = refill.since
    BY <1>n, <2>2, <2>5
  <2> QED BY <1>6, <2>1, <2>3, <2>4, <2>5, RefillMoves
<1> QED BY <1>1, <1>2, <1>3, <1>4, <1>5, <1>6 DEF NamesKept

LEMMA AffordableStep ==
    ASSUME BuyTypeOK, Affordable, [BuyNext]_buyVars
    PROVE  Affordable'
<1>1. order'.at \in {"read", "status", "sign", "post"} => order'.n * order'.price <= order'.budget
  <2>1. CASE UNCHANGED order
    BY <2>1 DEF Affordable
  <2>2. CASE order.at \in {"read", "status"} /\ \E s, a, w, l : order' = Reading(s, a, w, l)
    <3>1. order'.n = order.n /\ order'.price = order.price /\ order'.budget = order.budget
      BY <2>2 DEF Reading
    <3> QED BY <2>2, <3>1 DEF Affordable
  <2>3. CASE Presign /\ order'.at = "post"
    <3>1. /\ order'.n = order.n /\ order'.price = order.price /\ order'.budget = order.budget
          /\ order.at = "sign"
      BY <2>3, PresignPosts DEF NoOrder
    <3> QED BY <3>1 DEF Affordable
  <2> QED BY <2>1, <2>2, <2>3, OrderMoves
<1>2. RefillsUnderTheCeiling'
  <2>1. CASE UNCHANGED refill
    BY <2>1 DEF Affordable, RefillsUnderTheCeiling
  <2>2. CASE (RefillQuotes \/ RefillUsesStored) /\ refill'.at = "put"
    <3>1. PICK price \in Nat :
            /\ UnderCeiling(price, refill.policy, refill.stored)
            /\ refill'.price = price /\ refill'.policy = refill.policy
      BY <2>2, RoundPuts DEF NoOrder
    <3> QED BY <3>1 DEF RefillsUnderTheCeiling, UnderCeiling
  <2> QED BY <2>1, <2>2, RefillMoves DEF RefillsUnderTheCeiling, NoOrder
<1> QED BY <1>1, <1>2 DEF Affordable

\* A command, or a round, over which nobody wrote has not been written over
\* before, and what it read is loaded.
LEMMA OrderFollowed ==
    ASSUME BuyTypeOK, NamesKept, [BuyNext]_buyVars, UNCHANGED order,
           order.at \in {"status", "sign", "post"}, OrderFollows'
    PROVE  /\ OrderFollows /\ ~PendingSync
           /\ purchase'.auths = purchase.auths /\ purchase'.gen = purchase.gen
<1>1. purchase' # NoPurchase /\ ~undercut' /\ order.seen = <<purchase'.uid, purchase'.gen>>
  BY DEF OrderFollows, WrittenPool
<1>2. purchase # NoPurchase
  <2>1. SUFFICES ASSUME purchase = NoPurchase
                 PROVE  FALSE
    OBVIOUS
  <2>2. order.at = "post" /\ order' = NoOrder
    BY <1>1, <2>1, PurchaseComes
  <2>3. order = NoOrder
    BY <2>2
  <2> QED BY <2>2, <2>3 DEF NoOrder
<1>3. /\ order.seen[1] = purchase.uid /\ order.seen[2] <= purchase.loadedGen
      /\ order.seen[2] = purchase'.gen
  BY <1>1, <1>2 DEF NamesKept
<1>4. /\ purchase'.uid = purchase.uid /\ purchase.gen \in Nat /\ purchase.loadedGen \in Nat
      /\ purchase.loadedGen <= purchase.gen
      /\ \/ purchase'.gen = purchase.gen /\ purchase'.auths = purchase.auths
         \/ purchase'.gen = purchase.gen + 1
  BY <1>1, <1>2, PurchaseStays
<1>5. purchase'.gen = purchase.gen /\ purchase.loadedGen = purchase.gen
  BY <1>3, <1>4
<1>7. ~undercut
  <2>1. ~CreatePurchaseRequest
    <3>1. CreatePurchaseRequest => order' = NoOrder
      BY DEF CreatePurchaseRequest, OrderEnds
    <3> QED BY <3>1 DEF NoOrder
  <2>2. RefillPuts => ~undercut
    BY <1>1, <1>2 DEF RefillPuts
  <2> QED BY <1>1, <2>1, <2>2, UndercutMoves
<1>8. WrittenPool = order.seen
  BY <1>1, <1>4, <1>5 DEF WrittenPool
<1> QED BY <1>2, <1>4, <1>5, <1>7, <1>8 DEF OrderFollows, PendingSync

LEMMA RefillFollowed ==
    ASSUME BuyTypeOK, NamesKept, [BuyNext]_buyVars, refill # NoOrder, refill'.since = refill.since,
           refill' # NoOrder, RefillFollows'
    PROVE  /\ RefillFollows /\ ~PendingSync
           /\ purchase'.auths = purchase.auths /\ purchase'.gen = purchase.gen
<1>1. purchase' # NoPurchase /\ ~undercut' /\ refill.since = <<purchase'.uid, purchase'.gen>>
  BY DEF RefillFollows, WrittenPool
<1>n. NoOrder.at = "none" /\ orders \in Nat
  BY OrdersMove DEF NoOrder
<1>s. refill.since[1] = purchase'.uid /\ refill.since[2] = purchase'.gen
  BY <1>1
<1>2. purchase # NoPurchase
  <2>1. SUFFICES ASSUME purchase = NoPurchase
                 PROVE  FALSE
    OBVIOUS
  <2>2. order.at = "post" /\ purchase'.uid = orders
    BY <1>1, <2>1, PurchaseComes
  <2>3. refill.since[1] < orders
    BY <1>n, <2>2 DEF NamesKept
  <2> QED BY <1>n, <1>s, <2>2, <2>3
<1>3. /\ purchase'.uid = purchase.uid /\ purchase.gen \in Nat /\ purchase.loadedGen \in Nat
      /\ purchase.loadedGen <= purchase.gen
      /\ \/ purchase'.gen = purchase.gen /\ purchase'.auths = purchase.auths
         \/ purchase'.gen = purchase.gen + 1
  BY <1>1, <1>2, PurchaseStays
<1>4. refill.since[2] <= purchase.loadedGen
  BY <1>2, <1>3, <1>s DEF NamesKept
<1>5. purchase'.gen = purchase.gen /\ purchase.loadedGen = purchase.gen
  BY <1>3, <1>4, <1>s
<1>7. ~undercut
  <2>1. ~RefillPuts
    BY DEF RefillPuts, RefillEnds
  <2>2. CreatePurchaseRequest => ~undercut
    BY <1>1, <1>2 DEF CreatePurchaseRequest
  <2> QED BY <1>1, <2>1, <2>2, UndercutMoves
<1>8. WrittenPool = refill.since
  BY <1>1, <1>3, <1>5 DEF WrittenPool
<1> QED BY <1>2, <1>3, <1>5, <1>7, <1>8 DEF RefillFollows, PendingSync

\* What a pool carries it carries past every step that is not a load.
LEMMA StillCarries ==
    ASSUME BuyTypeOK, [BuyNext]_buyVars, NEW pool \in AuthPools, Rising(pool, signedNext),
           ~ControllerLoads \/ ~PendingSync \/ purchase = NoPurchase
    PROVE  /\ Carries(pool, loaded, burnt) => Carries(pool, loaded', burnt')
           /\ InStep(pool, loaded, burnt) => InStep(pool, loaded', burnt')
<1>1. CASE UNCHANGED <<loaded, burnt>>
  BY <1>1
<1>2. CASE SidecarSpends
  <2>1. loaded # << >> /\ loaded' = Tail(loaded) /\ burnt' = burnt \cup {Head(loaded).n} /\ loaded \in AuthPools
    BY <1>2 DEF SidecarSpends, BuyTypeOK
  <2> QED BY <2>1, SpendingCarries
<1> QED BY <1>1, <1>2, LoadedMoves

LEMMA FewerHeld ==
    ASSUME BuyTypeOK, [BuyNext]_buyVars, ~PendingSync \/ purchase = NoPurchase
    PROVE  Len(loaded) \in Nat /\ Len(loaded') \in Nat /\ Len(loaded') <= Len(loaded)
<1>0. Len(loaded) \in Nat
  BY LenProperties DEF BuyTypeOK, AuthPools
<1>1. CASE UNCHANGED <<loaded, burnt>>
  BY <1>0, <1>1
<1>2. CASE SidecarSpends
  <2>1. loaded # << >> /\ loaded' = Tail(loaded)
    BY <1>2 DEF SidecarSpends
  <2>2. Len(loaded) \in Nat \ {0} /\ Len(loaded') = Len(loaded) - 1
    BY <1>0, <2>1, HeadTailProperties, EmptySeq DEF BuyTypeOK, AuthPools
  <2> QED BY <2>2
<1> QED BY <1>1, <1>2, LoadedMoves

LEMMA PurchaseFollows ==
    ASSUME BuyTypeOK, PoolsRise, NamesKept, UnspentFollows, [BuyNext]_buyVars,
           purchase' # NoPurchase, ~undercut'
    PROVE  /\ Carries(purchase'.auths, loaded', burnt')
           /\ ~PendingSync' => InStep(purchase'.auths, loaded', burnt')
<1>1. CASE purchase = NoPurchase
  <2>1. /\ order.at = "post" /\ purchase'.auths = order.pool /\ UNCHANGED <<loaded, burnt>>
        /\ purchase'.gen = 1 /\ purchase'.loadedGen = 0
    BY <1>1, PurchaseComes
  <2>2. Carries(order.pool, loaded, burnt)
    BY <1>1, <2>1 DEF UnspentFollows
  <2> QED BY <2>1, <2>2 DEF PendingSync
<1>2. CASE purchase # NoPurchase
  <2>0. /\ purchase.gen \in Nat /\ purchase.loadedGen \in Nat /\ purchase.loadedGen <= purchase.gen
        /\ \/ /\ purchase'.gen = purchase.gen /\ purchase'.auths = purchase.auths
              /\ \/ purchase'.loadedGen = purchase.loadedGen
                 \/ ControllerLoads /\ purchase'.loadedGen = purchase.gen
           \/ /\ purchase'.gen = purchase.gen + 1 /\ purchase'.loadedGen = purchase.loadedGen
              /\ \/ CreatePurchaseRequest /\ order.at = "post" /\ purchase'.auths = order.pool
                 \/ RefillPuts /\ refill.at = "put" /\ purchase'.auths = refill.pool
    BY <1>2, PurchaseStays
  <2>p. purchase.auths \in AuthPools /\ Rising(purchase.auths, signedNext)
    BY <1>2, PurchaseFields DEF PoolsRise
  <2>1. CASE CreatePurchaseRequest /\ purchase'.gen = purchase.gen + 1
    <3>1. /\ UNCHANGED <<loaded, burnt>> /\ purchase'.auths = order.pool /\ order.at = "post"
          /\ ~undercut /\ WrittenPool = order.seen
      BY <1>2, <2>1 DEF CreatePurchaseRequest, OrderAt, BuyTypeOK, Purchases
    <3>2. Carries(order.pool, loaded, burnt)
      BY <1>2, <3>1 DEF UnspentFollows, OrderFollows
    <3>3. PendingSync'
      BY <2>0, <2>1 DEF PendingSync
    <3> QED BY <3>1, <3>2, <3>3
  <2>2. CASE RefillPuts /\ refill.at = "put" /\ purchase'.auths = refill.pool /\ purchase'.gen = purchase.gen + 1
    <3>1. UNCHANGED <<loaded, burnt>> /\ ~undercut /\ WrittenPool = refill.since
      BY <1>2, <2>2 DEF RefillPuts
    <3>2. Carries(refill.pool, loaded, burnt)
      BY <1>2, <2>2, <3>1 DEF UnspentFollows, RefillFollows
    <3>3. PendingSync'
      BY <2>0, <2>2 DEF PendingSync
    <3> QED BY <2>2, <3>1, <3>2, <3>3
  <2>3. CASE ControllerLoads
    <3>1. /\ loaded' = Unspent(purchase.auths) /\ burnt' = burnt /\ undercut' = undercut
          /\ purchase' = [purchase EXCEPT !.loadedGen = purchase.gen]
      BY <2>3 DEF ControllerLoads
    <3>2. purchase'.auths = purchase.auths
      BY <1>2, <3>1, PurchaseFields DEF Purchases
    <3>3. Carries(purchase.auths, loaded, burnt)
      BY <1>2, <3>1 DEF UnspentFollows
    <3>4. InStep(purchase.auths, loaded', burnt)
      BY <2>p, <3>1, <3>3, LoadInStep
    <3> QED BY <3>1, <3>2, <3>4, InStepCarries
  <2>4. CASE /\ purchase'.gen = purchase.gen /\ purchase'.auths = purchase.auths
             /\ purchase'.loadedGen = purchase.loadedGen /\ ~ControllerLoads
    <3>1. ~undercut
      <4>1. CreatePurchaseRequest => ~undercut
        BY <1>2 DEF CreatePurchaseRequest
      <4>2. RefillPuts => ~undercut
        BY <1>2 DEF RefillPuts
      <4> QED BY <4>1, <4>2, UndercutMoves
    <3>2. PendingSync' <=> PendingSync
      BY <2>4 DEF PendingSync
    <3> QED BY <1>2, <2>p, <2>4, <3>1, <3>2, StillCarries DEF UnspentFollows
  <2> QED BY <2>0, <2>1, <2>2, <2>3, <2>4
<1> QED BY <1>1, <1>2

LEMMA OrderStep ==
    ASSUME BuyTypeOK, PoolsRise, NamesKept, UnspentFollows, [BuyNext]_buyVars
    PROVE  /\ order'.at \in {"status", "sign"} /\ OrderFollows' => order'.have = purchase'.auths
           /\ order'.at = "sign" /\ OrderFollows' => Len(loaded') <= order'.left
           /\ order'.at = "sign" /\ purchase' = NoPurchase => order'.have = << >>
           /\ order'.at = "post" /\ (purchase' = NoPurchase \/ OrderFollows') =>
                Carries(order'.pool, loaded', burnt')
<1>o. OrderIsOf(order) /\ NoOrder.at = "none"
  BY OrderKinds DEF BuyTypeOK, NoOrder
<1>1. CASE UNCHANGED order
  <2>1. order.at \in {"status", "sign", "post"} /\ purchase' = NoPurchase => purchase = NoPurchase
    BY PurchaseGoes DEF NamesKept
  <2>2. order.at \in {"status", "sign"} /\ OrderFollows' => order.have = purchase'.auths
    BY <1>1, OrderFollowed DEF UnspentFollows
  <2>3. ASSUME order.at = "sign", OrderFollows'
        PROVE  Len(loaded') <= order.left
    <3>1. OrderFollows /\ ~PendingSync
      BY <1>1, <2>3, OrderFollowed
    <3>2. Len(loaded) <= order.left /\ order.left \in Nat
      BY <1>o, <2>3, <3>1 DEF UnspentFollows, OrderIsOf
    <3> QED BY <3>1, <3>2, FewerHeld
  <2>4. order.at = "sign" /\ purchase' = NoPurchase => order.have = << >>
    BY <2>1 DEF UnspentFollows
  <2>5. ASSUME order.at = "post", purchase' = NoPurchase \/ OrderFollows'
        PROVE  Carries(order.pool, loaded', burnt')
    <3>1. purchase = NoPurchase \/ (OrderFollows /\ ~PendingSync)
      BY <1>1, <2>1, <2>5, OrderFollowed
    <3>2. Carries(order.pool, loaded, burnt)
      BY <2>5, <3>1 DEF UnspentFollows
    <3>3. order.pool \in AuthPools /\ Rising(order.pool, signedNext)
      BY <1>o, <2>5 DEF OrderIsOf, PoolsRise
    <3> QED BY <3>1, <3>2, <3>3, StillCarries
  <2> QED BY <1>1, <2>2, <2>3, <2>4, <2>5
<1>2. CASE ReadPurchase /\ purchase = NoPurchase /\ order' = Reading("sign", << >>, Unwritten, 0)
  <2>1. purchase' = NoPurchase /\ ~OrderFollows'
    BY <1>2 DEF ReadPurchase, OrderFollows
  <2> QED BY <1>2, <2>1 DEF Reading
<1>3. CASE ReadPurchase /\ order' = Reading("status", purchase.auths, WrittenPool, 0)
  <2>1. purchase' = purchase
    BY <1>3 DEF ReadPurchase
  <2> QED BY <1>3, <2>1 DEF Reading
<1>4. CASE /\ ReadStatus /\ order.at = "status"
           /\ order' = Reading("sign", order.have, order.seen, Len(loaded))
  <2>1. UNCHANGED <<purchase, loaded, burnt, undercut>> /\ purchase # NoPurchase
    BY <1>4 DEF ReadStatus, NamesKept
  <2>2. /\ order'.at = "sign" /\ order'.have = order.have /\ order'.seen = order.seen
        /\ order'.left = Len(loaded) /\ Len(loaded) \in Nat
    BY <1>4, LenProperties DEF Reading, BuyTypeOK, AuthPools
  <2>3. OrderFollows' => OrderFollows
    BY <2>1, <2>2 DEF OrderFollows, WrittenPool
  <2> QED BY <1>4, <2>1, <2>2, <2>3 DEF UnspentFollows
<1>5. CASE Presign /\ order'.at = "post"
  <2>1. /\ order.at = "sign" /\ order.n \in Nat /\ order.have \in AuthPools /\ order.left \in Nat
        /\ order.price \in Nat /\ order.left <= Len(order.have)
        /\ order'.pool = Refilled(order.have, order.left, order.price, order.n)
        /\ order'.seen = order.seen
    BY <1>5, <1>o, PresignPosts
  <2>2. UNCHANGED <<purchase, loaded, burnt, undercut>>
    BY <1>5 DEF Presign
  <2>3. OrderFollows' => OrderFollows
    BY <2>1, <2>2 DEF OrderFollows, WrittenPool
  <2>4. ASSUME purchase = NoPurchase \/ OrderFollows
        PROVE  InStep(order.have, loaded, burnt) /\ Len(loaded) <= order.left
    <3>1. CASE purchase = NoPurchase
      <4>1. order.have = << >> /\ loaded = << >>
        BY <2>1, <3>1 DEF UnspentFollows, NamesKept
      <4>2. Len(loaded) = 0
        BY <4>1
      <4> QED BY <2>1, <4>1, <4>2, EmptyInStep
    <3>2. CASE OrderFollows /\ purchase # NoPurchase
      <4>1. order.have = purchase.auths /\ Len(loaded) <= order.left
        BY <2>1, <3>2 DEF UnspentFollows
      <4>2. ~PendingSync
        <5>1. order.seen[2] <= purchase.loadedGen /\ order.seen = <<purchase.uid, purchase.gen>>
          BY <2>1, <3>2 DEF NamesKept, OrderFollows, WrittenPool
        <5>2. purchase.gen <= purchase.loadedGen
          BY <5>1
        <5> QED BY <3>2, <5>2, PurchaseFields DEF PendingSync
      <4> QED BY <3>2, <4>1, <4>2 DEF UnspentFollows, OrderFollows
    <3> QED BY <2>4, <3>1, <3>2
  <2>5. signedNext \in Nat /\ loaded \in AuthPools /\ burnt \subseteq 1..(signedNext - 1)
    BY DEF BuyTypeOK
  <2>6. purchase = NoPurchase \/ OrderFollows => Carries(order'.pool, loaded, burnt)
    BY <2>1, <2>4, <2>5, RefilledCarries
  <2> QED BY <1>5, <2>2, <2>3, <2>6
<1> QED BY <1>1, <1>2, <1>3, <1>4, <1>5, OrderMoves

LEMMA RefillStep ==
    ASSUME BuyTypeOK, PoolsRise, NamesKept, UnspentFollows, [BuyNext]_buyVars
    PROVE  /\ refill'.at \in {"list", "quote"} /\ RefillFollows' => Len(loaded') <= refill'.left
           /\ refill'.at = "quote" /\ RefillFollows' => refill'.have = purchase'.auths
           /\ refill'.at = "put" /\ RefillFollows' => Carries(refill'.pool, loaded', burnt')
<1>r. RefillIsOf(refill) /\ NoOrder.at = "none"
  BY RefillKinds DEF BuyTypeOK, NoOrder
<1>1. CASE UNCHANGED refill
  <2>1. refill # NoOrder /\ RefillFollows' =>
          RefillFollows /\ ~PendingSync /\ purchase'.auths = purchase.auths
    BY <1>1, RefillFollowed
  <2>2. ASSUME refill.at \in {"list", "quote"}, RefillFollows'
        PROVE  Len(loaded') <= refill.left
    <3>1. RefillFollows /\ ~PendingSync
      BY <1>r, <2>1, <2>2
    <3>2. Len(loaded) <= refill.left /\ refill.left \in Nat
      BY <1>r, <2>2, <3>1 DEF UnspentFollows, RefillIsOf
    <3> QED BY <3>1, <3>2, FewerHeld
  <2>3. refill.at = "quote" /\ RefillFollows' => refill.have = purchase'.auths
    BY <1>r, <2>1 DEF UnspentFollows
  <2>4. ASSUME refill.at = "put", RefillFollows'
        PROVE  Carries(refill.pool, loaded', burnt')
    <3>1. RefillFollows /\ ~PendingSync
      BY <1>r, <2>1, <2>4
    <3>2. Carries(refill.pool, loaded, burnt)
      BY <2>4, <3>1 DEF UnspentFollows
    <3>3. refill.pool \in AuthPools /\ Rising(refill.pool, signedNext)
      BY <1>r, <2>4 DEF RefillIsOf, PoolsRise
    <3> QED BY <3>1, <3>2, <3>3, StillCarries
  <2> QED BY <1>1, <2>2, <2>3, <2>4
<1>2. CASE refill' = NoOrder
  BY <1>r, <1>2
<1>3. CASE ProcessReads /\ refill' = [at |-> "list", left |-> Len(loaded), since |-> Followed]
  <2>1. loaded' = loaded /\ Len(loaded) \in Nat
    BY <1>3, LenProperties DEF ProcessReads, BuyTypeOK, AuthPools
  <2> QED BY <1>3, <2>1
<1>4. CASE /\ PlanAutoRefill /\ refill.at = "list"
           /\ refill' = [at |-> "quote", left |-> refill.left, since |-> refill.since,
                         have |-> purchase.auths, policy |-> purchase.policy,
                         stored |-> purchase.price]
  <2>1. UNCHANGED <<purchase, loaded, undercut>>
    BY <1>4 DEF PlanAutoRefill
  <2>2. RefillFollows' => RefillFollows
    BY <1>4, <2>1 DEF RefillFollows, WrittenPool
  <2> QED BY <1>4, <2>1, <2>2 DEF UnspentFollows
<1>5. CASE (RefillQuotes \/ RefillUsesStored) /\ refill'.at = "put"
  <2>1. PICK price \in Nat :
          /\ refill.at = "quote" /\ refill.have \in AuthPools /\ refill.left \in Nat
          /\ refill.policy.count \in Nat /\ UNCHANGED <<purchase, loaded, burnt, undercut>>
          /\ refill.left <= Len(refill.have) /\ refill'.since = refill.since
          /\ refill'.pool = Refilled(refill.have, refill.left, price, refill.policy.count)
    BY <1>5, <1>r, RoundPuts
  <2>2. ASSUME RefillFollows'
        PROVE  Carries(refill'.pool, loaded', burnt')
    <3>1. RefillFollows /\ ~PendingSync
      BY <1>5, <1>r, <2>1, <2>2, RefillFollowed
    <3>2. InStep(refill.have, loaded, burnt) /\ Len(loaded) <= refill.left
      BY <2>1, <3>1 DEF UnspentFollows, RefillFollows
    <3>3. signedNext \in Nat /\ loaded \in AuthPools /\ burnt \subseteq 1..(signedNext - 1)
      BY DEF BuyTypeOK
    <3> QED BY <2>1, <3>2, <3>3, RefilledCarries
  <2> QED BY <1>5, <2>2
<1> QED BY <1>1, <1>2, <1>3, <1>4, <1>5, RefillMoves

LEMMA UnspentStep ==
    ASSUME BuyTypeOK, PoolsRise, NamesKept, UnspentFollows, [BuyNext]_buyVars
    PROVE  UnspentFollows'
BY PurchaseFollows, OrderStep, RefillStep DEF UnspentFollows

LEMMA BuyInitially == BuyInit => BuyIInv
<1> SUFFICES ASSUME BuyInit
             PROVE  BuyIInv
  OBVIOUS
<1>1. /\ quoted \in [price : 1..TopPrice, unit : Units] /\ purchase = NoPurchase /\ loaded = << >>
      /\ order = NoOrder /\ refill = NoOrder /\ signedNext = 1 /\ burnt = {} /\ undercut = FALSE
      /\ orders = 0 /\ refills = 0 /\ moves = 0 /\ NoOrder.at = "none"
  BY DEF BuyInit, NoOrder
<1>2. << >> \in AuthPools /\ Vouchers(<< >>) = {}
  BY EmptySeq DEF AuthPools, Vouchers
<1>3. BuyTypeOK
  <2>1. /\ purchase \in Purchases \cup {NoPurchase} /\ loaded \in AuthPools
        /\ order \in {NoOrder} \cup HostOrders \cup PodOrders /\ refill \in {NoOrder} \cup Refills
    BY <1>1, <1>2
  <2>2. signedNext \in Nat \ {0} /\ burnt \subseteq 1..(signedNext - 1) /\ undercut \in BOOLEAN
    <3>1. signedNext \in Nat \ {0}
      BY <1>1
    <3>2. burnt \subseteq 1..(signedNext - 1)
      BY <1>1, Zenon
    <3>3. undercut \in BOOLEAN
      BY <1>1
    <3> QED BY <3>1, <3>2, <3>3
  <2>3. orders \in 0..MaxOrders /\ refills \in 0..MaxRefills /\ moves \in 0..MaxMoves
    BY <1>1, BuyAssumption
  <2> QED BY <1>1, <2>1, <2>2, <2>3 DEF BuyTypeOK
<1>4. PoolsRise /\ NamesKept /\ Affordable /\ UnspentFollows
  BY <1>1, <1>2
     DEF PoolsRise, NamesKept, Affordable, UnspentFollows, RefillsUnderTheCeiling, OrderFollows, RefillFollows
<1> QED BY <1>3, <1>4 DEF BuyIInv

LEMMA BuyStep == BuyIInv /\ [BuyNext]_buyVars => BuyIInv'
BY BuyTyped, PoolsStep, NamesStep, AffordableStep, UnspentStep DEF BuyIInv

LEMMA BuyShown == BuyIInv => BuyInv
<1> SUFFICES ASSUME BuyIInv
             PROVE  BuyInv
  OBVIOUS
<1>1. BuyTypeOK /\ PoolsRise /\ Affordable /\ UnspentFollows
  BY DEF BuyIInv
<1>2. ConfirmedBudgetHolds /\ RefillsUnderTheCeiling
  BY <1>1 DEF Affordable, ConfirmedBudgetHolds, OrderAt
<1>3. loaded \in AuthPools
  BY <1>1 DEF BuyTypeOK
<1>4. purchase # NoPurchase /\ ~undercut => Vouchers(loaded) \subseteq Vouchers(purchase.auths)
  BY <1>1, <1>3, PurchaseFields, CarriesCovers DEF UnspentFollows
<1>5. refill.at = "put" /\ purchase # NoPurchase /\ WrittenPool = refill.since /\ ~undercut =>
        Vouchers(loaded) \subseteq Vouchers(refill.pool)
  BY <1>1, <1>3, RefillKinds, CarriesCovers DEF UnspentFollows, RefillFollows, BuyTypeOK, RefillIsOf
<1> QED BY <1>1, <1>2, <1>4, <1>5 DEF BuyInv, UnspentIsKept

(***************************************************************************)
(* For every price, catalog and count, and any number of orders, refills   *)
(* and price moves: no command signs past the budget that was confirmed,   *)
(* no refill past the recorded ceiling, and no write loses a voucher the   *)
(* sidecar can still use, unless one went over another's write             *)
(* (buy.go, buy.py).                                                       *)
(***************************************************************************)
THEOREM BuyHolds == BuySpec => []BuyInv
BY BuyInitially, BuyStep, BuyShown, PTL DEF BuySpec
=============================================================================
