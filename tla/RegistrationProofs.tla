------------------------- MODULE RegistrationProofs -------------------------
(***************************************************************************)
(* Proofs about ERC-8004 registration: the types, that a run of obol sell  *)
(* register mints at most once, that the host record loses an agent only   *)
(* to identity forget as long as every recreated cluster was replayed, and *)
(* that a published offer is in the document once everything has settled.  *)
(***************************************************************************)
EXTENDS Registration, TLAPS, FiniteSetTheorems, SequenceTheorems,
        WellFoundedInduction

USE DEF offerVars, queueVars, jobVars, chainVars, hostVars

----------------------------------------------------------------------------
(***************************************************************************)
(* The operators: what is chosen exists, and what is found was minted.     *)
(***************************************************************************)

\* A set of naturals that is not empty has a least element.
LEMMA LeastExists ==
  ASSUME NEW T, T \subseteq Nat, T # {}
  PROVE  \E n \in T : \A m \in T : n <= m
<1>1. PICK n \in T : \A m \in T : ~ (<<m, n>> \in OpToRel(<, Nat))
  BY WFMin, NatLessThanWellFounded
<1>2. \A m \in T : ~(m < n)
  BY <1>1 DEF OpToRel
<1> QED BY <1>2

\* Among any offers there is an oldest one and a youngest one.
LEMMA Extremes ==
  ASSUME NEW S, S \subseteq Offers, S # {}
  PROVE  /\ \E o \in S : \A q \in S : Rank[o] <= Rank[q]
         /\ \E o \in S : \A q \in S : Rank[q] <= Rank[o]
<1> DEFINE N == Cardinality(Offers)
           Low == {n \in Nat : \E o \in S : n = Rank[o]}
           High == {n \in Nat : \E o \in S : n = N - Rank[o]}
<1>0. Low \subseteq Nat /\ High \subseteq Nat
  OBVIOUS
<1>1. N \in Nat
  BY RegistrationAssumption, FS_CardinalityType
<1>2. \A o \in Offers : Rank[o] \in 1..N
  BY RegistrationAssumption
<1>3. PICK o \in S : TRUE
  OBVIOUS
<1>4. Rank[o] \in Low /\ N - Rank[o] \in High
  BY <1>1, <1>2, <1>3
<1>5. \E n \in Low : \A m \in Low : n <= m
  <2> HIDE DEF Low
  <2> QED BY <1>4, <1>0, LeastExists
<1>6. \E n \in High : \A m \in High : n <= m
  <2> HIDE DEF High
  <2> QED BY <1>4, <1>0, LeastExists
<1>7. \E p \in S : \A q \in S : Rank[p] <= Rank[q]
  BY <1>2, <1>5
<1>8. \E p \in S : \A q \in S : Rank[q] <= Rank[p]
  <2>1. PICK n \in High : \A m \in High : n <= m
    BY <1>6
  <2>2. PICK p \in S : n = N - Rank[p]
    OBVIOUS
  <2>3. \A q \in S : N - Rank[q] \in High
    BY <1>1, <1>2
  <2>4. \A q \in S : Rank[q] <= Rank[p]
    BY <1>1, <1>2, <2>1, <2>2, <2>3
  <2> QED BY <2>4
<1> QED BY <1>7, <1>8

\* Both seeds are agents, or none, for every chain.
LEMMA SeedsTyped ==
  ASSUME TypeOK
  PROVE  SeedByController \in Regs /\ SeedByCLI \in Regs
<1>1. \A o \in Offers : seen[o].agent \in Ids \cup {None} /\ offer[o].agent \in Ids \cup {None}
  BY DEF TypeOK, Offer
<1>2. ASSUME NEW c \in Chains, WithAgent(seen, RegistrationOffers, c) # {}
      PROVE  (CHOOSE o \in WithAgent(seen, RegistrationOffers, c) :
                \A q \in WithAgent(seen, RegistrationOffers, c) : Rank[q] <= Rank[o]) \in Offers
  <2> DEFINE S == WithAgent(seen, RegistrationOffers, c)
  <2>1. S \subseteq Offers /\ S # {}
    BY <1>2 DEF WithAgent, RegistrationOffers
  <2> HIDE DEF S
  <2>2. \E o \in S : \A q \in S : Rank[q] <= Rank[o]
    BY <2>1, Extremes
  <2>3. (CHOOSE o \in S : \A q \in S : Rank[q] <= Rank[o]) \in S
    BY <2>2
  <2>4. (CHOOSE o \in S : \A q \in S : Rank[q] <= Rank[o]) \in Offers
    BY <2>1, <2>3
  <2> QED BY <2>4 DEF S
<1>3. ASSUME NEW c \in Chains, WithAgent(offer, Offers, c) # {}
      PROVE  (CHOOSE o \in WithAgent(offer, Offers, c) :
                o \in OldestOf(WithAgent(offer, Offers, c))) \in Offers
  <2> DEFINE S == WithAgent(offer, Offers, c)
  <2>1. S \subseteq Offers /\ S # {}
    BY <1>3 DEF WithAgent
  <2> HIDE DEF S
  <2>2. \E o \in S : o \in OldestOf(S)
    BY <2>1, Extremes DEF OldestOf
  <2>3. (CHOOSE o \in S : o \in OldestOf(S)) \in S
    BY <2>2
  <2>4. (CHOOSE o \in S : o \in OldestOf(S)) \in Offers
    BY <2>1, <2>3
  <2> QED BY <2>4 DEF S
<1>4. SeedByController \in Regs
  BY <1>1, <1>2 DEF SeedByController, Regs
<1>5. SeedByCLI \in Regs
  BY <1>1, <1>3 DEF SeedByCLI, Regs
<1> QED BY <1>4, <1>5

\* A new id for one chain gives agents of all chains again, and takes none away.
LEMMA UpsertTyped ==
  ASSUME NEW regs \in Regs, NEW c \in Chains, NEW id \in Ids \cup {None}
  PROVE  /\ Upsert(regs, c, id) \in Regs
         /\ \A d \in Chains : regs[d] # None => Upsert(regs, c, id)[d] # None
BY DEF Upsert, Regs

\* What the searches of the chain return was minted there.
LEMMA FoundAreMinted ==
  ASSUME TypeOK, NEW c, NEW u, NEW from \in Nat
  PROVE  FindByOwnerAndURI(c, u, from) \subseteq Ids
<1>1. Len(tokens) \in Nat /\ Len(pool) \in Nat /\ Len(tokens) <= MaxTokens
  BY RegistrationAssumption DEF TypeOK
<1>2. \A i \in (from + 1)..Len(tokens) : i \in Ids
  BY <1>1, RegistrationAssumption DEF Ids
<1> QED BY <1>2 DEF FindByOwnerAndURI, NewestOf, Matching

\* The same for the two searches of a recovery.
LEMMA RecoveredAreMinted ==
  ASSUME TypeOK, NEW o \in Offers, NEW req \in Request
  PROVE  RecoverRegistration(o, req) \subseteq Ids
<1>1. req.tx \in Ids \cup {None} /\ req.from \in Nat
  <2>1. req.tx \in Ids \cup {None} /\ req.from \in 0..MaxTokens
    BY DEF Request
  <2> QED BY <2>1, RegistrationAssumption
<1>2. FindByOwnerAndURI(req.chain, req.uri, req.from) \subseteq Ids
  BY <1>1, FoundAreMinted
<1> QED BY <1>1, <1>2 DEF RecoverRegistration, FindByTxHash

----------------------------------------------------------------------------
(***************************************************************************)
(* The types are kept.  First the parts that several actions share.        *)
(***************************************************************************)

\* A request as it is built, or built again, for an offer.
LEMMA BuiltTyped ==
  ASSUME TypeOK, NEW o \in Offers, NEW c \in Chains, NEW d \in {"Active", "Tombstoned"}
  PROVE  BuildRequest(o, d, c) \in Request
<1>1. rr[o] \in Request \cup {NoRR}
  BY DEF TypeOK
<1>2. CASE rr[o] = NoRR
  <2>1. 0 \in 0..MaxTokens
    BY RegistrationAssumption
  <2> QED BY <1>2, <2>1 DEF BuildRequest, Request, None
<1>3. CASE rr[o] # NoRR
  BY <1>1, <1>3 DEF BuildRequest, Request
<1> QED BY <1>2, <1>3

\* A status copy that gets the id of its chain.
LEMMA SharedTyped ==
  ASSUME TypeOK, NEW copy \in Offer, NEW b \in BOOLEAN
  PROVE  /\ SharedStatus(copy) \in Offer
         /\ [copy EXCEPT !.agent = identity.reg[copy.net], !.registered = b] \in Offer
         /\ [copy EXCEPT !.agent = None, !.registered = b] \in Offer
<1>1. copy.net \in Chains /\ copy.up \in BOOLEAN
  BY DEF Offer
<1>2. identity.reg[copy.net] \in Ids \cup {None}
  BY <1>1 DEF TypeOK, Regs
<1>3. \A x \in BOOLEAN, i \in Ids \cup {None} : [copy EXCEPT !.agent = i, !.registered = x] \in Offer
  BY DEF Offer
<1>4. (copy.up /\ identity.reg[copy.net] # None) \in BOOLEAN
  BY <1>1
<1> QED BY <1>2, <1>3, <1>4 DEF SharedStatus

\* The offer worker's registration pass writes a request and a status copy.
LEMMA StatusTyped ==
  ASSUME TypeOK, NEW o \in Offers, NEW copy \in Offer, RegistrationStatus(o, copy)
  PROVE  /\ rr' \in [Offers -> Request \cup {NoRR}]
         /\ offerJob' \in OfferJob
<1>1. offer[o] \in Offer /\ copy.net \in Chains
  BY DEF TypeOK, Offer
<1>2. \A new \in Offer : [pc |-> "status", o |-> o, read |-> offer[o], new |-> new] \in OfferJob
  BY <1>1 DEF OfferJob
<1>3. BuildRequest(o, "Active", copy.net) \in Request
  BY <1>1, BuiltTyped
<1>4. rr \in [Offers -> Request \cup {NoRR}]
  BY DEF TypeOK
<1>5. \A r \in Request \cup {NoRR} : [rr EXCEPT ![o] = r] \in [Offers -> Request \cup {NoRR}]
  BY <1>4
<1>6. rr' \in [Offers -> Request \cup {NoRR}]
  BY <1>3, <1>4, <1>5 DEF RegistrationStatus
<1>7. \E new \in Offer : offerJob' = [pc |-> "status", o |-> o, read |-> offer[o], new |-> new]
  BY SharedTyped DEF RegistrationStatus
<1> QED BY <1>2, <1>6, <1>7

\* The request worker's write of a request.
LEMMA WriteTyped ==
  ASSUME TypeOK, NEW o \in Offers, NEW req, NEW new \in Request, WriteRequest(o, req, new)
  PROVE  /\ rr' \in [Offers -> Request \cup {NoRR}]
         /\ offerQ' \subseteq Offers /\ regQ' \subseteq Offers /\ idQ' \in BOOLEAN
<1>1. rr \in [Offers -> Request \cup {NoRR}] /\ offerQ \subseteq Offers /\ regQ \subseteq Offers
      /\ idQ \in BOOLEAN /\ RegistrationOffers \subseteq Offers
  BY DEF TypeOK, RegistrationOffers
<1> QED BY <1>1 DEF WriteRequest, Requeue, RequestChanged

\* The write of an adopted id, to the identity and to the request.
LEMMA AdoptTyped ==
  ASSUME TypeOK, NEW o \in Offers, NEW req \in Request, NEW ident \in Regs,
         NEW id \in Ids, NEW tx \in Ids \cup {None}, regJob.url \in URLs,
         AdoptOnChain(o, req, ident, id, tx)
  PROVE  /\ rr' \in [Offers -> Request \cup {NoRR}]
         /\ identity' \in [exists: BOOLEAN, reg: Regs]
         /\ offerQ' \subseteq Offers /\ regQ' \subseteq Offers /\ idQ' \in BOOLEAN
<1> DEFINE new == [req EXCEPT !.phase = "Registered", !.agent = id, !.tx = tx,
                              !.uri = IF req.uri = "" THEN regJob.url ELSE req.uri]
<1>1. rr \in [Offers -> Request \cup {NoRR}] /\ offerQ \subseteq Offers /\ regQ \subseteq Offers
      /\ idQ \in BOOLEAN /\ RegistrationOffers \subseteq Offers
      /\ identity \in [exists: BOOLEAN, reg: Regs]
  BY DEF TypeOK, RegistrationOffers
<1>2. (IF req.uri = "" THEN regJob.url ELSE req.uri) \in URLs \cup {""}
  BY DEF Request
<1>3. new \in Request
  BY <1>2 DEF Request
<1>4. Upsert(ident, req.chain, id) \in Regs
  BY UpsertTyped DEF Request
<1>5. identity' \in [exists: BOOLEAN, reg: Regs]
  BY <1>1, <1>4 DEF AdoptOnChain
<1>6. rr' = rr \/ rr' = [rr EXCEPT ![o] = new]
  BY DEF AdoptOnChain
<1>7. offerQ' \in {offerQ, offerQ \cup RegistrationOffers} /\ regQ' \in {regQ, regQ \cup {o}}
      /\ idQ' \in {idQ, TRUE}
  BY DEF AdoptOnChain, Requeue
<1> HIDE DEF new
<1>8. rr' \in [Offers -> Request \cup {NoRR}]
  BY <1>1, <1>3, <1>6
<1>9. offerQ' \subseteq Offers /\ regQ' \subseteq Offers /\ idQ' \in BOOLEAN
  BY <1>1, <1>7
<1> QED BY <1>5, <1>8, <1>9

\* The informer's events and the offer worker.
LEMMA OfferStepTyped ==
  ASSUME TypeOK, OfferStep \/ \E o \in Offers : OfferEvent(o)
  PROVE  TypeOK'
<1>0. RegistrationOffers \subseteq Offers /\ RegistrationOwner \subseteq Offers
  BY DEF RegistrationOffers, RegistrationOwner, OldestOf
<1>a. HomeChain \in Chains
  BY RegistrationAssumption
<1>b. Absent \in Offer
  BY <1>a DEF Absent, Offer, None
<1>c. ASSUME NEW o \in Offers PROVE offer[o].net \in Chains /\ offer[o].enabled \in BOOLEAN
  BY DEF TypeOK, Offer
<1>k. ASSUME NEW o \in Offers PROVE EventsOfRequest(o) \subseteq Offers /\ KeyOfRequest(o) \subseteq Offers
  BY DEF EventsOfRequest, KeyOfRequest, RegistrationOffers
<1>1. ASSUME NEW o \in Offers, OfferEvent(o) PROVE TypeOK'
  BY <1>1 DEF TypeOK, OfferEvent
<1>2. CASE WriteOfferStatus
  <2>1. offerJob.new \in Offer /\ offerJob.o \in Offers
    BY <1>2 DEF TypeOK, OfferJob, WriteOfferStatus, Idle
  <2>2. offer' \in [Offers -> Offer] /\ news' \subseteq Offers
    BY <1>2, <2>1 DEF TypeOK, WriteOfferStatus, Changed
  <2>3. offerQ' \subseteq Offers /\ regQ' \subseteq Offers /\ idQ' \in BOOLEAN
    <3>1. offerQ' = offerQ \/ offerQ' = offerQ \cup {offerJob.o}
      BY <1>2 DEF WriteOfferStatus
    <3>2. regQ' = regQ \/ regQ' = regQ \cup RegistrationOwner
      BY <1>2 DEF WriteOfferStatus
    <3>3. idQ' = idQ \/ idQ' = TRUE
      BY <1>2 DEF WriteOfferStatus
    <3> QED BY <3>2, <3>3, <1>0, <2>1, <3>1 DEF TypeOK
  <2>4. unowned' \subseteq Offers
    BY <1>2, <2>1 DEF TypeOK, WriteOfferStatus
  <2> QED BY <1>2, <2>2, <2>3, <2>4 DEF TypeOK, WriteOfferStatus
<1>3. ASSUME NEW o \in Offers, ReconcileOffer(o) PROVE TypeOK'
  <2> DEFINE copy == [offer[o] EXCEPT !.up = TRUE]
  <2>1. copy \in Offer
    <3>1. offer[o] \in Offer
      BY DEF TypeOK
    <3> QED BY <3>1 DEF Offer
  <2>2. RegistrationStatus(o, copy)
    BY <1>3 DEF ReconcileOffer
  <2> HIDE DEF copy
  <2>3. rr' \in [Offers -> Request \cup {NoRR}] /\ offerJob' \in OfferJob
    BY <2>1, <2>2, StatusTyped
  <2>4. offerQ' \subseteq Offers /\ regQ' \subseteq Offers /\ idQ' \in BOOLEAN
    <3>1. offerQ' \subseteq Offers
      BY <1>3, <1>k DEF TypeOK, ReconcileOffer
    <3>2. regQ' \subseteq Offers
      BY <1>3, <1>k DEF TypeOK, ReconcileOffer
    <3>3. idQ' \in BOOLEAN
      BY <1>3 DEF TypeOK, ReconcileOffer
    <3> QED BY <3>1, <3>2, <3>3
  <2> QED BY <1>3, <2>3, <2>4 DEF TypeOK, ReconcileOffer
<1>4. ASSUME NEW o \in Offers, OfferIsGone(o) PROVE TypeOK'
  BY <1>4 DEF TypeOK, OfferIsGone
<1>5. ASSUME NEW o \in Offers, HandOver(o) PROVE TypeOK'
  <2>1. offerQ' \subseteq Offers
    BY <1>0, <1>5, <1>k DEF TypeOK, HandOver
  <2>2. regQ' \subseteq Offers
    BY <1>0, <1>5, <1>k DEF TypeOK, HandOver
  <2> QED BY <1>b, <1>5, <2>1, <2>2 DEF TypeOK, HandOver, Changed
<1>6. ASSUME NEW o \in Offers, AskTombstone(o) PROVE TypeOK'
  <2>1. BuildRequest(o, "Tombstoned", offer[o].net) \in Request
    BY <1>c, BuiltTyped
  <2>2. rr' \in [Offers -> Request \cup {NoRR}]
    BY <1>6, <2>1 DEF TypeOK, AskTombstone
  <2>3. offerQ' \subseteq Offers
    BY <1>6, <1>k DEF TypeOK, AskTombstone
  <2>4. regQ' \subseteq Offers
    BY <1>6, <1>k DEF TypeOK, AskTombstone
  <2>5. idQ' \in BOOLEAN
    BY <1>6, <1>c DEF TypeOK, AskTombstone
  <2> QED BY <1>6, <2>2, <2>3, <2>4, <2>5 DEF TypeOK, AskTombstone
<1>7. ASSUME NEW o \in Offers, FinishDelete(o) PROVE TypeOK'
  <2>1. offerQ' \subseteq Offers
    BY <1>7, <1>k DEF TypeOK, FinishDelete
  <2>2. regQ' \subseteq Offers
    BY <1>7, <1>k DEF TypeOK, FinishDelete
  <2>3. idQ' \in BOOLEAN
    BY <1>c, <1>7 DEF TypeOK, FinishDelete
  <2> QED BY <1>b, <1>7, <2>1, <2>2, <2>3 DEF TypeOK, FinishDelete, Changed
<1> QED BY <1>1, <1>2, <1>3, <1>4, <1>5, <1>6, <1>7 DEF OfferStep

\* The request worker.
LEMMA RequestStepTyped ==
  ASSUME TypeOK, RequestStep \/ AwaitResources \/ \E o \in Offers : GetRequest(o)
  PROVE  TypeOK'
<1>0. RegistrationOffers \subseteq Offers /\ RegistrationOwner \subseteq Offers
  BY DEF RegistrationOffers, RegistrationOwner, OldestOf
<1>a. ASSUME regJob # Idle
      PROVE  regJob.o \in Offers /\ regJob.req \in Request /\ regJob.req.chain \in Chains
  <2>1. regJob \in RequestJob
    BY <1>a DEF TypeOK
  <2> QED BY <2>1 DEF RequestJob, Request
<1>b. ASSUME regJob.pc = "settle"
      PROVE  /\ regJob # Idle
             /\ regJob.ident \in Regs /\ regJob.url \in URLs /\ regJob.doc \in Document
  BY <1>b DEF TypeOK, Idle, RequestJob
<1>c. ASSUME NEW services \in SUBSET Offers, NEW regs \in Regs
      PROVE  IdentityDocument(services, regs) \in Document
  BY DEF IdentityDocument, Document
<1>d. ASSUME NEW o \in Offers, NEW req \in Request, NEW ident \in Regs, NEW d \in Document,
             NEW then \in {"active", "tombstone"}
      PROVE  [pc |-> "settle", o |-> o, req |-> req, ident |-> ident, url |-> url, doc |-> d,
              then |-> then] \in RequestJob
  <2>1. url \in URLs
    BY DEF TypeOK
  <2> QED BY <2>1 DEF RequestJob
<1>e. identity \in [exists: BOOLEAN, reg: Regs] /\ identity.reg \in Regs
  BY DEF TypeOK
<1>k. ASSUME NEW o \in Offers PROVE EventsOfRequest(o) \subseteq Offers /\ KeyOfRequest(o) \subseteq Offers
  BY DEF EventsOfRequest, KeyOfRequest, RegistrationOffers
<1>1. ASSUME NEW o \in Offers, GetRequest(o) PROVE TypeOK'
  <2>1. rr[o] \in Request \cup {NoRR}
    BY DEF TypeOK
  <2>2. regJob' \in RequestJob \cup {Idle}
    BY <1>1, <2>1 DEF GetRequest, RequestJob
  <2> QED BY <1>1, <2>2 DEF TypeOK, GetRequest
<1>2. CASE GetOffer
  <2>1. regJob # Idle
    BY <1>2 DEF GetOffer, Idle
  <2>2. Publishable([q \in {regJob.o} |-> offer[regJob.o]]) \in SUBSET Offers
    BY <1>0, <1>a, <2>1 DEF Publishable
  <2>3. regJob' \in RequestJob
    BY <1>2, <1>a, <1>c, <1>d, <1>e, <2>1, <2>2 DEF GetOffer
  <2> QED BY <1>2, <2>3 DEF TypeOK, GetOffer
<1>3. CASE OrphanHandedOver
  <2>1. regJob.o \in Offers
    BY <1>a, <1>3 DEF OrphanHandedOver, Idle
  <2>2. offerQ' \subseteq Offers
    BY <1>0, <1>3, <1>k, <2>1 DEF TypeOK, OrphanHandedOver
  <2>3. regQ' \subseteq Offers
    BY <1>0, <1>3, <1>k, <2>1 DEF TypeOK, OrphanHandedOver
  <2> QED BY <1>0, <1>3, <2>1, <2>2, <2>3 DEF TypeOK, OrphanHandedOver
<1>4. CASE OrphanTombstoned
  <2> DEFINE req == regJob.req
             id == IF identity.reg[req.chain] # None THEN identity.reg[req.chain] ELSE req.agent
             regs == Upsert(identity.reg, req.chain, id)
  <2>1. regJob # Idle
    BY <1>4 DEF OrphanTombstoned, Idle
  <2>2. id \in Ids \cup {None}
    BY <1>a, <1>e, <2>1 DEF Request, Regs
  <2>3. regs \in Regs
    BY <1>a, <1>e, <2>1, <2>2, UpsertTyped
  <2>4. identity' = [identity EXCEPT !.reg = regs] /\ idQ' = (idQ \/ regs # identity.reg)
        /\ regJob' = [pc |-> "settle", o |-> regJob.o, req |-> req, ident |-> regs,
                      url |-> url, doc |-> IdentityDocument({}, regs), then |-> "tombstone"]
    BY <1>4 DEF OrphanTombstoned
  <2>5. IdentityDocument({}, regs) \in Document
    BY <1>c, <2>3
  <2> HIDE DEF regs, req, id
  <2>6. identity' \in [exists: BOOLEAN, reg: Regs] /\ idQ' \in BOOLEAN
    BY <1>e, <2>3, <2>4 DEF TypeOK
  <2>7. regJob' \in RequestJob
    BY <1>a, <1>d, <2>1, <2>3, <2>4, <2>5 DEF req
  <2> QED BY <1>4, <2>6, <2>7 DEF TypeOK, OrphanTombstoned
<1>5. CASE WriteTombstone
  <2>1. /\ regJob.pc = "settle" /\ regJob.o \in Offers /\ regJob.req \in Request
        /\ regJob.ident[regJob.req.chain] \in Ids \cup {None} /\ regJob.doc \in Document
    BY <1>a, <1>b, <1>5 DEF WriteTombstone, Regs
  <2>2. [regJob.req EXCEPT !.phase = "OffChainOnly", !.agent = regJob.ident[regJob.req.chain]]
        \in Request
    BY <2>1 DEF Request
  <2>3. /\ rr' \in [Offers -> Request \cup {NoRR}]
        /\ offerQ' \subseteq Offers /\ regQ' \subseteq Offers /\ idQ' \in BOOLEAN
    BY <1>5, <2>1, <2>2, WriteTyped DEF WriteTombstone
  <2> QED BY <1>5, <2>1, <2>3 DEF TypeOK, WriteTombstone, PublishDocument
<1>6. CASE AwaitResources
  <2>1. regJob.pc = "settle" /\ regJob.o \in Offers /\ regJob.req \in Request
        /\ regJob.doc \in Document
    BY <1>a, <1>b, <1>6 DEF AwaitResources
  <2>2. \A phase \in {"Publishing", "AwaitingExternal"} :
          [regJob.req EXCEPT !.phase = phase] \in Request
    BY <2>1 DEF Request
  <2>3. /\ rr' \in [Offers -> Request \cup {NoRR}]
        /\ offerQ' \subseteq Offers /\ regQ' \subseteq Offers /\ idQ' \in BOOLEAN
    BY <1>6, <2>1, <2>2, WriteTyped DEF AwaitResources
  <2> QED BY <1>6, <2>1, <2>3 DEF TypeOK, AwaitResources, PublishDocument, Event
<1>7. CASE AnchorRecovery
  <2>1. regJob.pc = "settle" /\ regJob.o \in Offers /\ regJob.req \in Request
        /\ regJob.doc \in Document /\ regJob.url \in URLs
    BY <1>a, <1>b, <1>7 DEF AnchorRecovery
  <2>2. Len(tokens) \in Nat /\ Len(pool) \in Nat /\ Len(tokens) <= MaxTokens
    BY RegistrationAssumption DEF TypeOK
  <2>3. \A from \in 0..Len(tokens) : from \in 0..MaxTokens
    BY <2>2, RegistrationAssumption
  <2>4. \A from \in 0..MaxTokens :
          [regJob.req EXCEPT !.phase = "AwaitingExternal", !.uri = regJob.url,
                             !.from = from, !.tx = None] \in Request
    BY <2>1 DEF Request
  <2>5. /\ rr' \in [Offers -> Request \cup {NoRR}]
        /\ offerQ' \subseteq Offers /\ regQ' \subseteq Offers /\ idQ' \in BOOLEAN
    BY <1>7, <2>1, <2>3, <2>4, WriteTyped DEF AnchorRecovery
  <2> QED BY <1>7, <2>1, <2>5 DEF TypeOK, AnchorRecovery, PublishDocument
<1>8. CASE SettleActive
  <2>1. /\ regJob.pc = "settle" /\ regJob.o \in Offers /\ regJob.req \in Request
        /\ regJob.doc \in Document /\ regJob.url \in URLs /\ regJob.ident \in Regs
        /\ regJob.req.chain \in Chains
    BY <1>a, <1>b, <1>8 DEF SettleActive
  <2>2. RecoverRegistration(regJob.o, regJob.req) \subseteq Ids
    BY <2>1, RecoveredAreMinted
  <2>3. [regJob.req EXCEPT !.phase = "AwaitingExternal"] \in Request
    BY <2>1 DEF Request
  <2>4. regJob.req.tx \in Ids \cup {None} /\ regJob.ident[regJob.req.chain] \in Ids \cup {None}
    BY <2>1 DEF Request, Regs
  <2>5. \/ \E id \in Ids, tx \in Ids \cup {None} :
             AdoptOnChain(regJob.o, regJob.req, regJob.ident, id, tx)
        \/ /\ WriteRequest(regJob.o, regJob.req, [regJob.req EXCEPT !.phase = "AwaitingExternal"])
           /\ UNCHANGED identity
    BY <1>8, <2>2, <2>4 DEF SettleActive
  <2>6. /\ rr' \in [Offers -> Request \cup {NoRR}]
        /\ identity' \in [exists: BOOLEAN, reg: Regs]
        /\ offerQ' \subseteq Offers /\ regQ' \subseteq Offers /\ idQ' \in BOOLEAN
    BY <1>e, <2>1, <2>3, <2>5, WriteTyped, AdoptTyped
  <2> QED BY <1>8, <2>1, <2>6 DEF TypeOK, SettleActive, PublishDocument
<1> QED BY <1>1, <1>2, <1>3, <1>4, <1>5, <1>6, <1>7, <1>8 DEF RequestStep

\* The transactions that are left behind when a command ends.
LEMMA LeaveTyped ==
  ASSUME pool \in Seq(Transaction)
  PROVE  /\ Leave \in Seq(Transaction) /\ Len(Leave) = Len(pool)
         /\ \A i \in DOMAIN Leave : ~Leave[i].run
<1>1. Len(pool) \in Nat /\ \A i \in 1..Len(pool) : pool[i] \in Transaction
  OBVIOUS
<1>2. \A i \in 1..Len(pool) : [pool[i] EXCEPT !.run = FALSE] \in Transaction
  BY <1>1 DEF Transaction
<1>3. \A i \in 1..Len(pool) : [pool[i] EXCEPT !.run = FALSE].run = FALSE
  BY <1>1 DEF Transaction
<1>4. DOMAIN Leave = 1..Len(pool)
  BY DEF Leave
<1>5. \A i \in 1..Len(pool) : Leave[i] \in Transaction /\ ~Leave[i].run
  BY <1>2, <1>3 DEF Leave
<1>6. Leave \in [1..Len(pool) -> Transaction]
  BY <1>2 DEF Leave
<1>7. Leave \in Seq(Transaction) /\ Len(Leave) = Len(pool)
  BY <1>1, <1>6, SeqDef, LenProperties
<1> QED BY <1>4, <1>5, <1>7

\* A running command, and what a step changes of it.
LEMMA CommandTyped ==
  ASSUME TypeOK, cli # Idle
  PROVE  /\ cli \in Command /\ cli.chain \in Chains /\ cli.uri \in URLs /\ cli.regs \in Regs
         /\ cli.start \in Nat
         /\ \A id \in Ids : AdoptFound(id) => cli' \in Command
         /\ \A pc \in {"mint", "wait", "enable"} : [cli EXCEPT !.pc = pc] \in Command
<1>1. cli \in Command
  BY DEF TypeOK
<1>2. cli.chain \in Chains /\ cli.uri \in URLs /\ cli.regs \in Regs /\ cli.start \in Nat
  BY <1>1 DEF Command
<1>3. ASSUME NEW id \in Ids, AdoptFound(id) PROVE cli' \in Command
  <2>1. Upsert(cli.regs, cli.chain, id) \in Regs
    BY <1>2, UpsertTyped
  <2>2. \A regs \in Regs : [cli EXCEPT !.pc = "persist", !.regs = regs] \in Command
    BY <1>1 DEF Command
  <2> QED BY <1>3, <2>1, <2>2 DEF AdoptFound
<1>4. \A pc \in {"mint", "wait", "enable"} : [cli EXCEPT !.pc = pc] \in Command
  BY <1>1 DEF Command
<1> QED BY <1>1, <1>2, <1>3, <1>4

\* The chain as the mints see it.
LEMMA ChainTyped ==
  ASSUME TypeOK
  PROVE  /\ Len(tokens) \in Nat /\ Len(pool) \in Nat /\ MaxTokens \in Nat
         /\ \A i \in 1..Len(tokens) : tokens[i] \in Token
         /\ \A i \in 1..Len(pool) : pool[i] \in Transaction
         /\ DOMAIN tokens = 1..Len(tokens) /\ DOMAIN pool = 1..Len(pool)
BY RegistrationAssumption DEF TypeOK

\* The running obol sell register, and the chain that mines for it.
LEMMA CliStepTyped ==
  ASSUME TypeOK, CliStep \/ Mine \/ PersistFails
  PROVE  TypeOK'
<1>1. CASE UpdateURI
  <2>1. cli # Idle
    BY <1>1 DEF UpdateURI, Idle
  <2>2. \A id \in 1..Len(tokens) : [tokens[id] EXCEPT !.uri = cli.uri] \in Token
    BY <2>1, CommandTyped, ChainTyped DEF Token
  <2>3. \A id : [tokens EXCEPT ![id].uri = cli.uri] \in Seq(Token)
                /\ Len([tokens EXCEPT ![id].uri = cli.uri]) = Len(tokens)
    <3>1. tokens \in [1..Len(tokens) -> Token]
      BY SeqDef, LenProperties DEF TypeOK
    <3>2. \A id : [tokens EXCEPT ![id].uri = cli.uri] \in [1..Len(tokens) -> Token]
      BY <2>2, <3>1
    <3> QED BY <3>2, ChainTyped, SeqDef, LenProperties
  <2>4. tokens' \in Seq(Token) /\ Len(tokens') = Len(tokens)
    BY <1>1, <2>3 DEF UpdateURI, TypeOK
  <2>5. cli' \in Command \cup {Idle}
    BY <1>1, <2>1, CommandTyped DEF UpdateURI
  <2> QED BY <1>1, <2>4, <2>5 DEF TypeOK, UpdateURI
<1>2. CASE RecoverBeforeMint
  <2>1. cli # Idle
    BY <1>2 DEF RecoverBeforeMint, Idle
  <2>2. FindByOwnerAndURI(cli.chain, cli.uri, 0) \subseteq Ids
    BY FoundAreMinted
  <2>3. cli' \in Command
    BY <1>2, <2>1, <2>2, CommandTyped DEF RecoverBeforeMint
  <2> QED BY <1>2, <2>3 DEF TypeOK, RecoverBeforeMint
<1>3. CASE SubmitRegister
  <2>1. cli \in Command
    BY <1>3, CommandTyped DEF SubmitRegister, Idle
  <2>2. \A n \in Nat : [cli EXCEPT !.pc = "wait", !.sent = TRUE, !.start = n] \in Command
    BY <2>1 DEF Command
  <2>3. cli' \in Command
    BY <1>3, <2>2, ChainTyped DEF SubmitRegister
  <2>4. [chain |-> cli.chain, uri |-> cli.uri, run |-> TRUE] \in Transaction
    BY <2>1 DEF Command, Transaction
  <2>5. pool' \in Seq(Transaction) /\ Len(tokens) + Len(pool') <= MaxTokens
    <3>1. pool \in Seq(Transaction) /\ Len(tokens) + Len(pool) <= MaxTokens
      BY DEF TypeOK
    <3>2. CASE UNCHANGED pool
      BY <3>1, <3>2
    <3>3. CASE /\ pool' = Append(pool, [chain |-> cli.chain, uri |-> cli.uri, run |-> TRUE])
               /\ Len(tokens) + Len(pool) # MaxTokens
      <4> DEFINE t == [chain |-> cli.chain, uri |-> cli.uri, run |-> TRUE]
      <4>1. t \in Transaction
        BY <2>4
      <4> HIDE DEF t
      <4>2. Append(pool, t) \in Seq(Transaction) /\ Len(Append(pool, t)) = Len(pool) + 1
        BY <3>1, <4>1
      <4> QED BY <3>1, <3>3, <4>2, ChainTyped, SMTT(30) DEF t
    <3> QED BY <1>3, <3>2, <3>3 DEF SubmitRegister, Broadcast
  <2> QED BY <1>3, <2>3, <2>5 DEF TypeOK, SubmitRegister
<1>4. CASE Mine
  <2>1. pool # <<>> /\ Len(pool) > 0
    BY <1>4, ChainTyped DEF Mine, TypeOK
  <2>2. Head(pool) \in Transaction
    BY <2>1, ChainTyped
  <2>3. [chain |-> Head(pool).chain, owner |-> "signer", uri |-> Head(pool).uri] \in Token
    BY <2>2 DEF Transaction, Token
  <2>4. tokens' \in Seq(Token) /\ pool' \in Seq(Transaction)
        /\ Len(tokens') + Len(pool') <= MaxTokens
    BY <1>4, <2>1, <2>3, ChainTyped DEF Mine, TypeOK
  <2>5. Len(tokens) + 1 \in Ids
    BY <2>1, ChainTyped DEF TypeOK, Ids
  <2>6. cli' \in Command \cup {Idle}
    <3>1. CASE cli = Idle
      BY <1>4, <3>1 DEF Mine, Idle, TypeOK
    <3>2. CASE cli # Idle
      <4>1. cli \in Command
        BY <3>2, CommandTyped
      <4>2. \A id \in Ids : [cli EXCEPT !.minted = @ + 1, !.got = id] \in Command
        <5>1. cli.minted + 1 \in Nat
          BY <4>1 DEF Command
        <5>2. \A m \in Nat, id \in Ids : [cli EXCEPT !.minted = m, !.got = id] \in Command
          BY <4>1 DEF Command
        <5> QED BY <5>1, <5>2
      <4> QED BY <1>4, <4>1, <4>2, <2>5 DEF Mine
    <3> QED BY <3>1, <3>2
  <2> QED BY <1>4, <2>4, <2>6 DEF TypeOK, Mine
<1>5. CASE MintAnswered
  <2>1. cli # Idle
    BY <1>5 DEF MintAnswered, Idle
  <2>2. cli.got \in Ids
    BY <1>5, <2>1, CommandTyped DEF MintAnswered, Command
  <2>3. cli' \in Command
    BY <1>5, <2>1, <2>2, CommandTyped DEF MintAnswered
  <2> QED BY <1>5, <2>3 DEF TypeOK, MintAnswered
<1>6. CASE RegisterFails
  <2>1. cli # Idle
    BY <1>6 DEF RegisterFails, Idle
  <2>2. FindByOwnerAndURI(cli.chain, cli.uri, cli.start) \subseteq Ids
    BY <2>1, FoundAreMinted, CommandTyped
  <2>3. ASSUME cli.attempt < 3 PROVE [cli EXCEPT !.pc = "mint", !.attempt = @ + 1] \in Command
    <3>1. cli.attempt + 1 \in 1..3 /\ cli \in Command
      BY <2>1, <2>3, CommandTyped DEF Command
    <3>2. \A n \in 1..3 : [cli EXCEPT !.pc = "mint", !.attempt = n] \in Command
      BY <3>1 DEF Command
    <3> QED BY <3>1, <3>2
  <2>4. cli' \in Command \cup {Idle}
    BY <1>6, <2>1, <2>2, <2>3, CommandTyped DEF RegisterFails
  <2>5. pool' \in Seq(Transaction) /\ Len(pool') = Len(pool)
    BY <1>6, LeaveTyped DEF RegisterFails, TypeOK
  <2> QED BY <1>6, <2>4, <2>5 DEF TypeOK, RegisterFails
<1>7. CASE PersistIdentity
  <2>1. cli # Idle
    BY <1>7 DEF PersistIdentity, Idle
  <2>2. cli' \in Command /\ cli.regs \in Regs
    BY <1>7, <2>1, CommandTyped DEF PersistIdentity
  <2> QED BY <1>7, <2>2 DEF TypeOK, PersistIdentity
<1>8. CASE PersistFails
  <2>1. pool' \in Seq(Transaction) /\ Len(pool') = Len(pool)
    BY <1>8, LeaveTyped DEF PersistFails, TypeOK
  <2> QED BY <1>8, <2>1 DEF TypeOK, PersistFails
<1>9. CASE EnableOffers
  <2>1. pool' \in Seq(Transaction) /\ Len(pool') = Len(pool)
    BY <1>9, LeaveTyped DEF EnableOffers, TypeOK
  <2>2. \A o \in Offers : offer[o] \in Offer /\ [offer[o] EXCEPT !.enabled = TRUE] \in Offer
    <3>1. \A o \in Offers : offer[o] \in Offer
      BY DEF TypeOK
    <3> QED BY <3>1 DEF Offer
  <2>3. offer' \in [Offers -> Offer]
    BY <1>9, <2>2 DEF EnableOffers
  <2>4. news' \subseteq Offers
    BY <1>9 DEF EnableOffers, TypeOK
  <2> QED BY <1>9, <2>1, <2>3, <2>4 DEF TypeOK, EnableOffers
<1> QED BY <1>1, <1>2, <1>3, <1>4, <1>5, <1>6, <1>7, <1>8, <1>9 DEF CliStep

\* The identity worker, the other commands, the users and the replay.
LEMMA OtherStepTyped ==
  ASSUME TypeOK,
         \/ IdentityStep
         \/ \E o \in Offers : CreateOffer(o) \/ DeleteOffer(o) \/ EditOffer(o)
         \/ \E c \in Chains : StartRegister(c) \/ ForgetIdentity(c)
                              \/ \E i \in Ids : ImportIdentity(c, i)
         \/ \E i \in Ids : TransferToken(i)
         \/ MoveOrigin \/ RecreateCluster \/ ReconcileRecord \/ ReplayFails \/ MirrorRecord
  PROVE  TypeOK'
<1>0. HomeChain \in Chains
  BY RegistrationAssumption
<1>a. Absent \in Offer /\ NoRegs \in Regs
  BY <1>0 DEF Absent, Offer, None, NoRegs, Regs
<1>b. identity \in [exists: BOOLEAN, reg: Regs] /\ identity.reg \in Regs
  BY DEF TypeOK
<1>c. \A o \in Offers : offer[o] \in Offer
  BY DEF TypeOK
<1>d. Event => left' \in Nat
  BY DEF TypeOK, Event
<1>1. CASE EnsureIdentity
  BY <1>1, SeedsTyped DEF TypeOK, EnsureIdentity
<1>2. CASE ListForIdentity
  <2>1. Publishable(NoOffers) \subseteq Offers
    BY DEF Publishable, NoOffers, RegistrationOffers
  <2>2. idJob' \in IdentityJob
    BY <1>2, <1>b, <2>1 DEF ListForIdentity, IdentityJob, IdentityDocument, Document
  <2> QED BY <1>2, <2>2 DEF TypeOK, ListForIdentity
<1>3. CASE PublishForIdentity
  <2>1. idJob.doc \in Document
    BY <1>3 DEF TypeOK, PublishForIdentity, IdentityJob, Idle
  <2> QED BY <1>3, <2>1 DEF TypeOK, PublishForIdentity
<1>4. ASSUME NEW o \in Offers, CreateOffer(o) PROVE TypeOK'
  <2>1. [Absent EXCEPT !.phase = "live", !.enabled = o \in Enabled] \in Offer
    <3>1. \A b \in BOOLEAN : [Absent EXCEPT !.phase = "live", !.enabled = b] \in Offer
      BY <1>a DEF Offer
    <3>2. (o \in Enabled) \in BOOLEAN
      OBVIOUS
    <3> QED BY <3>1, <3>2, Zenon
  <2> QED BY <1>4, <1>d, <2>1 DEF TypeOK, CreateOffer, Changed
<1>5. ASSUME NEW o \in Offers, DeleteOffer(o) PROVE TypeOK'
  <2>1. [offer[o] EXCEPT !.phase = "deleting"] \in Offer
    BY <1>c DEF Offer
  <2> QED BY <1>5, <1>d, <2>1 DEF TypeOK, DeleteOffer, Changed
<1>6. ASSUME NEW o \in Offers, EditOffer(o) PROVE TypeOK'
  <2>1. [offer[o] EXCEPT !.enabled = ~@] \in Offer
        /\ \A c \in Chains : [offer[o] EXCEPT !.net = c] \in Offer
    BY <1>c DEF Offer
  <2>2. offer' \in [Offers -> Offer]
    BY <1>6, <2>1 DEF TypeOK, EditOffer
  <2> QED BY <1>6, <1>d, <2>2 DEF TypeOK, EditOffer, Changed
<1>7. ASSUME NEW c \in Chains, StartRegister(c) PROVE TypeOK'
  <2> DEFINE regs == IF identity.exists THEN identity.reg ELSE SeedByCLI
  <2>1. regs \in Regs
    BY <1>b, SeedsTyped
  <2>2. /\ cli' = [pc |-> IF regs[c] # None THEN "existing" ELSE "recover",
                   chain |-> c, uri |-> url, regs |-> regs, attempt |-> 1,
                   start |-> Len(tokens), sent |-> FALSE, got |-> None, minted |-> 0]
        /\ identity' = [exists |-> TRUE, reg |-> regs]
        /\ record' = IF identity.exists THEN record ELSE regs
        /\ idQ' = (idQ \/ ~identity.exists)
    BY <1>7 DEF StartRegister
  <2> HIDE DEF regs
  <2>3. url \in URLs
    BY DEF TypeOK
  <2>4. cli' \in Command
    BY <2>1, <2>2, <2>3, ChainTyped DEF Command
  <2>5. identity' \in [exists: BOOLEAN, reg: Regs] /\ record' \in Regs /\ idQ' \in BOOLEAN
    BY <1>b, <2>1, <2>2 DEF TypeOK
  <2> QED BY <1>7, <1>d, <2>4, <2>5 DEF TypeOK, StartRegister
<1>8. ASSUME NEW c \in Chains, ForgetIdentity(c) PROVE TypeOK'
  <2>1. [identity EXCEPT !.reg[c] = None] \in [exists: BOOLEAN, reg: Regs]
    BY <1>b DEF Regs
  <2>2. identity' \in [exists: BOOLEAN, reg: Regs] /\ record' \in Regs
    BY <1>8, <2>1 DEF ForgetIdentity
  <2> QED BY <1>8, <1>d, <2>2 DEF TypeOK, ForgetIdentity
<1>9. ASSUME NEW c \in Chains, NEW i \in Ids, ImportIdentity(c, i) PROVE TypeOK'
  <2>1. \E regs \in Regs : /\ identity' = [exists |-> TRUE, reg |-> Upsert(regs, c, i)]
                           /\ record' = Upsert(regs, c, i)
    BY <1>9, <1>a, <1>b DEF ImportIdentity
  <2>2. identity' \in [exists: BOOLEAN, reg: Regs] /\ record' \in Regs
    BY <2>1, UpsertTyped
  <2> QED BY <1>9, <1>d, <2>2 DEF TypeOK, ImportIdentity
<1>10. ASSUME NEW i \in Ids, TransferToken(i) PROVE TypeOK'
  <2>1. \A j \in 1..Len(tokens) : [tokens[j] EXCEPT !.owner = "other"] \in Token
    BY ChainTyped DEF Token
  <2>2. [tokens EXCEPT ![i].owner = "other"] \in Seq(Token)
        /\ Len([tokens EXCEPT ![i].owner = "other"]) = Len(tokens)
    <3>1. tokens \in [1..Len(tokens) -> Token]
      BY SeqDef, LenProperties DEF TypeOK
    <3>2. [tokens EXCEPT ![i].owner = "other"] \in [1..Len(tokens) -> Token]
      BY <2>1, <3>1
    <3> QED BY <3>2, ChainTyped, SeqDef, LenProperties
  <2> QED BY <1>10, <1>d, <2>2 DEF TypeOK, TransferToken
<1>11. CASE MoveOrigin
  BY <1>11, <1>d DEF TypeOK, MoveOrigin
<1>12. CASE RecreateCluster
  BY <1>12, <1>a, <1>d DEF TypeOK, RecreateCluster, NoIdentity, NoDoc, Document
<1>13. CASE ReconcileRecord
  <2>1. [exists |-> TRUE, reg |-> record] \in [exists: BOOLEAN, reg: Regs]
    BY DEF TypeOK
  <2>2. identity' \in [exists: BOOLEAN, reg: Regs] /\ record' \in Regs
    BY <1>13, <1>b, <2>1 DEF TypeOK, ReconcileRecord
  <2> QED BY <1>13, <2>2 DEF TypeOK, ReconcileRecord
<1>14. CASE ReplayFails
  BY <1>14, <1>d DEF TypeOK, ReplayFails
<1>15. CASE MirrorRecord
  BY <1>15, <1>b, <1>d DEF TypeOK, MirrorRecord
<1> QED BY <1>1, <1>2, <1>3, <1>4, <1>5, <1>6, <1>7, <1>8, <1>9, <1>10, <1>11, <1>12,
           <1>13, <1>14, <1>15 DEF IdentityStep

\* The types are kept by every step.
LEMMA StepTyped ==
  ASSUME TypeOK, [Next]_vars
  PROVE  TypeOK'
<1>1. CASE UNCHANGED vars
  BY <1>1 DEF vars, TypeOK
<1> QED BY <1>1, OfferStepTyped, RequestStepTyped, CliStepTyped, OtherStepTyped DEF Next

\* The types hold at the start, in a new stack and in an old one.
LEMMA InitTyped ==
  ASSUME Init
  PROVE  TypeOK
<1>1. HomeChain \in Chains /\ url \in URLs /\ 1 \in Ids /\ MaxTokens \in Nat \ {0}
      /\ MaxEvents \in Nat /\ LegacyEvents \in Nat
  BY RegistrationAssumption DEF Init, Ids
<1>2. Absent \in Offer /\ NoRegs \in Regs
  BY <1>1 DEF Absent, Offer, None, NoRegs, Regs
<1>3. \A o \in Offers : Legacy(o) \in Offer
  BY <1>1, <1>2 DEF Legacy, Offer
<1>4. [chain |-> HomeChain, owner |-> "signer", uri |-> url] \in Token
  BY <1>1 DEF Token
<1>5. tokens \in Seq(Token) /\ Len(tokens) <= 1 /\ pool = <<>> /\ Len(tokens) \in Nat
  <2> DEFINE t == [chain |-> HomeChain, owner |-> "signer", uri |-> url]
  <2>1. (tokens = <<>> \/ tokens = <<t>>) /\ pool = <<>>
    BY DEF Init
  <2>2. t \in Token
    BY <1>4
  <2> HIDE DEF t
  <2>3. CASE tokens = <<>>
    BY <2>1, <2>3
  <2>4. CASE tokens = <<t>>
    <3>1. <<t>> \in Seq(Token) /\ Len(<<t>>) = 1
      BY <2>2
    <3> QED BY <2>1, <2>4, <3>1
  <2> QED BY <2>1, <2>3, <2>4
<1>6. pool \in Seq(Transaction) /\ Len(tokens) + Len(pool) <= MaxTokens
  BY <1>1, <1>5
<1>7. offer \in [Offers -> Offer] /\ left \in Nat
  BY <1>1, <1>2, <1>3 DEF Init
<1>8. identity \in [exists: BOOLEAN, reg: Regs] /\ doc \in Document /\ record \in Regs
  BY <1>2 DEF Init, NoIdentity, NoDoc, Document
<1>9. rr \in [Offers -> Request \cup {NoRR}] /\ news \subseteq Offers /\ seen = offer
      /\ offerQ = {} /\ regQ = {} /\ idQ = FALSE /\ offerJob = Idle /\ regJob = Idle /\ idJob = Idle
      /\ cli = Idle /\ replay = "done" /\ unowned = {}
  BY DEF Init
<1> QED BY <1>1, <1>5, <1>6, <1>7, <1>8, <1>9 DEF TypeOK

\* The objects, queues, workers, chain and commands are what their types say.
THEOREM TypeCorrect == Spec => []TypeOK
BY InitTyped, StepTyped, PTL DEF Spec

----------------------------------------------------------------------------
(***************************************************************************)
(* One mint per run.                                                       *)
(***************************************************************************)

\* No transaction in the pool is of the running command.
NoRun == \A i \in DOMAIN pool : ~pool[i].run

\* A command that has not submitted has nothing in the pool and minted nothing;
\* one that has submitted has one transaction there at most, and none once that
\* was mined.  Without a command nothing in the pool is of one.
MintsOnce ==
    /\ cli = Idle => NoRun
    /\ cli # Idle =>
         /\ cli.pc \in {"existing", "recover"} => ~cli.sent
         /\ ~cli.sent => cli.minted = 0 /\ NoRun
         /\ cli.minted <= 1
         /\ cli.minted = 1 => NoRun
         /\ \A i, j \in DOMAIN pool : pool[i].run /\ pool[j].run => i = j

\* The steps of the command itself, and the mining.
LEMMA CommandMintsOnce ==
  ASSUME TypeOK, MintsOnce, CliStep \/ Mine \/ PersistFails
  PROVE  MintsOnce'
<1>0. pool \in Seq(Transaction)
  BY DEF TypeOK
<1>1. CASE UpdateURI
  <2>1. cli \in Command
    BY <1>1, CommandTyped DEF UpdateURI, Idle
  <2>2. NoRun /\ cli.minted = 0
    BY <1>1 DEF UpdateURI, MintsOnce, Idle
  <2> QED BY <1>1, <2>1, <2>2 DEF UpdateURI, MintsOnce, NoRun, Command
<1>2. CASE RecoverBeforeMint
  <2>1. cli \in Command /\ cli # Idle /\ UNCHANGED pool
    BY <1>2, CommandTyped DEF RecoverBeforeMint, Idle
  <2>2. cli'.sent = cli.sent /\ cli'.minted = cli.minted /\ cli'.pc \in {"persist", "mint"}
    BY <1>2, <2>1 DEF RecoverBeforeMint, AdoptFound, Command
  <2> QED BY <2>1, <2>2 DEF MintsOnce, NoRun, Idle
<1>3. CASE SubmitRegister
  <2>1. cli \in Command /\ cli # Idle
    BY <1>3, CommandTyped DEF SubmitRegister, Idle
  <2>2. cli'.sent /\ cli'.minted = cli.minted /\ cli'.pc = "wait"
    BY <1>3, <2>1 DEF SubmitRegister, Command
  <2>3. CASE UNCHANGED pool
    BY <2>1, <2>2, <2>3 DEF MintsOnce, NoRun, Idle
  <2>4. CASE ~cli.sent /\ pool' = Append(pool, [chain |-> cli.chain, uri |-> cli.uri, run |-> TRUE])
    <3>1. NoRun /\ cli.minted = 0
      BY <2>1, <2>4 DEF MintsOnce
    <3>2. \A i \in DOMAIN pool' : pool'[i].run => i = Len(pool) + 1
      BY <1>0, <2>4, <3>1 DEF NoRun
    <3> QED BY <2>2, <3>1, <3>2 DEF MintsOnce, Idle
  <2> QED BY <1>3, <2>3, <2>4 DEF SubmitRegister, Broadcast
<1>4. CASE Mine
  <2>1. /\ Len(pool) \in Nat \ {0} /\ pool' = Tail(pool) /\ Head(pool) = pool[1]
        /\ DOMAIN pool = 1..Len(pool) /\ DOMAIN pool' = 1..(Len(pool) - 1)
        /\ \A i \in DOMAIN pool' : pool'[i] = pool[i + 1] /\ i + 1 \in DOMAIN pool
    BY <1>0, <1>4 DEF Mine
  <2>2. CASE cli = Idle
    BY <1>4, <2>1, <2>2 DEF Mine, MintsOnce, NoRun
  <2>3. CASE cli # Idle /\ ~pool[1].run
    BY <1>4, <2>1, <2>3 DEF Mine, MintsOnce, NoRun
  <2>4. CASE cli # Idle /\ pool[1].run
    <3>1. cli \in Command /\ 1 \in DOMAIN pool
      BY <2>1, <2>4, CommandTyped
    <3>2. cli.sent /\ cli.minted # 1 /\ cli.minted <= 1 /\ cli.minted \in Nat
      BY <2>4, <3>1 DEF MintsOnce, NoRun, Command
    <3>3. cli' = [cli EXCEPT !.minted = cli.minted + 1, !.got = Len(tokens) + 1]
      BY <1>4, <2>1, <2>4, <3>1 DEF Mine
    <3>4. cli'.sent = cli.sent /\ cli'.minted = 1 /\ cli'.pc = cli.pc
      <4>1. cli.minted = 0
        BY <3>2
      <4> QED BY <3>1, <3>3, <4>1 DEF Command
    <3>5. \A i \in DOMAIN pool' : ~pool'[i].run
      <4> SUFFICES ASSUME NEW i \in DOMAIN pool', pool'[i].run PROVE FALSE
        OBVIOUS
      <4>1. pool[i + 1].run /\ i + 1 \in DOMAIN pool /\ i + 1 # 1
        BY <2>1
      <4> QED BY <2>4, <3>1, <4>1 DEF MintsOnce
    <3>6. cli.pc \notin {"existing", "recover"}
      BY <2>4, <3>2 DEF MintsOnce
    <3>7. cli' # Idle
      BY <3>1, <3>4 DEF Idle, Command
    <3> QED BY <3>2, <3>4, <3>5, <3>6, <3>7 DEF MintsOnce, NoRun
  <2> QED BY <2>2, <2>3, <2>4
<1>5. CASE MintAnswered
  <2>1. cli \in Command /\ cli # Idle /\ UNCHANGED pool
    BY <1>5, CommandTyped DEF MintAnswered, Idle
  <2>2. cli'.sent = cli.sent /\ cli'.minted = cli.minted /\ cli'.pc = "persist"
    BY <1>5, <2>1 DEF MintAnswered, AdoptFound, Command
  <2> QED BY <2>1, <2>2 DEF MintsOnce, NoRun, Idle
<1>6. CASE RegisterFails
  <2>1. cli \in Command /\ cli # Idle
    BY <1>6, CommandTyped DEF RegisterFails, Idle
  <2>2. CASE cli' = Idle /\ pool' = Leave
    BY <1>0, <2>2, LeaveTyped DEF MintsOnce, NoRun
  <2>3. ASSUME UNCHANGED pool, NEW id, AdoptFound(id) PROVE MintsOnce'
    <3>1. cli'.sent = cli.sent /\ cli'.minted = cli.minted /\ cli'.pc = "persist"
      BY <2>1, <2>3 DEF AdoptFound, Command
    <3> QED BY <2>1, <2>3, <3>1 DEF MintsOnce, NoRun, Idle
  <2>4. CASE UNCHANGED pool /\ cli' = [cli EXCEPT !.pc = "mint", !.attempt = @ + 1]
    <3>1. cli'.sent = cli.sent /\ cli'.minted = cli.minted /\ cli'.pc = "mint"
      BY <2>1, <2>4 DEF Command
    <3> QED BY <2>1, <2>4, <3>1 DEF MintsOnce, NoRun, Idle
  <2> QED BY <1>6, <2>2, <2>3, <2>4 DEF RegisterFails
<1>7. CASE PersistIdentity
  <2>1. cli \in Command /\ cli # Idle /\ UNCHANGED pool
    BY <1>7, CommandTyped DEF PersistIdentity, Idle
  <2>2. cli'.sent = cli.sent /\ cli'.minted = cli.minted /\ cli'.pc = "enable"
    BY <1>7, <2>1 DEF PersistIdentity, Command
  <2> QED BY <2>1, <2>2 DEF MintsOnce, NoRun, Idle
<1>8. CASE PersistFails
  BY <1>0, <1>8, LeaveTyped DEF PersistFails, MintsOnce, NoRun
<1>9. CASE EnableOffers
  BY <1>0, <1>9, LeaveTyped DEF EnableOffers, MintsOnce, NoRun
<1> QED BY <1>1, <1>2, <1>3, <1>4, <1>5, <1>6, <1>7, <1>8, <1>9 DEF CliStep

\* Nobody else touches the pool, and the command starts with nothing in it.
LEMMA StepMintsOnce ==
  ASSUME TypeOK, MintsOnce, [Next]_vars
  PROVE  MintsOnce'
<1>1. ASSUME NEW c \in Chains, StartRegister(c) PROVE MintsOnce'
  <2>1. cli = Idle /\ UNCHANGED pool
    BY <1>1 DEF StartRegister
  <2>2. ~cli'.sent /\ cli'.minted = 0
    BY <1>1 DEF StartRegister
  <2> QED BY <2>1, <2>2 DEF MintsOnce, NoRun
<1>2. ASSUME UNCHANGED <<pool, cli>> PROVE MintsOnce'
  BY <1>2 DEF MintsOnce, NoRun
<1>3. OfferStep \/ (\E o \in Offers : OfferEvent(o) \/ GetRequest(o) \/ CreateOffer(o)
                                    \/ DeleteOffer(o) \/ EditOffer(o))
      => UNCHANGED <<pool, cli>>
  BY DEF OfferStep, WriteOfferStatus, ReconcileOffer, OfferIsGone, HandOver, AskTombstone,
         FinishDelete, OfferEvent, GetRequest, CreateOffer, DeleteOffer, EditOffer
<1>4. RequestStep \/ AwaitResources => UNCHANGED <<pool, cli>>
  BY DEF RequestStep, GetOffer, OrphanHandedOver, OrphanTombstoned, WriteTombstone,
         AnchorRecovery, SettleActive, AwaitResources
<1>5. IdentityStep \/ (\E c \in Chains : ForgetIdentity(c) \/ \E i \in Ids : ImportIdentity(c, i))
      \/ (\E i \in Ids : TransferToken(i))
      => UNCHANGED <<pool, cli>>
  BY DEF IdentityStep, EnsureIdentity, ListForIdentity, PublishForIdentity, ForgetIdentity,
         ImportIdentity, TransferToken
<1>6. MoveOrigin \/ RecreateCluster \/ ReconcileRecord \/ ReplayFails \/ MirrorRecord
      => UNCHANGED <<pool, cli>>
  BY DEF MoveOrigin, RecreateCluster, ReconcileRecord, ReplayFails, MirrorRecord
<1>7. UNCHANGED vars => UNCHANGED <<pool, cli>>
  BY DEF vars
<1> QED BY <1>1, <1>2, <1>3, <1>4, <1>5, <1>6, <1>7, CommandMintsOnce DEF Next

\* One obol sell register mints at most one agent, however often its submission
\* times out and is retried (registerDirectViaSigner pins the nonce).
THEOREM MintsAtMostOnce == Spec => []OneMintPerRun
<1>1. Init => MintsOnce
  BY DEF Init, MintsOnce, NoRun
<1>2. TypeOK /\ MintsOnce /\ [Next]_vars => MintsOnce'
  BY StepMintsOnce
<1>3. MintsOnce => OneMintPerRun
  BY DEF MintsOnce, OneMintPerRun
<1> QED BY <1>1, <1>2, <1>3, TypeCorrect, PTL DEF Spec

----------------------------------------------------------------------------
(***************************************************************************)
(* The host record.                                                        *)
(***************************************************************************)

\* regs has an agent wherever the host record has one.
Covers(regs) == \A c \in Chains : record[c] # None => regs[c] # None

\* A cluster that was recreated and not yet replayed: nothing but, perhaps, an
\* empty identity.
Blank ==
    /\ cli = Idle
    /\ identity.reg = NoRegs
    /\ \A o \in Offers : offer[o] = Absent /\ seen[o] = Absent /\ rr[o] = NoRR
    /\ news = {} /\ offerQ = {} /\ regQ = {}
    /\ offerJob = Idle /\ regJob = Idle

\* Until the replay the cluster is blank; after it the identity covers the host
\* record, and so does what a running command is about to write.
RecordCovered ==
    /\ replay = "pending" => Blank
    /\ replay = "done" /\ identity.exists => Covers(identity.reg)
    /\ replay = "done" /\ ~identity.exists => record = NoRegs
    /\ replay = "done" /\ cli # Idle => Covers(cli.regs)

\* The offer worker writes neither identity nor record, and has nothing to do
\* in a blank cluster.
LEMMA OffersLeaveRecord ==
  ASSUME TypeOK, RecordCovered, OfferStep \/ \E o \in Offers : OfferEvent(o)
  PROVE  RecordCovered' /\ UNCHANGED record
<1>1. UNCHANGED <<identity, record, replay, cli>>
  BY DEF OfferStep, OfferEvent, WriteOfferStatus, ReconcileOffer, OfferIsGone, HandOver,
         AskTombstone, FinishDelete
<1>2. offerQ # {} \/ news # {} \/ offerJob # Idle
  <2>1. WriteOfferStatus => offerJob # Idle
    BY DEF WriteOfferStatus, Idle
  <2>2. ASSUME NEW o \in Offers,
               ReconcileOffer(o) \/ OfferIsGone(o) \/ HandOver(o) \/ AskTombstone(o)
               \/ FinishDelete(o)
        PROVE  o \in offerQ
    BY <2>2 DEF ReconcileOffer, OfferIsGone, HandOver, AskTombstone, FinishDelete
  <2>3. ASSUME NEW o \in Offers, OfferEvent(o) PROVE o \in news
    BY <2>3 DEF OfferEvent
  <2> QED BY <2>1, <2>2, <2>3 DEF OfferStep
<1>3. ~Blank
  BY <1>2 DEF Blank
<1> QED BY <1>1, <1>3 DEF RecordCovered, Covers

\* The request worker only adds to the identity.
LEMMA RequestsLeaveRecord ==
  ASSUME TypeOK, RecordCovered,
         RequestStep \/ AwaitResources \/ \E o \in Offers : GetRequest(o)
  PROVE  RecordCovered' /\ UNCHANGED record
<1>1. UNCHANGED <<record, replay, cli>>
  BY DEF RequestStep, GetOffer, OrphanHandedOver, OrphanTombstoned, WriteTombstone,
         AnchorRecovery, SettleActive, AwaitResources, GetRequest
<1>2. ~Blank
  <2>1. regQ # {} \/ regJob # Idle
    <3>1. RequestStep \/ AwaitResources => regJob.pc \in {"got", "settle"}
      BY DEF RequestStep, GetOffer, OrphanHandedOver, OrphanTombstoned, WriteTombstone,
             AnchorRecovery, SettleActive, AwaitResources
    <3>2. ASSUME NEW o \in Offers, GetRequest(o) PROVE o \in regQ
      BY <3>2 DEF GetRequest
    <3> QED BY <3>1, <3>2 DEF Idle
  <2> QED BY <2>1 DEF Blank
<1>3. identity \in [exists: BOOLEAN, reg: Regs] /\ identity.reg \in Regs
  BY DEF TypeOK
<1>4. /\ identity'.exists = identity.exists
      /\ \A c \in Chains : identity.reg[c] # None => identity'.reg[c] # None
  <2>1. CASE UNCHANGED identity
    BY <2>1
  <2>2. CASE OrphanTombstoned
    <3> DEFINE req == regJob.req
               id == IF identity.reg[req.chain] # None THEN identity.reg[req.chain] ELSE req.agent
    <3>1. regJob \in RequestJob
      BY <2>2 DEF OrphanTombstoned, TypeOK, Idle
    <3>2. req.chain \in Chains /\ req.agent \in Ids \cup {None}
      BY <3>1 DEF RequestJob, Request
    <3>3. id \in Ids \cup {None}
      BY <1>3, <3>2 DEF Regs
    <3>4. identity' = [identity EXCEPT !.reg = Upsert(identity.reg, req.chain, id)]
      BY <2>2 DEF OrphanTombstoned
    <3> HIDE DEF req, id
    <3> QED BY <1>3, <3>2, <3>3, <3>4, UpsertTyped
  <2>3. CASE SettleActive
    <3>1. regJob \in RequestJob /\ regJob.pc = "settle"
      BY <2>3 DEF SettleActive, TypeOK, Idle
    <3>2. regJob.o \in Offers /\ regJob.req \in Request /\ regJob.ident \in Regs
          /\ regJob.req.chain \in Chains
      BY <3>1 DEF RequestJob, Request
    <3>3. RecoverRegistration(regJob.o, regJob.req) \subseteq Ids
      BY <3>2, RecoveredAreMinted
    <3>4. \/ UNCHANGED identity
          \/ \E id \in Ids : /\ identity.reg = regJob.ident
                             /\ identity' = [identity EXCEPT !.reg =
                                               Upsert(regJob.ident, regJob.req.chain, id)]
      <4>1. ASSUME NEW id, NEW tx, AdoptOnChain(regJob.o, regJob.req, regJob.ident, id, tx),
                   regJob.ident[regJob.req.chain] = None
            PROVE  \/ UNCHANGED identity
                   \/ /\ identity.reg = regJob.ident
                      /\ identity' = [identity EXCEPT !.reg =
                                        Upsert(regJob.ident, regJob.req.chain, id)]
        BY <4>1 DEF AdoptOnChain
      <4>2. ASSUME NEW id, NEW tx, AdoptOnChain(regJob.o, regJob.req, regJob.ident, id, tx),
                   regJob.ident[regJob.req.chain] # None
            PROVE  UNCHANGED identity
        BY <4>2 DEF AdoptOnChain
      <4> QED BY <2>3, <3>3, <4>1, <4>2 DEF SettleActive
    <3> QED BY <1>3, <3>2, <3>4, UpsertTyped
  <2>4. UNCHANGED identity \/ OrphanTombstoned \/ SettleActive
    BY DEF RequestStep, GetOffer, OrphanHandedOver, WriteTombstone, AnchorRecovery,
           AwaitResources, GetRequest
  <2> QED BY <2>1, <2>2, <2>3, <2>4
<1> QED BY <1>1, <1>2, <1>4 DEF RecordCovered, Covers

\* The running command keeps what it read, plus one agent.
LEMMA CommandLeavesRecord ==
  ASSUME TypeOK, RecordCovered, CliStep \/ Mine \/ PersistFails
  PROVE  /\ RecordCovered'
         /\ replay # "failed" => \A c \in Chains : record[c] # None => record'[c] # None
<1>1. UNCHANGED replay
  BY DEF CliStep, UpdateURI, RecoverBeforeMint, SubmitRegister, MintAnswered, RegisterFails,
         PersistIdentity, EnableOffers, Mine, PersistFails
<1>2. CASE Mine
  <2>1. cli = Idle => cli' = Idle
    BY <1>2 DEF Mine, Idle
  <2>2. cli # Idle => cli'.regs = cli.regs
    BY <1>2, CommandTyped DEF Mine, Command
  <2>3. Blank => Blank'
    BY <1>2, <2>1 DEF Mine, Blank
  <2> QED BY <1>1, <1>2, <2>1, <2>2, <2>3 DEF Mine, RecordCovered, Covers
<1>3. CASE PersistIdentity
  <2>1. cli \in Command /\ cli # Idle
    BY <1>3, CommandTyped DEF PersistIdentity, Idle
  <2>2. cli'.regs = cli.regs /\ identity'.reg = cli.regs /\ identity'.exists /\ record' = cli.regs
    BY <1>3, <2>1 DEF PersistIdentity, Command
  <2>3. ~Blank
    BY <2>1 DEF Blank
  <2>4. replay \in {"done", "pending", "failed"}
    BY DEF TypeOK
  <2> QED BY <1>1, <2>1, <2>2, <2>3, <2>4 DEF RecordCovered, Covers
<1>4. CASE ~Mine /\ ~PersistIdentity
  <2>1. cli # Idle /\ UNCHANGED <<identity, record>>
    BY <1>4 DEF CliStep, UpdateURI, RecoverBeforeMint, SubmitRegister, MintAnswered,
                RegisterFails, EnableOffers, PersistFails, Idle
  <2>2. cli \in Command
    BY <2>1, CommandTyped
  <2>3. ASSUME NEW id \in Ids, AdoptFound(id) PROVE Covers(cli.regs) => Covers(cli.regs)'
    <3>1. cli'.regs = Upsert(cli.regs, cli.chain, id)
      BY <2>2, <2>3 DEF AdoptFound, Command
    <3>2. \A d \in Chains : cli.regs[d] # None => cli'.regs[d] # None
      <4>1. cli.regs \in Regs /\ cli.chain \in Chains
        BY <2>2 DEF Command
      <4> QED BY <3>1, <4>1, UpsertTyped
    <3> QED BY <2>1, <3>2 DEF Covers
  <2>4. \/ cli' = Idle \/ cli'.regs = cli.regs
        \/ \E id \in Ids : AdoptFound(id)
    <3>1. FindByOwnerAndURI(cli.chain, cli.uri, 0) \subseteq Ids
          /\ FindByOwnerAndURI(cli.chain, cli.uri, cli.start) \subseteq Ids
      BY <2>1, CommandTyped, FoundAreMinted
    <3>2. CASE UpdateURI
      BY <2>2, <3>2 DEF UpdateURI, Command
    <3>3. CASE RecoverBeforeMint
      BY <2>2, <3>1, <3>3 DEF RecoverBeforeMint, Command
    <3>4. CASE SubmitRegister
      BY <2>2, <3>4 DEF SubmitRegister, Command
    <3>5. CASE MintAnswered
      BY <2>2, <3>5 DEF MintAnswered, Command
    <3>6. CASE RegisterFails
      BY <2>2, <3>1, <3>6 DEF RegisterFails, Command
    <3>7. CASE EnableOffers \/ PersistFails
      BY <3>7 DEF EnableOffers, PersistFails
    <3> QED BY <1>4, <3>2, <3>3, <3>4, <3>5, <3>6, <3>7 DEF CliStep
  <2>5. ~Blank
    BY <2>1 DEF Blank
  <2>6. Covers(cli.regs) => cli' = Idle \/ Covers(cli.regs)'
    BY <2>1, <2>3, <2>4 DEF Covers
  <2> QED BY <1>1, <2>1, <2>5, <2>6 DEF RecordCovered, Covers
<1> QED BY <1>2, <1>3, <1>4

\* The informers' identity worker, the other commands, the users and the replay.
LEMMA OthersKeepRecord ==
  ASSUME TypeOK, RecordCovered,
         \/ IdentityStep
         \/ \E o \in Offers : CreateOffer(o) \/ DeleteOffer(o) \/ EditOffer(o)
         \/ \E c \in Chains : StartRegister(c) \/ ForgetIdentity(c)
                              \/ \E i \in Ids : ImportIdentity(c, i)
         \/ \E i \in Ids : TransferToken(i)
         \/ MoveOrigin \/ RecreateCluster \/ ReconcileRecord \/ ReplayFails \/ MirrorRecord
  PROVE  /\ RecordCovered'
         /\ replay # "failed" => \A c \in Chains :
              record[c] # None => record'[c] # None \/ ForgetIdentity(c)
<1>0. identity \in [exists: BOOLEAN, reg: Regs] /\ identity.reg \in Regs /\ record \in Regs
      /\ replay \in {"done", "pending", "failed"}
  BY DEF TypeOK
<1>a. \A c \in Chains : NoRegs[c] = None
  BY DEF NoRegs
<1>1. CASE IdentityStep
  <2>1. UNCHANGED <<record, replay, cli>>
    BY <1>1 DEF IdentityStep, EnsureIdentity, ListForIdentity, PublishForIdentity
  <2>2. CASE EnsureIdentity
    <3>1. ~identity.exists /\ identity'.reg = SeedByController /\ identity'.exists
      BY <2>2 DEF EnsureIdentity
    <3>2. Blank => Blank'
      <4>1. ASSUME Blank PROVE SeedByController = NoRegs
        <5>1. \A c \in Chains : WithAgent(seen, RegistrationOffers, c) = {}
          BY <4>1 DEF Blank, WithAgent, RegistrationOffers, Absent
        <5> QED BY <5>1 DEF SeedByController, NoRegs
      <4> QED BY <2>2, <3>1, <4>1 DEF Blank, EnsureIdentity
    <3> QED BY <1>a, <2>1, <3>1, <3>2 DEF RecordCovered, Covers
  <2>3. CASE ListForIdentity \/ PublishForIdentity
    <3>1. UNCHANGED identity /\ (Blank => Blank')
      BY <2>3 DEF ListForIdentity, PublishForIdentity, Blank
    <3> QED BY <2>1, <3>1 DEF RecordCovered, Covers
  <2> QED BY <1>1, <2>2, <2>3 DEF IdentityStep
<1>2. ASSUME NEW o \in Offers, CreateOffer(o) \/ DeleteOffer(o) \/ EditOffer(o)
      PROVE  RecordCovered' /\ UNCHANGED record
  <2>1. UNCHANGED <<identity, record, replay, cli>> /\ (replay # "pending" \/ offer[o].phase = "live")
    BY <1>2 DEF CreateOffer, DeleteOffer, EditOffer
  <2>2. replay # "pending"
    BY <2>1 DEF RecordCovered, Blank, Absent
  <2> QED BY <2>1, <2>2 DEF RecordCovered, Covers
<1>3. ASSUME NEW c \in Chains, StartRegister(c)
      PROVE  /\ RecordCovered'
             /\ replay # "failed" => \A d \in Chains : record[d] # None => record'[d] # None
  <2> DEFINE regs == IF identity.exists THEN identity.reg ELSE SeedByCLI
  <2>1. cli'.regs = regs /\ identity' = [exists |-> TRUE, reg |-> regs]
        /\ record' = (IF identity.exists THEN record ELSE regs)
        /\ UNCHANGED replay /\ replay # "pending"
    BY <1>3 DEF StartRegister
  <2>2. CASE identity.exists
    BY <2>1, <2>2 DEF RecordCovered, Covers
  <2>3. CASE ~identity.exists
    <3>1. identity'.reg = regs /\ record' = regs /\ cli'.regs = regs /\ identity'.exists
      BY <2>1, <2>3
    <3>2. replay = "done" => record = NoRegs
      BY <2>3 DEF RecordCovered
    <3> HIDE DEF regs
    <3> QED BY <1>0, <1>a, <2>1, <3>1, <3>2 DEF RecordCovered, Covers
  <2> QED BY <2>2, <2>3
<1>4. ASSUME NEW c \in Chains, ForgetIdentity(c)
      PROVE  /\ RecordCovered'
             /\ replay # "failed" => \A d \in Chains :
                  record[d] # None => record'[d] # None \/ ForgetIdentity(d)
  <2>1. /\ UNCHANGED <<replay, cli>> /\ cli = Idle /\ replay # "pending" /\ identity.exists
        /\ identity' = [identity EXCEPT !.reg[c] = None] /\ record' = identity'.reg
    BY <1>4 DEF ForgetIdentity
  <2>2. identity'.exists /\ identity'.reg = [identity.reg EXCEPT ![c] = None]
    BY <1>0, <2>1
  <2>3. \A d \in Chains : d # c => identity'.reg[d] = identity.reg[d]
    BY <1>0, <2>2 DEF Regs
  <2> QED BY <1>0, <1>4, <2>1, <2>2, <2>3 DEF RecordCovered, Covers
<1>5. ASSUME NEW c \in Chains, NEW i \in Ids, ImportIdentity(c, i)
      PROVE  /\ RecordCovered'
             /\ replay # "failed" => \A d \in Chains : record[d] # None => record'[d] # None
  <2> DEFINE regs == IF identity.exists THEN identity.reg ELSE NoRegs
  <2>1. /\ UNCHANGED <<replay, cli>> /\ cli = Idle /\ replay # "pending"
        /\ identity' = [exists |-> TRUE, reg |-> Upsert(regs, c, i)] /\ record' = Upsert(regs, c, i)
    BY <1>5 DEF ImportIdentity
  <2>2. regs \in Regs
    BY <1>0 DEF NoRegs, Regs
  <2>3. \A d \in Chains : regs[d] # None => Upsert(regs, c, i)[d] # None
    BY <2>2, UpsertTyped
  <2>4. replay = "done" => \A d \in Chains : record[d] # None => regs[d] # None
    BY <1>a DEF RecordCovered, Covers
  <2> HIDE DEF regs
  <2> QED BY <1>0, <2>1, <2>3, <2>4 DEF RecordCovered, Covers
<1>6. ASSUME NEW i \in Ids, TransferToken(i) PROVE RecordCovered' /\ UNCHANGED record
  BY <1>6 DEF TransferToken, RecordCovered, Covers, Blank
<1>7. CASE MoveOrigin
  <2>1. UNCHANGED <<identity, record, replay, cli>>
    BY <1>7 DEF MoveOrigin
  <2>2. Blank => Blank'
    <3>1. ASSUME Blank PROVE offerQ' = {} /\ regQ' = {}
      BY <1>7, <3>1 DEF MoveOrigin, Blank, Absent
    <3> QED BY <1>7, <3>1 DEF MoveOrigin, Blank
  <2> QED BY <2>1, <2>2 DEF RecordCovered, Covers
<1>8. CASE RecreateCluster
  <2>1. Blank'
    BY <1>8 DEF RecreateCluster, Blank, NoIdentity
  <2> QED BY <1>8, <2>1 DEF RecreateCluster, RecordCovered
<1>9. CASE ReconcileRecord
  <2>1. identity.reg = NoRegs /\ cli = Idle
    BY <1>9 DEF ReconcileRecord, RecordCovered, Blank
  <2>2. identity' = [exists |-> TRUE, reg |-> record] /\ UNCHANGED <<record, cli>> /\ replay' = "done"
    BY <1>9, <2>1 DEF ReconcileRecord
  <2> QED BY <2>1, <2>2 DEF RecordCovered, Covers
<1>10. CASE ReplayFails
  BY <1>10 DEF ReplayFails, RecordCovered
<1>11. CASE MirrorRecord
  <2>1. UNCHANGED <<identity, replay, cli>> /\ cli = Idle /\ replay # "pending" /\ identity.exists
        /\ record' = identity.reg
    BY <1>11 DEF MirrorRecord
  <2> QED BY <1>0, <2>1 DEF RecordCovered, Covers
<1> QED BY <1>1, <1>2, <1>3, <1>4, <1>5, <1>6, <1>7, <1>8, <1>9, <1>10, <1>11
        DEF IdentityStep, EnsureIdentity, ListForIdentity, PublishForIdentity, ReplayFails,
            RecreateCluster, ReconcileRecord, MoveOrigin

\* Every step keeps the record covered, and takes from it only what is forgotten.
LEMMA StepKeepsRecord ==
  ASSUME TypeOK, RecordCovered, [Next]_vars
  PROVE  /\ RecordCovered'
         /\ replay # "failed" => \A c \in Chains :
              record[c] # None => record'[c] # None \/ ForgetIdentity(c)
<1>1. CASE UNCHANGED vars
  BY <1>1 DEF vars, RecordCovered, Covers, Blank
<1> QED BY <1>1, OffersLeaveRecord, RequestsLeaveRecord, CommandLeavesRecord, OthersKeepRecord
        DEF Next

\* As long as every recreated cluster was replayed the host record loses an agent
\* to identity forget alone, whatever the controller, the other commands and lost
\* clusters do (agentidentity: the single source of truth across recreation).
THEOREM RecordHolds == Spec => RecordSurvives
<1>1. Init => RecordCovered
  BY DEF Init, RecordCovered, Idle, NoIdentity
<1>2. TypeOK /\ RecordCovered /\ [Next]_vars => RecordCovered'
  BY StepKeepsRecord
<1>3. TypeOK /\ RecordCovered /\ [Next]_vars
      => [replay # "failed" =>
            \A c \in Chains : record[c] # None /\ record'[c] = None => ForgetIdentity(c)]_vars
  BY StepKeepsRecord
<1> QED BY <1>1, <1>2, <1>3, TypeCorrect, PTL DEF Spec, RecordSurvives

----------------------------------------------------------------------------
(***************************************************************************)
(* The settled document.                                                   *)
(***************************************************************************)

\* The informer has delivered what is not under way.
Delivered == \A o \in Offers \ news : seen[o] = offer[o]

\* Only an offer that is being deleted asks for a tombstone, and its next
\* reconcile is queued or about to be.
Tombstone(req) == req # NoRR /\ req.desired = "Tombstoned"
TombstonesLeave == \A o \in Offers : Tombstone(rr[o]) => offer[o].phase = "deleting"
DeletionsQueued == \A o \in Offers : offer[o].phase = "deleting" => o \in news \cup offerQ

\* A published offer that nobody has anything left to do for.
Settled(o) ==
    /\ PublishedForRegistration(offer[o])
    /\ o \notin news \cup offerQ \cup unowned
    /\ offerJob = Idle \/ offerJob.o # o

\* A request that exists is queued, so its pass will publish.
Owed == \E r \in regQ : rr[r] # NoRR

\* The request worker is about to publish a document without the offer.
StalePass(o) ==
    \/ regJob.pc = "settle" /\ o \notin regJob.doc.services
    \/ regJob.pc = "got" /\ regJob.req.desired = "Tombstoned"

\* A settled offer is in the document or a publication that has it follows, and
\* one that follows every publication under way that does not.
Advertised(o) ==
    /\ idJob # Idle => idQ \/ o \in idJob.doc.services
    /\ StalePass(o) => Owed
    /\ o \in doc.services \/ idQ \/ idJob # Idle \/ Owed \/ regJob # Idle

\* A tombstone that is asked for publishes an empty document, and everything is
\* enqueued again when its request goes.
SettledAdvertised ==
    (\A o \in Offers : ~Tombstone(rr[o])) => \A o \in Offers : Settled(o) => Advertised(o)

AdvertisedInv == Delivered /\ TombstonesLeave /\ DeletionsQueued /\ SettledAdvertised

\* The steps that neither touch the offers and requests nor take from a queue.
Bystander ==
    \/ EnsureIdentity \/ UpdateURI \/ RecoverBeforeMint \/ SubmitRegister \/ MintAnswered
    \/ RegisterFails \/ PersistIdentity
    \/ \E c \in Chains : StartRegister(c) \/ ForgetIdentity(c) \/ \E i \in Ids : ImportIdentity(c, i)
    \/ \E i \in Ids : TransferToken(i)
    \/ Mine \/ PersistFails \/ MoveOrigin \/ ReconcileRecord \/ ReplayFails \/ MirrorRecord

\* They only add to the queues.
LEMMA BystandersAdd ==
  ASSUME TypeOK, Bystander
  PROVE  /\ UNCHANGED <<offer, seen, news, rr, doc, offerJob, regJob, idJob, unowned>>
         /\ offerQ \subseteq offerQ' /\ regQ \subseteq regQ' /\ (idQ => idQ')
<1>1. CASE EnsureIdentity \/ UpdateURI \/ RecoverBeforeMint \/ SubmitRegister \/ MintAnswered
           \/ RegisterFails \/ PersistIdentity
  BY <1>1 DEF EnsureIdentity, UpdateURI, RecoverBeforeMint, SubmitRegister, MintAnswered,
              RegisterFails, PersistIdentity, TypeOK
<1>2. ASSUME NEW c \in Chains, StartRegister(c) \/ ForgetIdentity(c)
                               \/ \E i \in Ids : ImportIdentity(c, i)
      PROVE  /\ UNCHANGED <<offer, seen, news, rr, doc, offerJob, regJob, idJob, unowned>>
             /\ offerQ \subseteq offerQ' /\ regQ \subseteq regQ' /\ (idQ => idQ')
  BY <1>2 DEF StartRegister, ForgetIdentity, ImportIdentity, TypeOK
<1>3. ASSUME NEW i \in Ids, TransferToken(i)
      PROVE  /\ UNCHANGED <<offer, seen, news, rr, doc, offerJob, regJob, idJob, unowned>>
             /\ offerQ \subseteq offerQ' /\ regQ \subseteq regQ' /\ (idQ => idQ')
  BY <1>3 DEF TransferToken
<1>4. CASE Mine \/ PersistFails \/ MoveOrigin \/ ReconcileRecord \/ ReplayFails \/ MirrorRecord
  BY <1>4 DEF Mine, PersistFails, MoveOrigin, ReconcileRecord, ReplayFails, MirrorRecord, TypeOK
<1> QED BY <1>1, <1>2, <1>3, <1>4 DEF Bystander

\* Whoever changes a request enqueues the enabled offers, and asks for no
\* tombstone unless it was asked for.
QueuesGrow == offerQ \subseteq offerQ' /\ regQ \subseteq regQ' /\ (idQ => idQ')
Announced ==
    /\ rr' # rr => RegistrationOffers \subseteq offerQ'
    /\ \A o \in Offers : Tombstone(rr'[o]) => Tombstone(rr[o])

LEMMA WritesAnnounce ==
  ASSUME TypeOK, NEW o \in Offers, NEW req \in Request, NEW new \in Request,
         new.desired = req.desired, WriteRequest(o, req, new)
  PROVE  QueuesGrow /\ Announced
<1>0. rr \in [Offers -> Request \cup {NoRR}] /\ idQ \in BOOLEAN
  BY DEF TypeOK
<1>1. CASE rr' = rr
  BY <1>0, <1>1 DEF WriteRequest, QueuesGrow, Announced, Requeue, RequestChanged
<1>2. CASE rr' # rr
  <2>1. rr[o] = req /\ rr' = [rr EXCEPT ![o] = new] /\ new # req
    BY <1>0, <1>2 DEF WriteRequest
  <2>2. RequestChanged(o)
    BY <2>1 DEF WriteRequest
  <2>3. req # NoRR
    <3>1. req.desired # "none"
      BY DEF Request
    <3> QED BY <3>1 DEF NoRR
  <2> QED BY <1>0, <2>1, <2>2, <2>3 DEF RequestChanged, QueuesGrow, Announced, Tombstone
<1> QED BY <1>1, <1>2

LEMMA AdoptionsAnnounce ==
  ASSUME TypeOK, NEW o \in Offers, NEW req \in Request, NEW ident, NEW id, NEW tx,
         AdoptOnChain(o, req, ident, id, tx)
  PROVE  QueuesGrow /\ Announced
<1> DEFINE new == [req EXCEPT !.phase = "Registered", !.agent = id, !.tx = tx,
                              !.uri = IF req.uri = "" THEN regJob.url ELSE req.uri]
<1>0. rr \in [Offers -> Request \cup {NoRR}] /\ idQ \in BOOLEAN
  BY DEF TypeOK
<1>1. new.desired = req.desired /\ req # NoRR
  <2>1. req.desired # "none" /\ new.desired = req.desired
    BY DEF Request
  <2> QED BY <2>1 DEF NoRR
<1>2. /\ QueuesGrow
      /\ rr' = rr \/ (rr[o] = req /\ rr' = [rr EXCEPT ![o] = new])
      /\ offerQ' = offerQ \/ offerQ' = offerQ \cup RegistrationOffers
      /\ rr' # rr => offerQ' = offerQ \cup RegistrationOffers
  <2>1. CASE UNCHANGED rr
    BY <1>0, <2>1 DEF AdoptOnChain, Requeue, QueuesGrow
  <2>2. CASE rr' # rr
    BY <1>0, <2>2 DEF AdoptOnChain, Requeue, QueuesGrow
  <2> QED BY <2>1, <2>2
<1> HIDE DEF new
<1> QED BY <1>0, <1>1, <1>2 DEF Announced, Tombstone

\* The passes of the request worker that publish.
Pass == WriteTombstone \/ AwaitResources \/ AnchorRecovery \/ SettleActive
LEMMA PassPublishes ==
  ASSUME TypeOK, Pass
  PROVE  /\ regJob.pc = "settle" /\ doc' = regJob.doc /\ regJob' = Idle
         /\ UNCHANGED <<offer, seen, news, offerJob, idJob, unowned>>
         /\ QueuesGrow /\ Announced
<1>1. /\ regJob.pc = "settle" /\ doc' = regJob.doc /\ regJob' = Idle
      /\ UNCHANGED <<offer, seen, news, offerJob, idJob, unowned>>
  BY DEF Pass, WriteTombstone, AwaitResources, AnchorRecovery, SettleActive, PublishDocument
<1>2. regJob.o \in Offers /\ regJob.req \in Request /\ regJob.url \in URLs /\ regJob.ident \in Regs
  BY <1>1 DEF TypeOK, Idle, RequestJob
<1>3. CASE WriteTombstone
  <2> DEFINE new == [regJob.req EXCEPT !.phase = "OffChainOnly",
                                       !.agent = regJob.ident[regJob.req.chain]]
  <2>1. regJob.ident[regJob.req.chain] \in Ids \cup {None}
    BY <1>2 DEF Regs, Request
  <2>2. new \in Request /\ new.desired = regJob.req.desired
    BY <1>2, <2>1 DEF Request
  <2>3. WriteRequest(regJob.o, regJob.req, new)
    BY <1>3 DEF WriteTombstone
  <2> QED BY <1>1, <1>2, <2>2, <2>3, WritesAnnounce
<1>4. CASE AwaitResources
  <2>1. ASSUME NEW phase \in {"Publishing", "AwaitingExternal"},
               WriteRequest(regJob.o, regJob.req, [regJob.req EXCEPT !.phase = phase])
        PROVE  QueuesGrow /\ Announced
    <3>1. /\ [regJob.req EXCEPT !.phase = phase] \in Request
          /\ [regJob.req EXCEPT !.phase = phase].desired = regJob.req.desired
      BY <1>2 DEF Request
    <3> QED BY <1>2, <2>1, <3>1, WritesAnnounce
  <2> QED BY <1>1, <1>4, <2>1 DEF AwaitResources
<1>5. CASE AnchorRecovery
  <2> DEFINE new(from) == [regJob.req EXCEPT !.phase = "AwaitingExternal", !.uri = regJob.url,
                                             !.from = from, !.tx = None]
  <2>1. Len(tokens) \in Nat /\ Len(pool) \in Nat /\ Len(tokens) <= MaxTokens
    BY RegistrationAssumption DEF TypeOK
  <2>2. ASSUME NEW from \in 0..Len(tokens), WriteRequest(regJob.o, regJob.req, new(from))
        PROVE  QueuesGrow /\ Announced
    <3>1. from \in 0..MaxTokens
      BY <2>1, RegistrationAssumption
    <3>2. new(from) \in Request /\ new(from).desired = regJob.req.desired
      BY <1>2, <3>1 DEF Request
    <3> QED BY <1>2, <2>2, <3>2, WritesAnnounce
  <2> QED BY <1>1, <1>5, <2>2 DEF AnchorRecovery
<1>6. CASE SettleActive
  <2>1. /\ [regJob.req EXCEPT !.phase = "AwaitingExternal"] \in Request
        /\ [regJob.req EXCEPT !.phase = "AwaitingExternal"].desired = regJob.req.desired
    BY <1>2 DEF Request
  <2>2. \/ \E id, tx : AdoptOnChain(regJob.o, regJob.req, regJob.ident, id, tx)
        \/ WriteRequest(regJob.o, regJob.req, [regJob.req EXCEPT !.phase = "AwaitingExternal"])
    BY <1>6 DEF SettleActive
  <2> QED BY <1>1, <1>2, <2>1, <2>2, WritesAnnounce, AdoptionsAnnounce
<1> QED BY <1>1, <1>3, <1>4, <1>5, <1>6 DEF Pass

\* A status that is written keeps the phase it was computed from.
WorkerKeepsPhase == offerJob # Idle => offerJob.new.phase = offerJob.read.phase

\* An offer's change is announced, its event leads to a reconcile, and a queued
\* offer stays queued until it is reconciled or gone.  Deletions are not undone.
OfferMoves(o) ==
    /\ offer'[o] # offer[o] => o \in news'
    /\ o \notin news' => seen'[o] = offer'[o]
    /\ o \in news => o \in news' \cup offerQ'
    /\ o \in offerQ => \/ o \in offerQ'
                       \/ offer'[o].phase = "absent"
                       \/ /\ offer[o].phase = "live" /\ offer'[o] = offer[o]
                          /\ offerJob' # Idle /\ offerJob'.o = o
    /\ offer[o].phase = "deleting" => offer'[o].phase \in {"deleting", "absent"}

LEMMA OffersMove ==
  ASSUME TypeOK, WorkerKeepsPhase, Delivered, Next, ~RecreateCluster, NEW o \in Offers
  PROVE  OfferMoves(o)
<1>0. /\ offer \in [Offers -> Offer] /\ seen \in [Offers -> Offer]
      /\ (o \notin news => seen[o] = offer[o])
  BY DEF TypeOK, Delivered
<1>a. ASSUME UNCHANGED <<offer, seen, news>>, offerQ \subseteq offerQ' PROVE OfferMoves(o)
  BY <1>0, <1>a DEF OfferMoves
<1>1. ASSUME NEW q \in Offers, OfferEvent(q) PROVE OfferMoves(o)
  BY <1>0, <1>1 DEF OfferEvent, OfferMoves
<1>2. CASE WriteOfferStatus
  <2>1. offerJob.o \in Offers /\ offerJob.new.phase = offerJob.read.phase
    BY <1>2 DEF TypeOK, OfferJob, WriteOfferStatus, Idle, WorkerKeepsPhase
  <2>2. offerQ \subseteq offerQ' /\ seen' = seen
    BY <1>2 DEF WriteOfferStatus
  <2>3. CASE UNCHANGED <<offer, news>>
    BY <1>a, <2>2, <2>3
  <2>4. CASE offer[offerJob.o] = offerJob.read /\ offer' = [offer EXCEPT ![offerJob.o] = offerJob.new]
             /\ (IF offerJob.new # offer[offerJob.o] THEN news' = news \cup {offerJob.o}
                 ELSE news' = news)
    <3>1. CASE o = offerJob.o
      <4>1. offer'[o] = offerJob.new /\ offer'[o].phase = offer[o].phase
        BY <1>0, <2>1, <2>4, <3>1
      <4> QED BY <1>0, <2>2, <2>4, <3>1, <4>1 DEF OfferMoves
    <3>2. CASE o # offerJob.o
      <4>1. offer'[o] = offer[o]
        BY <1>0, <2>4, <3>2
      <4> QED BY <1>0, <2>2, <2>4, <3>2, <4>1 DEF OfferMoves
    <3> QED BY <3>1, <3>2
  <2> QED BY <1>2, <2>3, <2>4 DEF WriteOfferStatus, Changed
<1>3. ASSUME NEW q \in Offers, ReconcileOffer(q) PROVE OfferMoves(o)
  <2>1. offerJob' # Idle /\ offerJob'.o = q
    BY <1>3 DEF ReconcileOffer, RegistrationStatus, Idle
  <2>2. UNCHANGED <<offer, seen, news>> /\ offer[q].phase = "live" /\ offerQ \ {q} \subseteq offerQ'
    BY <1>3 DEF ReconcileOffer
  <2> QED BY <1>0, <2>1, <2>2 DEF OfferMoves
<1>4. ASSUME NEW q \in Offers, OfferIsGone(q) PROVE OfferMoves(o)
  BY <1>0, <1>4 DEF OfferIsGone, OfferMoves
<1>5. ASSUME NEW q \in Offers, HandOver(q) \/ FinishDelete(q) PROVE OfferMoves(o)
  <2>1. /\ offer' = [offer EXCEPT ![q] = Absent] /\ news' = news \cup {q} /\ seen' = seen
        /\ offerQ \ {q} \subseteq offerQ' /\ offer[q].phase = "deleting"
    BY <1>5 DEF HandOver, FinishDelete, Changed
  <2> QED BY <1>0, <2>1 DEF OfferMoves, Absent
<1>6. ASSUME NEW q \in Offers, AskTombstone(q) PROVE OfferMoves(o)
  BY <1>a, <1>6 DEF AskTombstone
<1>7. ASSUME NEW q \in Offers, GetRequest(q) PROVE OfferMoves(o)
  BY <1>a, <1>7 DEF GetRequest
<1>8. CASE GetOffer \/ OrphanHandedOver \/ OrphanTombstoned
  BY <1>a, <1>8 DEF GetOffer, OrphanHandedOver, OrphanTombstoned
<1>9. CASE Pass
  BY <1>a, <1>9, PassPublishes DEF QueuesGrow
<1>10. CASE Bystander
  BY <1>a, <1>10, BystandersAdd
<1>11. CASE ListForIdentity \/ PublishForIdentity
  BY <1>a, <1>11 DEF ListForIdentity, PublishForIdentity
<1>12. CASE EnableOffers
  <2>1. ASSUME offer'[o] # offer[o]
        PROVE  o \in news' /\ offer[o].phase = "live"
    BY <1>12, <2>1 DEF EnableOffers
  <2>2. seen' = seen /\ news \subseteq news' /\ offerQ' = offerQ
    BY <1>12 DEF EnableOffers
  <2> QED BY <1>0, <2>1, <2>2 DEF OfferMoves
<1>13. ASSUME NEW q \in Offers, CreateOffer(q) \/ DeleteOffer(q) \/ EditOffer(q)
       PROVE  OfferMoves(o)
  <2>1. \E new : /\ offer' = [offer EXCEPT ![q] = new]
                 /\ offer[q].phase # "deleting"
                 /\ news' = news \cup {q} /\ seen' = seen /\ offerQ' = offerQ
    <3>1. offer[q].phase = "absent" \/ offer[q].phase = "live"
      BY <1>13 DEF CreateOffer, DeleteOffer, EditOffer
    <3>2. CASE CreateOffer(q)
      BY <3>1, <3>2 DEF CreateOffer, Changed
    <3>3. CASE DeleteOffer(q)
      BY <3>1, <3>3 DEF DeleteOffer, Changed
    <3>4. CASE EditOffer(q)
      BY <3>1, <3>4 DEF EditOffer, Changed
    <3> QED BY <1>13, <3>2, <3>3, <3>4
  <2> QED BY <1>0, <2>1 DEF OfferMoves
<1> QED
  <2>1. CASE OfferStep
    BY <2>1, <1>2, <1>3, <1>4, <1>5, <1>6 DEF OfferStep
  <2>2. CASE RequestStep \/ AwaitResources
    BY <2>2, <1>8, <1>9 DEF RequestStep, Pass
  <2>3. CASE IdentityStep \/ CliStep
    BY <2>3, <1>10, <1>11, <1>12 DEF IdentityStep, CliStep, Bystander
  <2> QED BY <2>1, <2>2, <2>3, <1>1, <1>7, <1>10, <1>13 DEF Next, Bystander

\* A request changes under an informer that stands still, everything it enqueues
\* is enqueued in that step, and only a deletion asks for a tombstone.
LEMMA RequestsMove ==
  ASSUME TypeOK, Next, ~RecreateCluster
  PROVE  /\ rr' # rr => RegistrationOffers \subseteq offerQ' /\ seen' = seen
         /\ \A o \in Offers :
              Tombstone(rr'[o]) => Tombstone(rr[o]) \/ offer'[o].phase = "deleting"
<1> DEFINE Goal == /\ rr' # rr => RegistrationOffers \subseteq offerQ' /\ seen' = seen
                   /\ \A o \in Offers :
                        Tombstone(rr'[o]) => Tombstone(rr[o]) \/ offer'[o].phase = "deleting"
<1> SUFFICES Goal
  OBVIOUS
<1>0. rr \in [Offers -> Request \cup {NoRR}]
  BY DEF TypeOK
<1>a. rr' = rr => Goal
  OBVIOUS
<1>b. ASSUME NEW q \in Offers, NEW r, rr' = [rr EXCEPT ![q] = r],
             Tombstone(r) => offer'[q].phase = "deleting",
             EventsOfRequest(q) \subseteq offerQ', seen' = seen
      PROVE  Goal
  <2>1. rr' # rr => rr'[q] # rr[q]
    BY <1>0, <1>b
  <2>2. rr' # rr => RegistrationOffers \subseteq offerQ'
    BY <1>b, <2>1 DEF EventsOfRequest
  <2>3. \A o \in Offers : rr'[o] = rr[o] \/ (o = q /\ rr'[o] = r)
    BY <1>0, <1>b
  <2> QED BY <1>b, <2>2, <2>3
<1>c. ~Tombstone(NoRR)
  BY DEF Tombstone
<1>1. ASSUME NEW q \in Offers, ReconcileOffer(q) PROVE Goal
  <2>1. /\ \/ rr' = rr
           \/ rr' = [rr EXCEPT ![q] = NoRR]
           \/ \E c : rr' = [rr EXCEPT ![q] = BuildRequest(q, "Active", c)]
        /\ EventsOfRequest(q) \subseteq offerQ' /\ seen' = seen
    BY <1>1 DEF ReconcileOffer, RegistrationStatus
  <2>2. ASSUME NEW c PROVE ~Tombstone(BuildRequest(q, "Active", c))
    <3>1. BuildRequest(q, "Active", c).desired = "Active"
      BY <1>0 DEF BuildRequest, Request
    <3> QED BY <3>1 DEF Tombstone
  <2> HIDE DEF Goal
  <2> QED BY <1>a, <1>b, <1>c, <2>1, <2>2
<1>2. ASSUME NEW q \in Offers, HandOver(q) \/ FinishDelete(q) PROVE Goal
  <2>1. rr' = [rr EXCEPT ![q] = NoRR] /\ EventsOfRequest(q) \subseteq offerQ' /\ seen' = seen
    BY <1>2 DEF HandOver, FinishDelete
  <2> HIDE DEF Goal
  <2> QED BY <1>b, <1>c, <2>1
<1>3. ASSUME NEW q \in Offers, AskTombstone(q) PROVE Goal
  <2>1. /\ rr' = [rr EXCEPT ![q] = BuildRequest(q, "Tombstoned", offer[q].net)]
        /\ EventsOfRequest(q) \subseteq offerQ' /\ seen' = seen /\ offer'[q].phase = "deleting"
    BY <1>3 DEF AskTombstone
  <2> HIDE DEF Goal
  <2> QED BY <1>b, <2>1
<1>4. CASE OrphanHandedOver
  <2>1. regJob.o \in Offers
    BY <1>4 DEF TypeOK, OrphanHandedOver, Idle, RequestJob
  <2>2. /\ rr' = [rr EXCEPT ![regJob.o] = NoRR] /\ seen' = seen
        /\ EventsOfRequest(regJob.o) \subseteq offerQ'
    BY <1>4 DEF OrphanHandedOver
  <2>3. rr' # rr => rr'[regJob.o] # rr[regJob.o]
    BY <1>0, <2>1, <2>2
  <2>4. rr' # rr => RegistrationOffers \subseteq offerQ'
    BY <2>2, <2>3 DEF EventsOfRequest
  <2>5. \A o \in Offers : rr'[o] = rr[o] \/ rr'[o] = NoRR
    BY <1>0, <2>2
  <2> QED BY <1>c, <2>2, <2>4, <2>5
<1>5. CASE Pass
  BY <1>5, PassPublishes DEF Announced
<1>6. CASE Bystander
  BY <1>6, BystandersAdd
<1>7. ASSUME NEW q \in Offers, GetRequest(q) \/ OfferEvent(q) \/ OfferIsGone(q) \/ CreateOffer(q)
                               \/ DeleteOffer(q) \/ EditOffer(q)
      PROVE  rr' = rr
  BY <1>7 DEF GetRequest, OfferEvent, OfferIsGone, CreateOffer, DeleteOffer, EditOffer
<1>8. ASSUME WriteOfferStatus \/ GetOffer \/ OrphanTombstoned \/ ListForIdentity
             \/ PublishForIdentity \/ EnableOffers
      PROVE  rr' = rr
  BY <1>8 DEF WriteOfferStatus, GetOffer, OrphanTombstoned, ListForIdentity,
              PublishForIdentity, EnableOffers
<1> QED
  <2> HIDE DEF Goal
  <2>0. ASSUME NEW q \in Offers,
               \/ ReconcileOffer(q) \/ OfferIsGone(q) \/ HandOver(q) \/ AskTombstone(q)
               \/ FinishDelete(q)
               \/ OfferEvent(q) \/ GetRequest(q) \/ CreateOffer(q) \/ DeleteOffer(q) \/ EditOffer(q)
        PROVE  Goal
    <3>1. CASE ReconcileOffer(q)
      BY <1>1, <3>1
    <3>2. CASE HandOver(q) \/ FinishDelete(q)
      BY <1>2, <3>2
    <3>3. CASE AskTombstone(q)
      BY <1>3, <3>3
    <3>4. CASE \/ GetRequest(q) \/ OfferEvent(q) \/ OfferIsGone(q) \/ CreateOffer(q)
               \/ DeleteOffer(q) \/ EditOffer(q)
      BY <1>a, <1>7, <3>4
    <3> QED BY <2>0, <3>1, <3>2, <3>3, <3>4
  <2>1. CASE OfferStep
    BY <2>0, <2>1, <1>a, <1>8 DEF OfferStep
  <2>2. CASE RequestStep \/ AwaitResources
    BY <2>2, <1>a, <1>4, <1>5, <1>8 DEF RequestStep, Pass
  <2>3. CASE IdentityStep \/ CliStep
    BY <2>3, <1>a, <1>6, <1>8 DEF IdentityStep, CliStep, Bystander
  <2> QED BY <2>0, <2>1, <2>2, <2>3, <1>6 DEF Next, Bystander

\* The settled offers of a request that changes are settled no more.
LEMMA ChangeUnsettles ==
  ASSUME TypeOK, WorkerKeepsPhase, Delivered, Next, ~RecreateCluster, NEW o \in Offers,
         Settled(o)'
  PROVE  rr' = rr
<1>1. o \notin news' /\ o \notin offerQ' /\ PublishedForRegistration(offer'[o])
  BY DEF Settled
<1>2. seen'[o] = offer'[o]
  BY <1>1, OffersMove DEF OfferMoves
<1>3. seen' = seen => o \in RegistrationOffers
  BY <1>1, <1>2 DEF RegistrationOffers, PublishedForRegistration
<1> QED BY <1>1, <1>3, RequestsMove

\* Who takes from a queue or publishes; everybody else only enqueues.  And only
\* a status write ends the offer worker's reconcile.
LEMMA StepKinds ==
  ASSUME TypeOK, Next, ~RecreateCluster
  PROVE  /\ \/ UNCHANGED <<doc, regJob, idJob>> /\ regQ \subseteq regQ' /\ (idQ => idQ')
            \/ \E q \in Offers : GetRequest(q)
            \/ GetOffer \/ OrphanHandedOver \/ OrphanTombstoned \/ Pass
            \/ ListForIdentity \/ PublishForIdentity
         /\ WriteOfferStatus \/ (unowned' = unowned /\ (offerJob # Idle => offerJob' = offerJob))
<1> DEFINE Grows == UNCHANGED <<doc, regJob, idJob>> /\ regQ \subseteq regQ' /\ (idQ => idQ')
           Works == unowned' = unowned /\ (offerJob # Idle => offerJob' = offerJob)
<1>0. idQ \in BOOLEAN
  BY DEF TypeOK
<1>1. ASSUME NEW q \in Offers,
             \/ ReconcileOffer(q) \/ OfferIsGone(q) \/ HandOver(q) \/ AskTombstone(q)
             \/ FinishDelete(q)
      PROVE  Grows /\ Works
  <2>1. CASE ReconcileOffer(q)
    BY <1>0, <2>1 DEF ReconcileOffer
  <2>2. CASE OfferIsGone(q) \/ HandOver(q)
    BY <1>0, <2>2 DEF OfferIsGone, HandOver
  <2>3. CASE AskTombstone(q)
    BY <1>0, <2>3 DEF AskTombstone
  <2>4. CASE FinishDelete(q)
    BY <1>0, <2>4 DEF FinishDelete
  <2> QED BY <1>1, <2>1, <2>2, <2>3, <2>4
<1>2. ASSUME NEW q \in Offers,
             OfferEvent(q) \/ CreateOffer(q) \/ DeleteOffer(q) \/ EditOffer(q)
      PROVE  Grows /\ Works
  BY <1>0, <1>2 DEF OfferEvent, CreateOffer, DeleteOffer, EditOffer
<1>3. ASSUME NEW q \in Offers, GetRequest(q) PROVE Works
  BY <1>3 DEF GetRequest
<1>4. WriteOfferStatus => Grows
  BY <1>0 DEF WriteOfferStatus
<1>5. GetOffer \/ OrphanHandedOver \/ OrphanTombstoned => Works
  BY DEF GetOffer, OrphanHandedOver, OrphanTombstoned
<1>6. Pass => Works
  BY PassPublishes
<1>7. Bystander => Grows /\ Works
  BY BystandersAdd
<1>8. ListForIdentity \/ PublishForIdentity => Works
  BY DEF ListForIdentity, PublishForIdentity
<1>9. EnableOffers => Grows /\ Works
  BY DEF EnableOffers
<1> QED
  <2> HIDE DEF Grows, Works
  <2>1. OfferStep => Grows /\ (WriteOfferStatus \/ Works)
    BY <1>1, <1>4 DEF OfferStep
  <2>2. RequestStep \/ AwaitResources =>
          (GetOffer \/ OrphanHandedOver \/ OrphanTombstoned \/ Pass) /\ Works
    BY <1>5, <1>6 DEF RequestStep, Pass
  <2>3. IdentityStep => (Grows /\ Works) \/ ((ListForIdentity \/ PublishForIdentity) /\ Works)
    BY <1>7, <1>8 DEF IdentityStep, Bystander
  <2>4. CliStep => Grows /\ Works
    BY <1>7, <1>9 DEF CliStep, Bystander
  <2>5. /\ \/ Grows
           \/ \E q \in Offers : GetRequest(q)
           \/ GetOffer \/ OrphanHandedOver \/ OrphanTombstoned \/ Pass
           \/ ListForIdentity \/ PublishForIdentity
        /\ WriteOfferStatus \/ Works
    BY <2>1, <2>2, <2>3, <2>4, <1>2, <1>3, <1>7 DEF Next, Bystander
  <2> QED BY <2>5 DEF Grows, Works

\* An offer becomes settled by its own status write only.
LEMMA SettledBefore ==
  ASSUME TypeOK, WorkerKeepsPhase, Delivered, Next, ~RecreateCluster, NEW o \in Offers,
         Settled(o)', ~(WriteOfferStatus /\ offerJob.o = o)
  PROVE  Settled(o) /\ o \in RegistrationOffers /\ PublishedForRegistration(seen[o])
<1>1. /\ o \notin news' /\ o \notin offerQ' /\ o \notin unowned'
      /\ PublishedForRegistration(offer'[o]) /\ (offerJob' = Idle \/ offerJob'.o # o)
  BY DEF Settled
<1>2. offer'[o].phase = "live"
  BY <1>1 DEF PublishedForRegistration
<1>3. offer'[o] = offer[o] /\ o \notin news /\ o \notin offerQ
  BY <1>1, <1>2, OffersMove DEF OfferMoves
<1>4. offerJob = Idle \/ offerJob.o # o
  <2>1. CASE WriteOfferStatus
    BY <2>1
  <2>2. CASE ~WriteOfferStatus
    BY <1>1, <2>2, StepKinds
  <2> QED BY <2>1, <2>2
<1>5. o \notin unowned
  <2>1. CASE WriteOfferStatus
    <3>1. unowned' = unowned \/ unowned' = unowned \ {offerJob.o} \/ unowned' = unowned \cup {offerJob.o}
      BY <2>1 DEF WriteOfferStatus
    <3> QED BY <1>1, <2>1, <3>1
  <2>2. CASE ~WriteOfferStatus
    BY <1>1, <2>2, StepKinds
  <2> QED BY <2>1, <2>2
<1>6. seen[o] = offer[o]
  BY <1>3 DEF Delivered
<1> QED BY <1>1, <1>3, <1>4, <1>5, <1>6
        DEF Settled, RegistrationOffers, PublishedForRegistration

\* The status write that settles an offer enqueues the identity, and a request
\* that exists.
LEMMA WriteOwes ==
  ASSUME TypeOK, WriteOfferStatus, NEW o \in Offers, o = offerJob.o, Settled(o)', rr' = rr
  PROVE  Advertised(o)'
<1>1. /\ o \notin news' /\ o \notin offerQ' /\ o \notin unowned'
      /\ PublishedForRegistration(offer'[o])
  BY DEF Settled
<1>2. offer[o] = offerJob.read
  BY <1>1 DEF WriteOfferStatus
<1>3. offer' = [offer EXCEPT ![o] = offerJob.new]
  BY <1>2 DEF WriteOfferStatus
<1>4. offerJob.new.enabled
  BY <1>1, <1>3 DEF TypeOK, PublishedForRegistration
<1>5. idQ' = TRUE /\ regQ' = regQ \cup RegistrationOwner
  BY <1>2, <1>4 DEF WriteOfferStatus
<1>6. \E q \in RegistrationOwner : rr[q] # NoRR
  BY <1>1, <1>2, <1>4 DEF WriteOfferStatus
<1>7. Owed'
  BY <1>5, <1>6 DEF Owed
<1> QED BY <1>5, <1>7 DEF Advertised

\* The offer worker's job is begun by a reconcile and ended by its write.
LEMMA WorkerMoves ==
  ASSUME TypeOK, Next, ~RecreateCluster
  PROVE  offerJob' = offerJob \/ offerJob' = Idle \/ \E q \in Offers : ReconcileOffer(q)
<1>1. WriteOfferStatus => offerJob' = Idle
  BY DEF WriteOfferStatus
<1>2. ASSUME NEW q \in Offers,
             \/ OfferIsGone(q) \/ HandOver(q) \/ AskTombstone(q) \/ FinishDelete(q)
             \/ OfferEvent(q) \/ GetRequest(q) \/ CreateOffer(q) \/ DeleteOffer(q) \/ EditOffer(q)
      PROVE  offerJob' = offerJob
  BY <1>2 DEF OfferIsGone, HandOver, AskTombstone, FinishDelete, OfferEvent, GetRequest,
              CreateOffer, DeleteOffer, EditOffer
<1>3. GetOffer \/ OrphanHandedOver \/ OrphanTombstoned \/ ListForIdentity \/ PublishForIdentity
      \/ EnableOffers => offerJob' = offerJob
  BY DEF GetOffer, OrphanHandedOver, OrphanTombstoned, ListForIdentity, PublishForIdentity,
         EnableOffers
<1>4. Pass \/ Bystander => offerJob' = offerJob
  BY PassPublishes, BystandersAdd
<1> QED
  <2>1. OfferStep => offerJob' = offerJob \/ offerJob' = Idle \/ \E q \in Offers : ReconcileOffer(q)
    BY <1>1, <1>2 DEF OfferStep
  <2>2. RequestStep \/ AwaitResources \/ IdentityStep \/ CliStep => offerJob' = offerJob
    BY <1>3, <1>4 DEF RequestStep, IdentityStep, CliStep, Pass, Bystander
  <2> QED BY <2>1, <2>2, <1>2, <1>4 DEF Next, Bystander

\* An offer that is being deleted takes its request with it.
LEMMA GoneWithRequest ==
  ASSUME TypeOK, WorkerKeepsPhase, Next, ~RecreateCluster, NEW o \in Offers,
         offer[o].phase = "deleting", offer'[o].phase = "absent"
  PROVE  rr'[o] = NoRR
<1>0. offer \in [Offers -> Offer] /\ rr \in [Offers -> Request \cup {NoRR}]
  BY DEF TypeOK
<1>1. offer'[o] # offer[o]
  OBVIOUS
<1>2. ASSUME NEW q \in Offers, HandOver(q) \/ FinishDelete(q) PROVE rr'[o] = NoRR
  <2>1. offer' = [offer EXCEPT ![q] = Absent] /\ rr' = [rr EXCEPT ![q] = NoRR]
    BY <1>2 DEF HandOver, FinishDelete
  <2> QED BY <1>0, <1>1, <2>1
<1>3. WriteOfferStatus => offer'[o].phase = offer[o].phase
  <2> SUFFICES ASSUME WriteOfferStatus PROVE offer'[o].phase = offer[o].phase
    OBVIOUS
  <2>1. offerJob.new.phase = offerJob.read.phase
    BY DEF WriteOfferStatus, Idle, WorkerKeepsPhase
  <2>2. offer' = offer
        \/ (offer[offerJob.o] = offerJob.read /\ offer' = [offer EXCEPT ![offerJob.o] = offerJob.new])
    BY DEF WriteOfferStatus
  <2> QED BY <1>0, <2>1, <2>2
<1>4. ASSUME NEW q \in Offers,
             \/ ReconcileOffer(q) \/ OfferIsGone(q) \/ AskTombstone(q) \/ OfferEvent(q)
             \/ GetRequest(q)
      PROVE  offer' = offer
  BY <1>4 DEF ReconcileOffer, OfferIsGone, AskTombstone, OfferEvent, GetRequest
<1>5. ASSUME NEW q \in Offers, CreateOffer(q) \/ DeleteOffer(q) \/ EditOffer(q)
      PROVE  offer'[o] = offer[o]
  BY <1>0, <1>5 DEF CreateOffer, DeleteOffer, EditOffer
<1>6. EnableOffers => offer'[o] = offer[o]
  BY DEF EnableOffers
<1>7. GetOffer \/ OrphanHandedOver \/ OrphanTombstoned \/ ListForIdentity \/ PublishForIdentity
      => offer' = offer
  BY DEF GetOffer, OrphanHandedOver, OrphanTombstoned, ListForIdentity, PublishForIdentity
<1>8. Pass \/ Bystander => offer' = offer
  BY PassPublishes, BystandersAdd
<1> QED
  <2>1. OfferStep => rr'[o] = NoRR
    BY <1>1, <1>2, <1>3, <1>4 DEF OfferStep
  <2>2. ~(RequestStep \/ AwaitResources \/ IdentityStep \/ CliStep)
    BY <1>1, <1>6, <1>7, <1>8 DEF RequestStep, IdentityStep, CliStep, Pass, Bystander
  <2> QED BY <1>1, <1>4, <1>5, <1>8, <2>1, <2>2 DEF Next, Bystander

\* A settled offer stays advertised, whichever document is published next.
LEMMA StaysAdvertised ==
  ASSUME TypeOK, Next, ~RecreateCluster, NEW o \in Offers, Advertised(o), rr' = rr,
         \A q \in Offers : ~Tombstone(rr[q]),
         o \in RegistrationOffers, PublishedForRegistration(seen[o]), seen[o] = offer[o]
  PROVE  Advertised(o)'
<1>0. idQ \in BOOLEAN /\ rr \in [Offers -> Request \cup {NoRR}]
  BY DEF TypeOK
<1>a. regQ \subseteq regQ' => (Owed => Owed')
  BY DEF Owed
<1>1. CASE UNCHANGED <<doc, regJob, idJob>> /\ regQ \subseteq regQ' /\ (idQ => idQ')
  <2>1. StalePass(o)' <=> StalePass(o)
    BY <1>1 DEF StalePass
  <2> QED BY <1>1, <1>a, <2>1 DEF Advertised
<1>2. ASSUME NEW q \in Offers, GetRequest(q) PROVE Advertised(o)'
  <2>1. /\ regJob' = IF rr[q] = NoRR THEN Idle ELSE [pc |-> "got", o |-> q, req |-> rr[q]]
        /\ regQ' = regQ \ {q} /\ regJob = Idle
        /\ UNCHANGED <<doc, idQ, idJob>>
    BY <1>2 DEF GetRequest
  <2>2. ~StalePass(o)'
    <3>1. ASSUME rr[q] # NoRR PROVE rr[q].desired # "Tombstoned"
      BY <3>1 DEF Tombstone
    <3>2. regJob'.pc = "got" => regJob'.req.desired # "Tombstoned"
      BY <2>1, <3>1 DEF Idle
    <3>3. regJob'.pc # "settle"
      BY <2>1 DEF Idle
    <3> QED BY <3>2, <3>3 DEF StalePass
  <2>3. Owed => Owed' \/ regJob' # Idle
    <3>1. CASE rr[q] = NoRR
      BY <2>1, <3>1 DEF Owed
    <3>2. CASE rr[q] # NoRR
      BY <2>1, <3>2 DEF Idle
    <3> QED BY <3>1, <3>2
  <2> QED BY <2>1, <2>2, <2>3 DEF Advertised
<1>3. CASE GetOffer
  <2>1. /\ regJob.pc = "got" /\ regJob'.pc = "settle" /\ regJob' # Idle
        /\ UNCHANGED <<doc, idQ, idJob, regQ>>
    BY <1>3 DEF GetOffer, Idle
  <2>2. regJob.req.desired # "Tombstoned" => o \in regJob'.doc.services
    <3> DEFINE services == Publishable([q \in {regJob.o} |-> offer[regJob.o]])
    <3>1. o \in services
      BY DEF Publishable
    <3> HIDE DEF services
    <3>2. regJob.req.desired # "Tombstoned" =>
            regJob'.doc = IdentityDocument(services, identity.reg)
      BY <1>3 DEF GetOffer, services
    <3> QED BY <3>1, <3>2 DEF IdentityDocument
  <2>3. StalePass(o)' => StalePass(o)
    BY <2>1, <2>2 DEF StalePass
  <2> QED BY <1>a, <2>1, <2>3 DEF Advertised
<1>4. CASE OrphanHandedOver
  <2>1. regJob' = Idle /\ idQ' = TRUE /\ UNCHANGED idJob
    BY <1>4 DEF OrphanHandedOver
  <2>2. ~StalePass(o)'
    BY <2>1 DEF StalePass, Idle
  <2> QED BY <2>1, <2>2 DEF Advertised
<1>5. CASE OrphanTombstoned
  <2>1. RegistrationOwner = {} /\ RegistrationOffers \subseteq Offers
    BY <1>5 DEF OrphanTombstoned, RegistrationOffers
  <2>2. \E q \in RegistrationOffers : \A p \in RegistrationOffers : Rank[q] <= Rank[p]
    BY <2>1, Extremes
  <2> QED BY <2>1, <2>2 DEF RegistrationOwner, OldestOf
<1>6. CASE Pass
  <2>1. /\ regJob.pc = "settle" /\ doc' = regJob.doc /\ regJob' = Idle /\ idJob' = idJob
        /\ regQ \subseteq regQ' /\ (idQ => idQ')
    BY <1>6, PassPublishes DEF QueuesGrow
  <2>2. ~StalePass(o)'
    BY <2>1 DEF StalePass, Idle
  <2>3. o \in doc'.services \/ Owed
    BY <2>1 DEF Advertised, StalePass
  <2> QED BY <1>a, <2>1, <2>2, <2>3 DEF Advertised
<1>7. CASE ListForIdentity
  <2>1. idJob' # Idle /\ UNCHANGED <<doc, regJob, regQ>>
        /\ idJob'.doc = IdentityDocument(Publishable(NoOffers), identity.reg)
    BY <1>7 DEF ListForIdentity, Idle
  <2>2. o \in Publishable(NoOffers)
    BY DEF Publishable, NoOffers
  <2>3. o \in idJob'.doc.services
    BY <2>1, <2>2 DEF IdentityDocument
  <2>4. StalePass(o)' <=> StalePass(o)
    BY <2>1 DEF StalePass
  <2> QED BY <1>a, <2>1, <2>3, <2>4 DEF Advertised
<1>8. CASE PublishForIdentity
  <2>1. doc' = idJob.doc /\ idJob' = Idle /\ idJob # Idle /\ UNCHANGED <<regJob, regQ, idQ>>
    BY <1>8 DEF PublishForIdentity, Idle
  <2>2. StalePass(o)' <=> StalePass(o)
    BY <2>1 DEF StalePass
  <2> QED BY <1>a, <2>1, <2>2 DEF Advertised
<1> QED BY <1>1, <1>2, <1>3, <1>4, <1>5, <1>6, <1>7, <1>8, StepKinds

\* The invariant is kept, by a new cluster too: it has no offers.
LEMMA StepAdvertised ==
  ASSUME TypeOK, WorkerKeepsPhase, AdvertisedInv, [Next]_vars
  PROVE  WorkerKeepsPhase' /\ AdvertisedInv'
<1>1. CASE UNCHANGED vars
  BY <1>1 DEF vars, WorkerKeepsPhase, AdvertisedInv, Delivered, TombstonesLeave, DeletionsQueued,
              SettledAdvertised, Settled, Advertised, Owed, StalePass
<1>2. CASE RecreateCluster
  <2>1. /\ \A o \in Offers : offer'[o] = Absent /\ seen'[o] = Absent /\ rr'[o] = NoRR
        /\ offerJob' = Idle
    BY <1>2 DEF RecreateCluster
  <2>2. \A o \in Offers : ~Settled(o)'
    BY <2>1 DEF Settled, PublishedForRegistration, Absent
  <2>3. \A o \in Offers : offer'[o].phase # "deleting" /\ ~Tombstone(rr'[o])
    BY <2>1 DEF Absent, Tombstone
  <2> QED BY <2>1, <2>2, <2>3 DEF WorkerKeepsPhase, AdvertisedInv, Delivered, TombstonesLeave,
                                  DeletionsQueued, SettledAdvertised
<1>3. CASE Next /\ ~RecreateCluster
  <2>a. Delivered
    BY DEF AdvertisedInv
  <2>b. ASSUME NEW o \in Offers PROVE OfferMoves(o)
    BY <1>3, <2>a, OffersMove
  <2>1. WorkerKeepsPhase'
    <3>1. CASE offerJob' = offerJob \/ offerJob' = Idle
      BY <3>1 DEF WorkerKeepsPhase
    <3>2. ASSUME NEW q \in Offers, ReconcileOffer(q) PROVE WorkerKeepsPhase'
      <4> DEFINE copy == [offer[q] EXCEPT !.up = TRUE]
      <4>1. offer[q] \in Offer
        BY DEF TypeOK
      <4>2. copy \in Offer /\ copy.phase = offer[q].phase
        BY <4>1 DEF Offer
      <4>3. RegistrationStatus(q, copy)
        BY <3>2 DEF ReconcileOffer
      <4> HIDE DEF copy
      <4>4. \A i, b : [copy EXCEPT !.agent = i, !.registered = b].phase = copy.phase
        BY <4>2 DEF Offer
      <4>5. offerJob'.read = offer[q]
            /\ \E i, b : offerJob'.new = [copy EXCEPT !.agent = i, !.registered = b]
        <5>1. \E i, b : SharedStatus(copy) = [copy EXCEPT !.agent = i, !.registered = b]
          BY DEF SharedStatus
        <5>2. CASE ~copy.enabled
          <6>1. offerJob'.read = offer[q]
            BY <4>3, <5>2 DEF RegistrationStatus
          <6>2. offerJob'.new = [copy EXCEPT !.agent = None, !.registered = TRUE]
            BY <4>3, <5>2 DEF RegistrationStatus
          <6> QED BY <6>1, <6>2
        <5>3. CASE copy.enabled /\ RegistrationOwner # {q}
          <6>1. offerJob'.read = offer[q]
            BY <4>3, <5>3 DEF RegistrationStatus
          <6>2. \/ offerJob'.new = SharedStatus(copy)
                \/ offerJob'.new = [copy EXCEPT !.agent = identity.reg[copy.net], !.registered = FALSE]
            BY <4>3, <5>3 DEF RegistrationStatus
          <6> QED BY <5>1, <6>1, <6>2
        <5>4. CASE copy.enabled /\ RegistrationOwner = {q}
          <6>1. offerJob'.read = offer[q] /\ offerJob'.new = SharedStatus(copy)
            BY <4>3, <5>4 DEF RegistrationStatus
          <6> QED BY <5>1, <6>1
        <5> QED BY <5>2, <5>3, <5>4
      <4> QED BY <4>2, <4>4, <4>5 DEF WorkerKeepsPhase
    <3>3. offerJob' = offerJob \/ offerJob' = Idle \/ \E q \in Offers : ReconcileOffer(q)
      BY <1>3, WorkerMoves
    <3> QED BY <3>1, <3>2, <3>3
  <2>2. Delivered'
    BY <2>b DEF Delivered, OfferMoves
  <2>3. DeletionsQueued'
    <3>1. SUFFICES ASSUME NEW o \in Offers, offer'[o].phase = "deleting"
                   PROVE  o \in news' \cup offerQ'
      BY DEF DeletionsQueued
    <3>2. CASE offer'[o] # offer[o]
      BY <2>b, <3>2 DEF OfferMoves
    <3>3. CASE offer'[o] = offer[o]
      <4>1. o \in news \cup offerQ /\ offer[o].phase = "deleting"
        BY <3>1, <3>3 DEF AdvertisedInv, DeletionsQueued
      <4> QED BY <2>b, <3>1, <4>1 DEF OfferMoves
    <3> QED BY <3>2, <3>3
  <2>4. TombstonesLeave'
    <3>1. SUFFICES ASSUME NEW o \in Offers, Tombstone(rr'[o])
                   PROVE  offer'[o].phase = "deleting"
      BY DEF TombstonesLeave
    <3>2. CASE Tombstone(rr[o])
      <4>1. offer[o].phase = "deleting"
        BY <3>2 DEF AdvertisedInv, TombstonesLeave
      <4>2. offer'[o].phase = "absent" => rr'[o] = NoRR
        BY <1>3, <4>1, GoneWithRequest
      <4> QED BY <2>b, <3>1, <4>1, <4>2 DEF OfferMoves, Tombstone
    <3> QED BY <1>3, <3>1, <3>2, RequestsMove
  <2>5. SettledAdvertised'
    <3>1. SUFFICES ASSUME \A q \in Offers : ~Tombstone(rr'[q]), NEW o \in Offers, Settled(o)'
                   PROVE  Advertised(o)'
      BY DEF SettledAdvertised
    <3>2. rr' = rr
      BY <1>3, <2>a, <3>1, ChangeUnsettles
    <3>3. CASE WriteOfferStatus /\ offerJob.o = o
      BY <3>1, <3>2, <3>3, WriteOwes
    <3>4. CASE ~(WriteOfferStatus /\ offerJob.o = o)
      <4>1. Settled(o) /\ o \in RegistrationOffers /\ PublishedForRegistration(seen[o])
        BY <1>3, <2>a, <3>1, <3>4, SettledBefore
      <4>2. seen[o] = offer[o]
        BY <2>a, <4>1 DEF Settled, Delivered
      <4>3. Advertised(o)
        BY <3>1, <3>2, <4>1 DEF AdvertisedInv, SettledAdvertised
      <4> QED BY <1>3, <3>1, <3>2, <4>1, <4>2, <4>3, StaysAdvertised
    <3> QED BY <3>3, <3>4
  <2> QED BY <2>1, <2>2, <2>3, <2>4, <2>5 DEF AdvertisedInv
<1> QED BY <1>1, <1>2, <1>3

\* Once the controller is quiet the document has every published offer, but for
\* those whose last status write enqueued an owner without a request.
THEOREM SettledIsAdvertised == Spec => []RegistrationInv
<1>1. Init => WorkerKeepsPhase /\ AdvertisedInv
  <2> SUFFICES ASSUME Init PROVE WorkerKeepsPhase /\ AdvertisedInv
    OBVIOUS
  <2>1. \A o \in Offers : rr[o] = NoRR /\ seen[o] = offer[o]
                          /\ (o \in news \/ offer[o] = Absent)
    BY DEF Init
  <2>2. offerJob = Idle
    BY DEF Init
  <2>3. \A o \in Offers : ~Tombstone(rr[o]) /\ ~Settled(o)
    BY <2>1 DEF Tombstone, Settled, PublishedForRegistration, Absent
  <2>4. DeletionsQueued
    BY <2>1 DEF DeletionsQueued, Absent
  <2> QED BY <2>1, <2>2, <2>3, <2>4 DEF WorkerKeepsPhase, AdvertisedInv, Delivered,
                                        TombstonesLeave, SettledAdvertised
<1>2. TypeOK /\ WorkerKeepsPhase /\ AdvertisedInv /\ [Next]_vars
      => WorkerKeepsPhase' /\ AdvertisedInv'
  BY StepAdvertised
<1>3. TypeOK /\ AdvertisedInv => RegistrationInv
  <2> SUFFICES ASSUME TypeOK, AdvertisedInv, Quiet, NEW o \in Published \ unowned
               PROVE  o \in doc.services
    BY DEF RegistrationInv, PublishedIsAdvertised
  <2>1. \A q \in Offers : offer[q].phase # "deleting"
    BY DEF AdvertisedInv, DeletionsQueued, Quiet
  <2>2. \A q \in Offers : ~Tombstone(rr[q])
    BY <2>1 DEF AdvertisedInv, TombstonesLeave
  <2>3. o \in Offers /\ Settled(o)
    BY DEF Settled, Published, Quiet
  <2>4. Advertised(o)
    BY <2>2, <2>3 DEF AdvertisedInv, SettledAdvertised
  <2> QED BY <2>4 DEF Advertised, Quiet, Owed
<1> QED BY <1>1, <1>2, <1>3, TypeCorrect, PTL DEF Spec
=============================================================================
