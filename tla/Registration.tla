---------------------------- MODULE Registration ----------------------------
(***************************************************************************)
(* ERC-8004 registration of a seller: the registration half of the         *)
(* serviceoffer-controller (controller.go 686-722 and 921-1290,            *)
(* identity_controller.go, identity_render.go), the commands that mint and *)
(* record agents (cmd/obol sell register, identity import, identity        *)
(* forget), the registry client (internal/erc8004) and the host record     *)
(* (internal/agentidentity) that replay puts back into a new cluster.      *)
(*                                                                         *)
(* One AgentIdentity holds an agent id per chain.  The oldest enabled      *)
(* offer owns the RegistrationRequest; the others share it.  One document  *)
(* advertises them all.  Three workers (offers, requests, identity) and    *)
(* the CLI write these objects, and the chain moves on its own.            *)
(*                                                                         *)
(* Agent ids are positions in the sequence of minted tokens, over all      *)
(* chains, so an id tells its chain.                                       *)
(***************************************************************************)
EXTENDS Naturals, FiniteSets, Sequences

CONSTANTS Offers,     \* ServiceOffers
          Rank,       \* their order by creation, then namespace/name
          ColdPayee,  \* offers paid to an address that is not the signer's
          Chains,     \* registration networks
          HomeChain,  \* the network an offer is created for
          URLs,       \* origins of the tunnel
          Enabled,    \* offers created without --no-register
          MaxTokens,  \* bound: tokens minted
          MaxEvents,  \* bound: commands, edits, transfers, moves and outages in a
                      \* new stack
          LegacyEvents \* the same in one with a legacy offer

ASSUME RegistrationAssumption ==
    /\ IsFiniteSet(Offers) /\ Rank \in [Offers -> 1..Cardinality(Offers)]
    /\ \A o, q \in Offers : Rank[o] = Rank[q] => o = q
    /\ ColdPayee \subseteq Offers /\ Enabled \subseteq Offers
    /\ HomeChain \in Chains /\ URLs # {}
    /\ MaxTokens \in Nat \ {0} /\ MaxEvents \in Nat /\ LegacyEvents \in Nat

VARIABLES offer,    \* the ServiceOffers in the API server
          seen,     \* the informer's copy of them
          news,     \* offers with a watch event under way
          rr,       \* their RegistrationRequests
          identity, \* the AgentIdentity
          doc,      \* the published registration document
          offerQ, regQ, idQ,        \* the three work queues
          offerJob, regJob, idJob,  \* the three workers
          tokens,   \* the agents minted on the registries
          pool,     \* register transactions broadcast and not yet mined
          url,      \* the current tunnel origin
          unowned,  \* ghost: offers whose status was last written while the owner
                    \* it enqueues had no RegistrationRequest
          cli,      \* the running obol sell command
          record,   \* the host-side identity record
          replay,   \* a recreated cluster: what has been put back
          left      \* what remains of the bound

offerVars == <<offer, seen, news>>
queueVars == <<offerQ, regQ, idQ>>
jobVars   == <<offerJob, regJob, idJob>>
chainVars == <<tokens, pool>>
hostVars  == <<cli, record, replay>>
vars == <<offerVars, rr, identity, doc, queueVars, jobVars, chainVars, url, unowned, hostVars, left>>

Ids == 1..MaxTokens
None == 0
NoRegs == [c \in Chains |-> None]
NoRR == [desired |-> "none"]
Absent == [phase |-> "absent", enabled |-> FALSE, net |-> HomeChain, up |-> FALSE,
           agent |-> None, registered |-> FALSE]
NoIdentity == [exists |-> FALSE, reg |-> NoRegs]
NoDoc == [services |-> {}, regs |-> NoRegs]
Idle == [pc |-> "idle"]

Offer == [phase: {"absent", "live", "deleting"}, enabled: BOOLEAN, net: Chains,
          up: BOOLEAN, agent: Ids \cup {None}, registered: BOOLEAN]
Request == [desired: {"Active", "Tombstoned"}, chain: Chains,
            phase: {"", "Publishing", "AwaitingExternal", "Registered", "OffChainOnly"},
            agent: Ids \cup {None}, tx: Ids \cup {None},
            uri: URLs \cup {""}, from: 0..MaxTokens]
Regs == [Chains -> Ids \cup {None}]
Document == [services: SUBSET Offers, regs: Regs]
OfferJob == [pc: {"status"}, o: Offers, read: Offer, new: Offer]
RequestJob == [pc: {"got"}, o: Offers, req: Request]
    \cup [pc: {"settle"}, o: Offers, req: Request, ident: Regs, url: URLs, doc: Document,
          then: {"active", "tombstone"}]
IdentityJob == [pc: {"publish"}, doc: Document]
Token == [chain: Chains, owner: {"signer", "other"}, uri: URLs]
Transaction == [chain: Chains, uri: URLs, run: BOOLEAN] \* run: of the running command
Command == [pc: {"existing", "recover", "mint", "wait", "persist", "enable"}, chain: Chains,
            uri: URLs, regs: Regs, attempt: 1..3, start: Nat, sent: BOOLEAN,
            got: Ids \cup {None}, minted: Nat]

TypeOK ==
    /\ offer \in [Offers -> Offer] /\ seen \in [Offers -> Offer] /\ news \subseteq Offers
    /\ rr \in [Offers -> Request \cup {NoRR}]
    /\ identity \in [exists: BOOLEAN, reg: Regs]
    /\ doc \in Document
    /\ offerQ \subseteq Offers /\ regQ \subseteq Offers /\ idQ \in BOOLEAN
    /\ offerJob \in OfferJob \cup {Idle}
    /\ regJob \in RequestJob \cup {Idle}
    /\ idJob \in IdentityJob \cup {Idle}
    /\ tokens \in Seq(Token) /\ pool \in Seq(Transaction)
    /\ Len(tokens) + Len(pool) <= MaxTokens
    /\ url \in URLs /\ unowned \subseteq Offers
    /\ cli \in Command \cup {Idle}
    /\ record \in Regs
    /\ replay \in {"done", "pending", "failed"}
    /\ left \in Nat

\* A new stack, or one from before AgentIdentity existed whose oldest offer
\* carries the id of an agent that was minted then.
Legacy(o) == [Absent EXCEPT !.phase = "live", !.enabled = TRUE, !.up = TRUE, !.agent = 1,
                            !.registered = TRUE]

Init ==
    /\ url = CHOOSE u \in URLs : TRUE
    /\ \/ /\ offer = [o \in Offers |-> Absent] /\ tokens = <<>> /\ left = MaxEvents
       \/ /\ offer = [o \in Offers |-> IF \A q \in Offers : Rank[o] <= Rank[q]
                                        THEN Legacy(o) ELSE Absent]
          /\ tokens = <<[chain |-> HomeChain, owner |-> "signer", uri |-> url]>>
          /\ left = LegacyEvents
    /\ seen = offer /\ news = {o \in Offers : offer[o] # Absent}
    /\ rr = [o \in Offers |-> NoRR]
    /\ identity = NoIdentity
    /\ doc = NoDoc
    /\ offerQ = {} /\ regQ = {} /\ idQ = FALSE
    /\ offerJob = Idle /\ regJob = Idle /\ idJob = Idle
    /\ pool = <<>>
    /\ cli = Idle /\ record = NoRegs /\ replay = "done" /\ unowned = {}

Event == left > 0 /\ left' = left - 1
Changed(o) == news' = news \cup {o}

----------------------------------------------------------------------------
\* Who owns the registration, and what the document says.

\* registrationOffersForIdentity, from the informer's store.
RegistrationOffers == {o \in Offers : seen[o].phase = "live" /\ seen[o].enabled}

\* selectRegistrationOwner: the oldest, {} when there is none.
OldestOf(S) == {o \in S : \A q \in S : Rank[o] <= Rank[q]}
RegistrationOwner == OldestOf(RegistrationOffers)

\* offerPublishedForRegistration, and mergeOfferOverride with the copy just read.
PublishedForRegistration(copy) == copy.phase = "live" /\ copy.enabled /\ copy.up
Publishable(override) ==
    {o \in RegistrationOffers \cup DOMAIN override :
        PublishedForRegistration(IF o \in DOMAIN override THEN override[o] ELSE seen[o])}

NoOffers == [o \in {} |-> Absent]
IdentityDocument(services, regs) == [services |-> services, regs |-> regs]

Upsert(regs, chain, id) == IF id = None THEN regs ELSE [regs EXCEPT ![chain] = id]

\* SeedIdentityFromOffers, in the controller: the ids the cached candidates carry,
\* the youngest winning; seedFromServiceOfferPointers, in the CLI: the oldest of
\* all offers winning.
WithAgent(view, S, c) == {o \in S : view[o].net = c /\ view[o].agent # None}
SeedByController ==
    [c \in Chains |-> LET with == WithAgent(seen, RegistrationOffers, c)
                      IN  IF with = {} THEN None
                          ELSE seen[CHOOSE o \in with : \A q \in with : Rank[q] <= Rank[o]].agent]
SeedByCLI ==
    [c \in Chains |-> LET with == WithAgent(offer, Offers, c)
                      IN  IF with = {} THEN None
                          ELSE offer[CHOOSE o \in with : o \in OldestOf(with)].agent]

----------------------------------------------------------------------------
\* Events of the informers.

OfferEvent(o) ==
    /\ o \in news
    /\ news' = news \ {o} /\ seen' = [seen EXCEPT ![o] = offer[o]]
    /\ offerQ' = offerQ \cup {o} /\ idQ' = TRUE
    /\ UNCHANGED <<offer, rr, identity, doc, regQ, jobVars, chainVars, url, unowned, hostVars, left>>

\* What a changed or deleted RegistrationRequest enqueues: itself, the enabled
\* offers and the identity (enqueueRegistration, enqueueOfferFromRegistration,
\* enqueueIdentityFromRegistration).  These events arrive at once.
EventsOfRequest(o) == IF rr'[o] # rr[o] THEN RegistrationOffers ELSE {}
KeyOfRequest(o) == IF rr'[o] # rr[o] THEN {o} ELSE {}
RequestChanged(o) ==
    /\ regQ' = regQ \cup {o}
    /\ offerQ' = offerQ \cup RegistrationOffers
    /\ idQ' = TRUE

----------------------------------------------------------------------------
\* The offer worker: reconcileRegistrationStatus and reconcileDeletingOffer.

BuildRequest(o, desired, chain) ==
    IF rr[o] = NoRR
    THEN [desired |-> desired, chain |-> chain, phase |-> "", agent |-> None,
          tx |-> None, uri |-> "", from |-> 0]
    ELSE [rr[o] EXCEPT !.desired = desired, !.chain = chain]

\* applySharedRegistrationStatus: the id is the one the identity holds for the
\* offer's own chain, and Registered also waits for the route.
SharedStatus(copy) ==
    LET id == identity.reg[copy.net]
    IN  [copy EXCEPT !.agent = id, !.registered = copy.up /\ id # None]

\* reconcileRegistrationStatus: disabled, an owner elsewhere, or the owner.
RegistrationStatus(o, copy) ==
    IF ~copy.enabled
    THEN /\ rr' = [rr EXCEPT ![o] = NoRR]
         /\ offerJob' = [pc |-> "status", o |-> o, read |-> offer[o],
                         new |-> [copy EXCEPT !.agent = None, !.registered = TRUE]]
    ELSE IF RegistrationOwner # {o}
    THEN /\ rr' = IF RegistrationOwner = {} THEN rr ELSE [rr EXCEPT ![o] = NoRR]
         /\ offerJob' = [pc |-> "status", o |-> o, read |-> offer[o],
              new |-> IF \E q \in RegistrationOwner : rr[q] # NoRR THEN SharedStatus(copy)
                      ELSE [copy EXCEPT !.agent = identity.reg[copy.net], !.registered = FALSE]]
    ELSE /\ rr' = [rr EXCEPT ![o] = BuildRequest(o, "Active", copy.net)]
         /\ offerJob' = [pc |-> "status", o |-> o, read |-> offer[o], new |-> SharedStatus(copy)]

\* A reconcile of a live offer: its route comes up, then its registration status.
ReconcileOffer(o) ==
    /\ offerJob = Idle /\ o \in offerQ /\ offer[o].phase = "live"
    /\ identity.exists
    /\ RegistrationStatus(o, [offer[o] EXCEPT !.up = TRUE])
    /\ offerQ' = (offerQ \ {o}) \cup EventsOfRequest(o)
    /\ regQ' = regQ \cup KeyOfRequest(o) /\ idQ' = (idQ \/ rr'[o] # rr[o])
    /\ UNCHANGED <<offerVars, identity, doc, regJob, idJob, chainVars, url, unowned, hostVars, left>>

\* updateOfferStatus, then the identity and the owner's request are enqueued,
\* and an offer that is not Ready comes back after 5 seconds.  A conflict ends
\* the reconcile with an error.
WriteOfferStatus ==
    /\ offerJob.pc = "status"
    /\ LET o == offerJob.o
           new == offerJob.new
       IN  IF offer[o] # offerJob.read
           THEN /\ offerQ' = offerQ \cup {o}
                /\ UNCHANGED <<offer, news, regQ, idQ, unowned>>
           ELSE /\ offer' = [offer EXCEPT ![o] = new]
                /\ IF new # offer[o] THEN Changed(o) ELSE UNCHANGED news
                /\ IF new.enabled
                   THEN idQ' = TRUE /\ regQ' = regQ \cup RegistrationOwner
                   ELSE UNCHANGED <<idQ, regQ>>
                /\ offerQ' = IF new.up /\ new.registered THEN offerQ ELSE offerQ \cup {o}
                /\ unowned' = IF new.enabled => \E q \in RegistrationOwner : rr[q] # NoRR
                              THEN unowned \ {o} ELSE unowned \cup {o}
    /\ offerJob' = Idle
    /\ UNCHANGED <<seen, rr, identity, doc, regJob, idJob, chainVars, url, hostVars, left>>

\* reconcileOffer of a key that is gone.
OfferIsGone(o) ==
    /\ offerJob = Idle /\ o \in offerQ /\ offer[o].phase = "absent"
    /\ offerQ' = offerQ \ {o}
    /\ UNCHANGED <<offerVars, rr, identity, doc, regQ, idQ, jobVars, chainVars, url, unowned, hostVars, left>>

\* reconcileDeletingOffer hands the registration to the next owner, and the
\* finalizer goes.  The owner comes from the informer's store, which may still
\* name the offer that is being deleted.
HandOver(o) ==
    /\ offerJob = Idle /\ o \in offerQ /\ offer[o].phase = "deleting"
    /\ offer[o].enabled /\ RegistrationOwner # {}
    /\ rr' = [rr EXCEPT ![o] = NoRR]
    /\ offer' = [offer EXCEPT ![o] = Absent] /\ Changed(o)
    /\ offerQ' = (offerQ \ {o}) \cup RegistrationOwner \cup EventsOfRequest(o)
    /\ regQ' = regQ \cup RegistrationOwner \cup KeyOfRequest(o) /\ idQ' = TRUE
    /\ UNCHANGED <<seen, identity, doc, jobVars, chainVars, url, unowned, hostVars, left>>

\* requestCleanupComplete.
CleanupComplete(req) == req # NoRR /\ req.desired = "Tombstoned" /\ req.phase = "OffChainOnly"

\* ensureRegistrationCleanup: the request asks for a tombstone and the offer
\* waits until the request's worker has published it.
AskTombstone(o) ==
    /\ offerJob = Idle /\ o \in offerQ /\ offer[o].phase = "deleting"
    /\ offer[o].enabled => RegistrationOwner = {}
    /\ offer[o].enabled \/ offer[o].agent # None
    /\ ~CleanupComplete(BuildRequest(o, "Tombstoned", offer[o].net))
    /\ rr' = [rr EXCEPT ![o] = BuildRequest(o, "Tombstoned", offer[o].net)]
    /\ offerQ' = offerQ \cup EventsOfRequest(o) /\ regQ' = regQ \cup KeyOfRequest(o)
    /\ idQ' = (idQ \/ offer[o].enabled \/ rr'[o] # rr[o])
    /\ UNCHANGED <<offerVars, identity, doc, jobVars, chainVars, url, unowned, hostVars, left>>

FinishDelete(o) ==
    /\ offerJob = Idle /\ o \in offerQ /\ offer[o].phase = "deleting"
    /\ \/ ~offer[o].enabled /\ offer[o].agent = None
       \/ /\ offer[o].enabled => RegistrationOwner = {}
          /\ CleanupComplete(BuildRequest(o, "Tombstoned", offer[o].net))
    /\ rr' = [rr EXCEPT ![o] = NoRR]
    /\ offer' = [offer EXCEPT ![o] = Absent] /\ Changed(o)
    /\ offerQ' = (offerQ \ {o}) \cup EventsOfRequest(o) /\ regQ' = regQ \cup KeyOfRequest(o)
    /\ idQ' = (idQ \/ offer[o].enabled \/ rr'[o] # rr[o])
    /\ UNCHANGED <<seen, identity, doc, jobVars, chainVars, url, unowned, hostVars, left>>

----------------------------------------------------------------------------
\* The request worker.

Requeue(o) == regQ' = regQ \cup {o}

\* reconcileRegistrationRequest reads the request, and later the offer.
GetRequest(o) ==
    /\ regJob = Idle /\ o \in regQ
    /\ regQ' = regQ \ {o}
    /\ regJob' = IF rr[o] = NoRR THEN Idle ELSE [pc |-> "got", o |-> o, req |-> rr[o]]
    /\ UNCHANGED <<offerVars, rr, identity, doc, offerQ, idQ, offerJob, idJob, chainVars,
                   url, unowned, hostVars, left>>

\* The offer is there: the document of an active or a tombstoned request.
GetOffer ==
    /\ regJob.pc = "got" /\ offer[regJob.o].phase # "absent" /\ identity.exists
    /\ LET o == regJob.o
           req == regJob.req
           services == IF req.desired = "Tombstoned" THEN {}
                       ELSE Publishable([q \in {o} |-> offer[o]])
       IN  regJob' = [pc |-> "settle", o |-> o, req |-> req, ident |-> identity.reg, url |-> url,
                      doc |-> IdentityDocument(services, identity.reg),
                      then |-> IF req.desired = "Tombstoned" THEN "tombstone" ELSE "active"]
    /\ UNCHANGED <<offerVars, rr, identity, doc, queueVars, offerJob, idJob, chainVars,
                   url, unowned, hostVars, left>>

\* The offer is gone and another owns the registration now.
OrphanHandedOver ==
    /\ regJob.pc = "got" /\ offer[regJob.o].phase = "absent" /\ identity.exists
    /\ RegistrationOwner # {}
    /\ rr' = [rr EXCEPT ![regJob.o] = NoRR]
    /\ regJob' = Idle
    /\ offerQ' = offerQ \cup RegistrationOwner \cup EventsOfRequest(regJob.o)
    /\ regQ' = regQ \cup RegistrationOwner \cup KeyOfRequest(regJob.o) /\ idQ' = TRUE
    /\ UNCHANGED <<offerVars, identity, doc, offerJob, idJob, chainVars, url, unowned, hostVars, left>>

\* The last offer is gone: the identity keeps the id of the request, and the
\* document becomes a tombstone.
OrphanTombstoned ==
    /\ regJob.pc = "got" /\ offer[regJob.o].phase = "absent" /\ identity.exists
    /\ RegistrationOwner = {}
    /\ LET req == regJob.req
           id == IF identity.reg[req.chain] # None THEN identity.reg[req.chain] ELSE req.agent
           regs == Upsert(identity.reg, req.chain, id)
       IN  /\ identity' = [identity EXCEPT !.reg = regs]
           /\ idQ' = (idQ \/ regs # identity.reg)
           /\ regJob' = [pc |-> "settle", o |-> regJob.o, req |-> req, ident |-> regs,
                         url |-> url, doc |-> IdentityDocument({}, regs), then |-> "tombstone"]
    /\ UNCHANGED <<offerVars, rr, doc, offerQ, regQ, offerJob, idJob, chainVars, url, unowned, hostVars, left>>

\* publishAgentIdentityRegistrationResources, then deleteRegistrationResources of
\* what earlier versions published per request.
PublishDocument == doc' = regJob.doc

\* updateRegistrationStatus: a conflict or a deleted request is an error, and
\* the request is retried.
WriteRequest(o, req, new) ==
    IF rr[o] # req
    THEN Requeue(o) /\ UNCHANGED <<rr, offerQ, idQ>>
    ELSE /\ rr' = [rr EXCEPT ![o] = new]
         /\ IF new # req THEN RequestChanged(o) ELSE UNCHANGED queueVars

WriteTombstone ==
    /\ regJob.pc = "settle" /\ regJob.then = "tombstone"
    /\ WriteRequest(regJob.o, regJob.req,
                    [regJob.req EXCEPT !.phase = "OffChainOnly",
                                       !.agent = regJob.ident[regJob.req.chain]])
    /\ PublishDocument /\ regJob' = Idle
    /\ UNCHANGED <<offerVars, identity, offerJob, idJob, chainVars, url, unowned, hostVars, left>>

\* The resources are not up yet, the chain has no RPC, or its height cannot be
\* read: the request waits.
AwaitResources ==
    /\ regJob.pc = "settle" /\ regJob.then = "active" /\ Event
    /\ \E phase \in {"Publishing", "AwaitingExternal"} :
         WriteRequest(regJob.o, regJob.req, [regJob.req EXCEPT !.phase = phase])
    /\ PublishDocument /\ regJob' = Idle
    /\ UNCHANGED <<offerVars, identity, offerJob, idJob, chainVars, url, unowned, hostVars>>

\* The recovery is anchored to the document's URL and to a block 1024 below the
\* tip, which may be below or above tokens minted earlier.
Anchored(req, at) == req.uri = at /\ req.uri # ""
AnchorRecovery ==
    /\ regJob.pc = "settle" /\ regJob.then = "active"
    /\ regJob.ident[regJob.req.chain] = None
    /\ ~Anchored(regJob.req, regJob.url)
    /\ \E from \in 0..Len(tokens) :
         WriteRequest(regJob.o, regJob.req,
                      [regJob.req EXCEPT !.phase = "AwaitingExternal", !.uri = regJob.url,
                                         !.from = from, !.tx = None])
    /\ PublishDocument /\ regJob' = Idle
    /\ UNCHANGED <<offerVars, identity, offerJob, idJob, chainVars, url, unowned, hostVars, left>>

\* FindRegistrationByOwnerAndURI: the newest matching token still owned by owner.
Matching(chain, uri, from) ==
    {i \in (from + 1)..Len(tokens) : /\ tokens[i].chain = chain /\ tokens[i].uri = uri
                                     /\ tokens[i].owner = "signer"}
NewestOf(S) == {i \in S : \A j \in S : j <= i}
\* Mutant: the search starts one block too late.
FindAfterFirst(chain, uri, from) == NewestOf(Matching(chain, uri, from + 1))

FindByOwnerAndURI(chain, uri, from) == NewestOf(Matching(chain, uri, from))

\* FindRegistrationByTxHash: the token that transaction minted, on that chain.
FindByTxHash(chain, tx) == {i \in {tx} : tokens[i].chain = chain}

\* recoverRegistration: by the recorded transaction, else by owner and URI, where
\* the owner looked for is the offer's payTo.
RecoverRegistration(o, req) ==
    IF req.tx # None THEN FindByTxHash(req.chain, req.tx)
    ELSE IF o \in ColdPayee THEN {}
    ELSE FindByOwnerAndURI(req.chain, req.uri, req.from)

\* An id for the chain: one the identity had already, or a recovered one that
\* updateAgentIdentityStatus records (a conflict is an error); then the request.
AdoptOnChain(o, req, ident, id, tx) ==
    IF ident[req.chain] = None /\ identity.reg # ident
    THEN Requeue(o) /\ UNCHANGED <<rr, identity, offerQ, idQ>>
    ELSE LET new == [req EXCEPT !.phase = "Registered", !.agent = id, !.tx = tx,
                                !.uri = IF req.uri = "" THEN regJob.url ELSE req.uri]
         IN  /\ identity' = IF ident[req.chain] # None THEN identity
                            ELSE [identity EXCEPT !.reg = Upsert(ident, req.chain, id)]
             /\ IF rr[o] # req
                THEN Requeue(o) /\ idQ' = TRUE /\ UNCHANGED <<rr, offerQ>>
                ELSE /\ rr' = [rr EXCEPT ![o] = new]
                     /\ regQ' = IF new # req THEN regQ \cup {o} ELSE regQ
                     /\ offerQ' = IF new # req THEN offerQ \cup RegistrationOffers ELSE offerQ
                     /\ idQ' = TRUE

SettleActive ==
    /\ regJob.pc = "settle" /\ regJob.then = "active"
    /\ LET o == regJob.o
           req == regJob.req
           known == regJob.ident[req.chain]
           found == RecoverRegistration(o, req)
       IN  \/ known # None /\ AdoptOnChain(o, req, regJob.ident, known, req.tx)
           \/ /\ known = None /\ Anchored(req, regJob.url)
              /\ \E id \in found : AdoptOnChain(o, req, regJob.ident, id, id)
           \/ /\ known = None /\ Anchored(req, regJob.url) /\ found = {}
              /\ WriteRequest(o, req, [req EXCEPT !.phase = "AwaitingExternal"])
              /\ UNCHANGED identity
    /\ PublishDocument /\ regJob' = Idle
    /\ UNCHANGED <<offerVars, offerJob, idJob, chainVars, url, unowned, hostVars, left>>

----------------------------------------------------------------------------
\* ensureAgentIdentityForKey: created at startup and by whoever needs it first,
\* seeded with the ids the offers carry.
EnsureIdentity ==
    /\ ~identity.exists
    /\ identity' = [exists |-> TRUE, reg |-> SeedByController]
    /\ idQ' = TRUE
    /\ UNCHANGED <<offerVars, rr, doc, offerQ, regQ, jobVars, chainVars, url, unowned, hostVars, left>>

\* The identity worker: reconcileAgentIdentity lists the offers, then publishes.

ListForIdentity ==
    /\ idJob = Idle /\ idQ /\ identity.exists
    /\ idQ' = FALSE
    /\ idJob' = [pc |-> "publish", doc |-> IdentityDocument(Publishable(NoOffers), identity.reg)]
    /\ UNCHANGED <<offerVars, rr, identity, doc, offerQ, regQ, offerJob, regJob, chainVars,
                   url, unowned, hostVars, left>>

\* Mutant: what was enqueued during the reconcile is dropped at its end.
PublishForIdentityForgets ==
    /\ idJob.pc = "publish"
    /\ doc' = idJob.doc /\ idJob' = Idle /\ idQ' = FALSE
    /\ UNCHANGED <<offerVars, rr, identity, offerQ, regQ, offerJob, regJob, chainVars, url, unowned, hostVars, left>>

PublishForIdentity ==
    /\ idJob.pc = "publish"
    /\ doc' = idJob.doc /\ idJob' = Idle
    /\ UNCHANGED <<offerVars, rr, identity, queueVars, offerJob, regJob, chainVars, url, unowned, hostVars, left>>

----------------------------------------------------------------------------
\* obol sell register.

\* ensureAgentIdentity: load, or create it seeded from the offers' status.
StartRegister(c) ==
    /\ cli = Idle /\ replay # "pending" /\ Event
    /\ LET regs == IF identity.exists THEN identity.reg ELSE SeedByCLI
       IN  /\ cli' = [pc |-> IF regs[c] # None THEN "existing" ELSE "recover",
                      chain |-> c, uri |-> url, regs |-> regs, attempt |-> 1,
                      start |-> Len(tokens), sent |-> FALSE, got |-> None, minted |-> 0]
           /\ identity' = [exists |-> TRUE, reg |-> regs]
           /\ record' = IF identity.exists THEN record ELSE regs
           /\ idQ' = (idQ \/ ~identity.exists)
    /\ UNCHANGED <<offerVars, rr, doc, offerQ, regQ, jobVars, chainVars, url, unowned, replay>>

\* The chain has an agent: the signer must control it, and its URI is brought up
\* to date.
UpdateURI ==
    /\ cli.pc = "existing"
    /\ LET id == cli.regs[cli.chain]
       IN  /\ tokens' = IF tokens[id].owner = "signer" THEN [tokens EXCEPT ![id].uri = cli.uri]
                        ELSE tokens
           /\ cli' = IF tokens[id].owner = "signer" THEN [cli EXCEPT !.pc = "enable"] ELSE Idle
    /\ UNCHANGED <<offerVars, rr, identity, doc, queueVars, jobVars, pool, url, unowned, record, replay, left>>

\* recoverRegistrationByOwnerAndURI, from genesis before a mint, and from the
\* block of the mint when a submission failed.  Four failed lookups count as
\* "not found".
AdoptFound(id) ==
    cli' = [cli EXCEPT !.pc = "persist", !.regs = Upsert(cli.regs, cli.chain, id)]
RecoverBeforeMint ==
    /\ cli.pc = "recover"
    /\ LET found == FindByOwnerAndURI(cli.chain, cli.uri, 0)
       IN  \/ \E id \in found : AdoptFound(id)
           \/ cli' = [cli EXCEPT !.pc = "mint"] \* none, or the lookups failed
    /\ UNCHANGED <<offerVars, rr, identity, doc, queueVars, jobVars, chainVars, url, unowned, record,
                   replay, left>>

\* Mutant: the pending nonce is read again for every submission.
BroadcastUnpinned ==
    IF Len(tokens) + Len(pool) = MaxTokens THEN UNCHANGED pool
    ELSE pool' = Append(pool, [chain |-> cli.chain, uri |-> cli.uri, run |-> TRUE])

\* RegisterWithOptsDetailed with the nonce read once: a second submission is the
\* transaction the node already has, and broadcasts nothing.
Broadcast ==
    IF cli.sent \/ Len(tokens) + Len(pool) = MaxTokens THEN UNCHANGED pool
    ELSE pool' = Append(pool, [chain |-> cli.chain, uri |-> cli.uri, run |-> TRUE])
SubmitRegister ==
    /\ cli.pc = "mint"
    /\ Broadcast
    /\ cli' = [cli EXCEPT !.pc = "wait", !.sent = TRUE, !.start = Len(tokens)]
    /\ UNCHANGED <<offerVars, rr, identity, doc, queueVars, jobVars, tokens, url, unowned, record, replay, left>>

Mine ==
    /\ pool # <<>>
    /\ tokens' = Append(tokens, [chain |-> Head(pool).chain, owner |-> "signer", uri |-> Head(pool).uri])
    /\ pool' = Tail(pool)
    /\ cli' = IF Head(pool).run
              THEN [cli EXCEPT !.minted = @ + 1, !.got = Len(tokens) + 1]
              ELSE cli
    /\ UNCHANGED <<offerVars, rr, identity, doc, queueVars, jobVars, url, unowned, record, replay, left>>

MintAnswered ==
    /\ cli.pc = "wait" /\ cli.got # None
    /\ AdoptFound(cli.got)
    /\ UNCHANGED <<offerVars, rr, identity, doc, queueVars, jobVars, chainVars, url, unowned, record, replay, left>>

\* The submission or the wait for its receipt fails: recover, retry a transient
\* error up to three times, or give up with the transaction possibly still pending.
Leave == [i \in 1..Len(pool) |-> [pool[i] EXCEPT !.run = FALSE]]
RegisterFails ==
    /\ cli.pc = "wait"
    /\ LET found == FindByOwnerAndURI(cli.chain, cli.uri, cli.start)
       IN  \/ UNCHANGED pool /\ \E id \in found : AdoptFound(id)
           \/ /\ found = {} /\ cli.attempt < 3 /\ UNCHANGED pool
              /\ cli' = [cli EXCEPT !.pc = "mint", !.attempt = @ + 1]
           \/ found = {} /\ cli' = Idle /\ pool' = Leave
    /\ UNCHANGED <<offerVars, rr, identity, doc, queueVars, jobVars, tokens, url, unowned, record, replay, left>>

\* applyAgentIdentity patches the whole list as it was read, with the new id, and
\* mirrors it to the host.
PersistIdentity ==
    /\ cli.pc = "persist"
    /\ identity' = [exists |-> TRUE, reg |-> cli.regs]
    /\ record' = cli.regs
    /\ idQ' = TRUE
    /\ cli' = [cli EXCEPT !.pc = "enable"]
    /\ UNCHANGED <<offerVars, rr, doc, offerQ, regQ, jobVars, chainVars, url, unowned, replay, left>>

PersistFails ==
    /\ cli.pc = "persist"
    /\ cli' = Idle /\ pool' = Leave
    /\ UNCHANGED <<offerVars, rr, identity, doc, queueVars, jobVars, tokens, url, unowned, record, replay, left>>

\* enableRegistrationOnOffers: the offers of that network created without
\* registration are enabled.
EnableOffers ==
    /\ cli.pc = "enable"
    /\ LET off == {o \in Offers : /\ offer[o].phase = "live" /\ ~offer[o].enabled
                                  /\ offer[o].net = cli.chain}
       IN  /\ offer' = [o \in Offers |-> IF o \in off THEN [offer[o] EXCEPT !.enabled = TRUE]
                                         ELSE offer[o]]
           /\ news' = news \cup off
    /\ cli' = Idle /\ pool' = Leave
    /\ UNCHANGED <<seen, rr, identity, doc, queueVars, jobVars, tokens, url, unowned, record, replay, left>>

\* obol sell identity import: an agent of the signer, never over another one.
ImportIdentity(c, id) ==
    /\ cli = Idle /\ replay # "pending" /\ Event
    /\ id <= Len(tokens) /\ tokens[id].chain = c /\ tokens[id].owner = "signer"
    /\ LET regs == IF identity.exists THEN identity.reg ELSE NoRegs
       IN  /\ regs[c] \in {None, id}
           /\ identity' = [exists |-> TRUE, reg |-> Upsert(regs, c, id)]
           /\ record' = Upsert(regs, c, id)
    /\ idQ' = TRUE
    /\ UNCHANGED <<offerVars, rr, doc, offerQ, regQ, jobVars, chainVars, url, unowned, cli, replay>>

\* obol sell identity forget.
ForgetIdentity(c) ==
    /\ cli = Idle /\ replay # "pending" /\ Event /\ identity.exists /\ identity.reg[c] # None
    /\ identity' = [identity EXCEPT !.reg[c] = None]
    /\ record' = identity'.reg
    /\ idQ' = TRUE
    /\ UNCHANGED <<offerVars, rr, doc, offerQ, regQ, jobVars, chainVars, url, unowned, cli, replay>>

----------------------------------------------------------------------------
\* Users, the chain, the tunnel, and a cluster that is created anew.

CreateOffer(o) ==
    /\ offer[o].phase = "absent" /\ replay # "pending" /\ Event
    /\ offer' = [offer EXCEPT ![o] = [Absent EXCEPT !.phase = "live", !.enabled = o \in Enabled]]
    /\ Changed(o)
    /\ UNCHANGED <<seen, rr, identity, doc, queueVars, jobVars, chainVars, url, unowned, hostVars>>

DeleteOffer(o) ==
    /\ offer[o].phase = "live" /\ Event
    /\ offer' = [offer EXCEPT ![o].phase = "deleting"] /\ Changed(o)
    /\ UNCHANGED <<seen, rr, identity, doc, queueVars, jobVars, chainVars, url, unowned, hostVars>>

EditOffer(o) ==
    /\ offer[o].phase = "live" /\ Event
    /\ \/ offer' = [offer EXCEPT ![o].enabled = ~@]
       \/ \E c \in Chains \ {offer[o].net} : offer' = [offer EXCEPT ![o].net = c]
    /\ Changed(o)
    /\ UNCHANGED <<seen, rr, identity, doc, queueVars, jobVars, chainVars, url, unowned, hostVars>>

TransferToken(id) ==
    /\ id <= Len(tokens) /\ tokens[id].owner = "signer" /\ Event
    /\ tokens' = [tokens EXCEPT ![id].owner = "other"]
    /\ UNCHANGED <<offerVars, rr, identity, doc, queueVars, jobVars, pool, url, unowned, hostVars>>

\* The tunnel moves: enqueueDiscoveryRefresh enqueues everything.
MoveOrigin ==
    /\ Event /\ url' \in URLs \ {url}
    /\ offerQ' = offerQ \cup {o \in Offers : seen[o].phase # "absent"}
    /\ regQ' = regQ \cup {o \in Offers : rr[o] # NoRR}
    /\ idQ' = TRUE
    /\ UNCHANGED <<offerVars, rr, identity, doc, jobVars, chainVars, unowned, hostVars>>

\* etcd is lost: only the host record and the chain remain.
RecreateCluster ==
    /\ cli = Idle /\ Event
    /\ offer' = [o \in Offers |-> Absent] /\ seen' = offer' /\ news' = {}
    /\ rr' = [o \in Offers |-> NoRR]
    /\ identity' = NoIdentity /\ doc' = NoDoc
    /\ offerQ' = {} /\ regQ' = {} /\ idQ' = FALSE
    /\ offerJob' = Idle /\ regJob' = Idle /\ idJob' = Idle
    /\ replay' = "pending" /\ unowned' = {}
    /\ UNCHANGED <<chainVars, url, cli, record>>

\* Mutant: the cluster always wins.
ReconcileClusterWins ==
    /\ replay = "pending" /\ cli = Idle
    /\ record' = identity.reg
    /\ idQ' = TRUE /\ replay' = "done"
    /\ UNCHANGED <<offerVars, rr, identity, doc, offerQ, regQ, jobVars, chainVars, url, unowned, cli, left>>

\* agentidentity.ReconcileOne, before the offers are put back; a failed step is
\* a warning.
ReconcileRecord ==
    /\ replay = "pending" /\ cli = Idle
    /\ IF identity.reg = NoRegs
       THEN identity' = [exists |-> TRUE, reg |-> record] /\ UNCHANGED record
       ELSE record' = identity.reg /\ UNCHANGED identity
    /\ idQ' = TRUE /\ replay' = "done"
    /\ UNCHANGED <<offerVars, rr, doc, offerQ, regQ, jobVars, chainVars, url, unowned, cli, left>>

ReplayFails ==
    /\ replay = "pending" /\ Event
    /\ replay' = "failed"
    /\ UNCHANGED <<offerVars, rr, identity, doc, queueVars, jobVars, chainVars, url, unowned, cli, record>>

\* agentidentity.MirrorAll, run by obol stack export.
MirrorRecord ==
    /\ cli = Idle /\ replay # "pending" /\ Event /\ identity.exists
    /\ record' = identity.reg
    /\ UNCHANGED <<offerVars, rr, identity, doc, queueVars, jobVars, chainVars, url, unowned, cli, replay>>

OfferStep == WriteOfferStatus \/ \E o \in Offers :
    ReconcileOffer(o) \/ OfferIsGone(o) \/ HandOver(o) \/ AskTombstone(o) \/ FinishDelete(o)
RequestStep == GetOffer \/ OrphanHandedOver \/ OrphanTombstoned
    \/ WriteTombstone \/ AnchorRecovery \/ SettleActive
IdentityStep == EnsureIdentity \/ ListForIdentity \/ PublishForIdentity
CliStep == UpdateURI \/ RecoverBeforeMint \/ SubmitRegister \/ MintAnswered
    \/ RegisterFails \/ PersistIdentity \/ EnableOffers

Next ==
    \/ OfferStep \/ RequestStep \/ IdentityStep \/ CliStep
    \/ \E o \in Offers : OfferEvent(o) \/ GetRequest(o) \/ CreateOffer(o) \/ DeleteOffer(o) \/ EditOffer(o)
    \/ \E c \in Chains : StartRegister(c) \/ ForgetIdentity(c) \/ \E i \in Ids : ImportIdentity(c, i)
    \/ \E i \in Ids : TransferToken(i)
    \/ Mine \/ AwaitResources \/ PersistFails
    \/ MoveOrigin \/ RecreateCluster \/ ReconcileRecord \/ ReplayFails \/ MirrorRecord

Spec == Init /\ [][Next]_vars

FairSpec ==
    /\ Spec
    /\ WF_vars(OfferStep) /\ WF_vars(RequestStep) /\ WF_vars(IdentityStep)
    /\ WF_vars(CliStep) /\ WF_vars(Mine) /\ WF_vars(ReconcileRecord)
    /\ \A o \in Offers : WF_vars(OfferEvent(o)) /\ SF_vars(GetRequest(o))

----------------------------------------------------------------------------
\* Properties.

\* One obol sell register mints at most one agent, however often its submission
\* times out and is retried: the nonce is read once (registerDirectViaSigner).
OneMintPerRun == cli # Idle => cli.minted <= 1

\* What the host record holds for a chain is dropped only by identity forget, as
\* long as every recreated cluster was replayed (agentidentity: "the single
\* source of truth across recreation").
RecordSurvives ==
    [][replay # "failed" =>
         \A c \in Chains : record[c] # None /\ record'[c] = None => ForgetIdentity(c)]_vars

\* An offer that is being deleted goes, whoever owns the registration and
\* however stale the informer's store is.
DeletionCompletes == \A o \in Offers : offer[o].phase = "deleting" ~> offer[o].phase # "deleting"

\* Nothing is queued, running or under way.
Quiet == news = {} /\ offerQ = {} /\ regQ = {} /\ ~idQ /\ offerJob = Idle /\ regJob = Idle /\ idJob = Idle
Published == {o \in Offers : PublishedForRegistration(offer[o])}

\* Once the controller is quiet no published offer is missing from the document,
\* though tombstones, hand-overs and two workers overwrite each other's versions.
\* Not so an offer whose last status write enqueued an owner without a request,
\* for another offer owned the registration just then: nobody publishes again.
PublishedIsAdvertised == Quiet => Published \ unowned \subseteq doc.services

\* The identity, its requests and its document, at every step.
RegistrationInv == TypeOK /\ PublishedIsAdvertised

\* An agent the seller minted for the current document is found on the chain and
\* recorded, when the mint's own answer was lost (recoverRegistration).
Recoverable(o) ==
    /\ offer[o].phase = "live" /\ offer[o].enabled /\ RegistrationOwner = {o}
    /\ rr[o] # NoRR /\ rr[o].uri = url /\ rr[o].tx = None /\ rr[o].chain = offer[o].net
    /\ o \notin ColdPayee /\ identity.exists /\ ~offer[o].registered
    /\ Matching(offer[o].net, url, rr[o].from) # {}
LostMintIsRecovered ==
    \A o \in Offers : Recoverable(o) ~> ~Recoverable(o) \/ identity.reg[offer[o].net] # None

\* What the controller owes a registration in the end, with the informers
\* delivering and the chain mining (reconcileDeletingRegistration,
\* recoverRegistration).
RegistrationConverges == DeletionCompletes /\ LostMintIsRecovered
=============================================================================
