----------------------------- MODULE SellLedger -----------------------------
(***************************************************************************)
(* The seller's commands (cmd/obol sell) and the ledger they keep on the   *)
(* host: ServiceOffers live in a cluster that can be recreated, and the    *)
(* manifests recorded beside the configuration bring them back.  kubectl's *)
(* three-way merge and the API server are external.                        *)
(***************************************************************************)
EXTENDS Integers, FiniteSets

CONSTANTS SoldOffers,      \* namespace/name of an offer
          PlainOffers,     \* those sold by sell http; the others come with a bundle
          Paths,           \* public paths
          NoOffer,         \* no object, no record, nothing asked
          ByAgent,         \* an offer no operator asked for
          MaxSellCmds, MaxSellFaults

Manifests == [req : 0..2, mtok : 0..2, drain : BOOLEAN, path : Paths]
Entries == [offer : Manifests, bundle : BOOLEAN]

\* An offer is its own default path; no record is one of the two marks.
ASSUME SellAssumption ==
    /\ PlainOffers \subseteq SoldOffers /\ SoldOffers \subseteq Paths /\ Paths \subseteq Nat
    /\ {MaxSellCmds, MaxSellFaults} \subseteq Nat
    /\ NoOffer \notin Manifests \cup Entries /\ ByAgent \notin Manifests \cup {NoOffer}

VARIABLES offerAt,      \* the live ServiceOffer
          ownedBy,      \* its last-applied-configuration
          backing,      \* offers whose namespace (and demo backend) exists
          ledger,       \* the record: [offer, bundle]
          demos,        \* bundled offers of a demo backend; the others' are agents'
          legacy,       \* offers with an inference descriptor of an old release
          asked,        \* what the operator last asked, NoOffer if it is to be gone
          sellCmd, sellFaults, sellCmds,
          unsure,       \* offers whose last command was cut or could not record
          resumed       \* the last command replayed the whole ledger

liveVars == <<offerAt, ownedBy, backing>>
sellCounts == <<sellFaults, sellCmds>>
sellVars == <<liveVars, ledger, demos, legacy, asked, sellCmd, sellCounts, unsure, resumed>>

Terms == {"req", "mtok"}
Manifest(o, terms, amount, path) ==
    [req |-> IF terms = "req" THEN amount ELSE 0, mtok |-> IF terms = "mtok" THEN amount ELSE 0,
     drain |-> FALSE, path |-> path]

SellIdle == [pc |-> "idle"]
SellBegin(c) ==
    sellCmd = SellIdle /\ sellCmds < MaxSellCmds /\ sellCmds' = sellCmds + 1 /\ sellCmd' = c /\ resumed' = FALSE
SellFault == sellFaults < MaxSellFaults /\ sellFaults' = sellFaults + 1
Live(o) == offerAt[o] # NoOffer

----------------------------------------------------------------------------
\* Operators of the commands.

\* A field of a three-way merge: the manifest's, else gone if the last applied
\* manifest had it, else what others wrote.
Merged(new, old, now, none) == IF new # none THEN new ELSE IF old # none THEN none ELSE now

\* kubectl apply -f -: an offer that is live is merged, any other is created.
KubectlApply(o, m) ==
    IF ~Live(o) THEN m
    ELSE LET own(f) == IF ownedBy[o] = NoOffer THEN 0 ELSE ownedBy[o][f] IN
         [req |-> Merged(m.req, own("req"), offerAt[o].req, 0),
          mtok |-> Merged(m.mtok, own("mtok"), offerAt[o].mtok, 0),
          drain |-> Merged(m.drain, IF ownedBy[o] = NoOffer THEN FALSE ELSE ownedBy[o].drain, offerAt[o].drain, FALSE),
          path |-> m.path]

\* offerPathCollisionInList: another live offer at the path.
OfferPathCollision(o, path) == \E p \in SoldOffers \ {o} : Live(p) /\ offerAt[p].path = path

\* buildSellUpdatePatch: the other price keys are nulled.
BuildSellUpdatePatch(now, terms, amount) ==
    [now EXCEPT !.req = IF terms = "req" THEN amount ELSE 0, !.mtok = IF terms = "mtok" THEN amount ELSE 0]

\* persistServiceOffer: a temporary file, then a rename.
Record(o, m, bundle) == ledger' = [ledger EXCEPT ![o] = [offer |-> m, bundle |-> bundle]]

\* Mutant: the manifest recorded before is kept.
RefreshedStale(o) ==
    IF ledger[o] # NoOffer THEN ledger[o] ELSE [offer |-> offerAt[o], bundle |-> FALSE]

\* refreshPersistedServiceOffer: the live offer, in the place of the one of the
\* bundle; an offer never recorded is adopted.
Refreshed(o) == [offer |-> offerAt[o], bundle |-> ledger[o] # NoOffer /\ ledger[o].bundle]

\* What was asked of one offer, and whether the record follows.
Ask(o, w) == asked' = [asked EXCEPT ![o] = w]
Sure(o) == unsure' = unsure \ {o}
Unsure(o) == unsure' = unsure \cup {o}

----------------------------------------------------------------------------
\* obol sell http, sell agent and sell demo.

\* resolvePriceTable: one key, a positive amount.
PriceTables == Terms \X {1, 2}

\* Flags, wallet and prices are resolved and a registered offer waits for the
\* tunnel: none of it changes an offer.
Sells(o, price, path) ==
    /\ SellBegin([pc |-> "apply", name |-> "sell", o |-> o, m |-> Manifest(o, price[1], price[2], path)])
    /\ UNCHANGED <<offerAt, ownedBy, ledger, demos, legacy, asked, sellFaults, unsure>>

SellHTTPOffer ==
    \E o \in PlainOffers, price \in PriceTables, p \in Paths : Sells(o, price, p) /\ UNCHANGED backing

\* The agent, and with it its namespace, is there or is declared first.
SellAgentOffer ==
    \E o \in SoldOffers \ (PlainOffers \cup demos), price \in {"req"} \X {1, 2} :
        Sells(o, price, o) /\ backing' = backing \cup {o}

\* The namespace, the Deployment and the Service of a demo.
DeployDemoBackend(o) == backing' = backing \cup {o}

SellDemo == \E o \in demos, price \in {"req"} \X {1, 2} : Sells(o, price, o) /\ DeployDemoBackend(o)

\* What is recorded with the offer: a List of it and of what it stands on.
Bundled(o) == o \notin PlainOffers

\* preflightOfferPathCollision: of sell http and sell agent, not of a demo.
PreflightFails(o, path) == o \notin demos /\ OfferPathCollision(o, path)

\* The path is checked against the live offers, then the manifest is applied.
ApplyManifest ==
    /\ sellCmd.pc = "apply"
    /\ IF PreflightFails(sellCmd.o, sellCmd.m.path)
       THEN sellCmd' = SellIdle /\ UNCHANGED <<offerAt, ownedBy, asked, unsure>>
       ELSE /\ offerAt' = [offerAt EXCEPT ![sellCmd.o] = KubectlApply(sellCmd.o, sellCmd.m)]
            /\ ownedBy' = [ownedBy EXCEPT ![sellCmd.o] = sellCmd.m]
            /\ Ask(sellCmd.o, sellCmd.m) /\ Unsure(sellCmd.o)
            /\ sellCmd' = [sellCmd EXCEPT !.pc = "persist"]
    /\ UNCHANGED <<backing, ledger, demos, legacy, sellCounts, resumed>>

\* A record that fails is a warning: the offer is live.
PersistServiceOffer ==
    /\ sellCmd.pc = "persist" /\ sellCmd' = SellIdle
    /\ \/ Record(sellCmd.o, sellCmd.m, Bundled(sellCmd.o)) /\ Sure(sellCmd.o) /\ UNCHANGED sellFaults
       \/ SellFault /\ UNCHANGED <<ledger, unsure>>
    /\ UNCHANGED <<liveVars, demos, legacy, asked, sellCmds, resumed>>

----------------------------------------------------------------------------
\* obol sell stop and sell update: a merge patch, then the record follows the
\* live offer.

PatchOffer(o, m, w) ==
    /\ offerAt' = [offerAt EXCEPT ![o] = m] /\ Ask(o, w) /\ Unsure(o)
    /\ SellBegin([pc |-> "refresh", name |-> "patch", o |-> o, was |-> o \in unsure])
    /\ UNCHANGED <<ownedBy, backing, ledger, demos, legacy, sellFaults>>

\* What no record held is adopted without a bundle: one that needs it stays unsure.
\* A patch asks its change of what was asked, or of the offer as it is found.
AskedOf(o) == IF o \in unsure \/ asked[o] \in {NoOffer, ByAgent} THEN offerAt[o] ELSE asked[o]

SellStop ==
    \E o \in SoldOffers :
        Live(o) /\ PatchOffer(o, [offerAt[o] EXCEPT !.drain = TRUE], [AskedOf(o) EXCEPT !.drain = TRUE])

SellUpdate ==
    \E o \in SoldOffers, t \in Terms, a \in {1, 2} :
        /\ Live(o)
        /\ PatchOffer(o, BuildSellUpdatePatch(offerAt[o], t, a), BuildSellUpdatePatch(AskedOf(o), t, a))

RefreshPersistedServiceOffer ==
    /\ sellCmd.pc = "refresh" /\ sellCmd' = SellIdle
    /\ \/ /\ ledger' = [ledger EXCEPT ![sellCmd.o] = Refreshed(sellCmd.o)] /\ UNCHANGED sellFaults
          /\ IF sellCmd.o \in PlainOffers \/ ~sellCmd.was THEN Sure(sellCmd.o) ELSE UNCHANGED unsure
       \/ SellFault /\ UNCHANGED <<ledger, unsure>>
    /\ UNCHANGED <<liveVars, demos, legacy, asked, sellCmds, resumed>>

----------------------------------------------------------------------------
\* obol sell delete, and the offers of an agent that is deleted.

ClusterDelete(o) ==
    /\ SellBegin([pc |-> "forget", name |-> "delete", o |-> o])
    /\ offerAt' = [offerAt EXCEPT ![o] = NoOffer] /\ ownedBy' = [ownedBy EXCEPT ![o] = NoOffer]
    /\ Ask(o, NoOffer) /\ Unsure(o)
    /\ UNCHANGED <<backing, ledger, demos, legacy, sellFaults>>

\* An offer that is not there fails the command, a legacy descriptor's does not.
SellDelete == \E o \in SoldOffers : (Live(o) \/ o \in legacy) /\ ClusterDelete(o)

\* obol agent delete takes the agent's offers, and what was recorded of them.
AgentDelete == \E o \in backing \ (PlainOffers \cup demos) : ClusterDelete(o)

RemovePersisted == [ledger EXCEPT ![sellCmd.o] = NoOffer]

\* The record, then the legacy descriptor's tombstone; cleanupDemoBackend.
RemovePersistedServiceOffer ==
    /\ sellCmd.pc = "forget" /\ sellCmd' = SellIdle
    /\ \/ ledger' = RemovePersisted /\ Sure(sellCmd.o) /\ UNCHANGED sellFaults
       \/ SellFault /\ UNCHANGED <<ledger, unsure>>
    /\ legacy' = legacy \ {sellCmd.o}
    /\ backing' = backing \ ({sellCmd.o} \cap demos)
    /\ UNCHANGED <<offerAt, ownedBy, demos, asked, sellCmds, resumed>>

\* An agent applies a manifest of its own, which no record holds.
AgentAppliesOffer ==
    \E o \in PlainOffers :
        /\ ~Live(o) /\ ledger[o] = NoOffer
        /\ SellBegin(SellIdle)
        /\ offerAt' = [offerAt EXCEPT ![o] = Manifest(o, "req", 2, o)]
        /\ ownedBy' = [ownedBy EXCEPT ![o] = Manifest(o, "req", 2, o)]
        /\ Ask(o, ByAgent)
        /\ UNCHANGED <<backing, ledger, demos, legacy, sellFaults, unsure>>

----------------------------------------------------------------------------
\* obol stack up over a new cluster, and obol sell resume.

RecreateAndUp ==
    /\ SellBegin([pc |-> "resume", name |-> "up"]) /\ SellFault
    /\ offerAt' = [o \in SoldOffers |-> NoOffer] /\ ownedBy' = [o \in SoldOffers |-> NoOffer]
    /\ backing' = PlainOffers
    /\ asked' = [o \in SoldOffers |-> IF asked[o] = ByAgent THEN NoOffer ELSE asked[o]]
    /\ UNCHANGED <<ledger, demos, legacy, unsure>>

SellResume ==
    /\ SellBegin([pc |-> "resume", name |-> "resume"])
    /\ UNCHANGED <<liveVars, ledger, demos, legacy, asked, sellFaults, unsure>>

\* loadPersistedServiceOffers: the entries that can be read.
Recorded == {o \in SoldOffers : ledger[o] # NoOffer}

\* A bundle brings its namespace; a bare manifest needs it.
Appliable(o) == ledger[o].bundle \/ o \in backing

\* resumePersistedServiceOffers: each entry is applied, a failure is listed.
ResumeSellOffers ==
    /\ sellCmd.pc = "resume" /\ sellCmd' = SellIdle
    /\ \E bad \in SUBSET Recorded :
        LET done == {o \in Recorded \ bad : Appliable(o)} IN
        /\ IF bad = {} THEN UNCHANGED sellFaults ELSE SellFault
        /\ offerAt' = [o \in SoldOffers |-> IF o \in done THEN KubectlApply(o, ledger[o].offer) ELSE offerAt[o]]
        /\ ownedBy' = [o \in SoldOffers |-> IF o \in done THEN ledger[o].offer ELSE ownedBy[o]]
        /\ backing' = backing \cup done
        /\ resumed' = (bad = {})
    /\ UNCHANGED <<ledger, demos, legacy, asked, sellCmds, unsure>>

\* The terminal is closed between two steps.
SellCut ==
    /\ sellCmd # SellIdle /\ SellFault /\ sellCmd' = SellIdle
    /\ UNCHANGED <<liveVars, ledger, demos, legacy, asked, sellCmds, unsure, resumed>>

SellInit ==
    /\ offerAt = [o \in SoldOffers |-> NoOffer] /\ ownedBy = [o \in SoldOffers |-> NoOffer]
    /\ demos \in SUBSET (SoldOffers \ PlainOffers)
    /\ backing = PlainOffers /\ ledger = [o \in SoldOffers |-> NoOffer]
    /\ legacy \in {{}, PlainOffers} /\ asked = [o \in SoldOffers |-> NoOffer]
    /\ sellCmd = SellIdle /\ sellFaults = 0 /\ sellCmds = 0 /\ unsure = {} /\ resumed = FALSE

SellNext ==
    \/ SellHTTPOffer \/ SellAgentOffer \/ SellDemo \/ ApplyManifest \/ PersistServiceOffer
    \/ SellStop \/ SellUpdate \/ RefreshPersistedServiceOffer
    \/ SellDelete \/ AgentDelete \/ RemovePersistedServiceOffer \/ AgentAppliesOffer
    \/ RecreateAndUp \/ SellResume \/ ResumeSellOffers \/ SellCut

SellSpec == SellInit /\ [][SellNext]_sellVars

----------------------------------------------------------------------------
SellCommands ==
    {SellIdle} \cup [pc : {"apply", "persist"}, name : {"sell"}, o : SoldOffers, m : Manifests]
    \cup [pc : {"refresh"}, name : {"patch"}, o : SoldOffers, was : BOOLEAN]
    \cup [pc : {"forget"}, name : {"delete"}, o : SoldOffers]
    \cup [pc : {"resume"}, name : {"up", "resume"}]

\* The values of the state; an offer is live in a namespace that exists.
SellTypeOK ==
    /\ offerAt \in [SoldOffers -> Manifests \cup {NoOffer}]
    /\ ownedBy \in [SoldOffers -> Manifests \cup {NoOffer}]
    /\ ledger \in [SoldOffers -> Entries \cup {NoOffer}]
    /\ asked \in [SoldOffers -> Manifests \cup {NoOffer, ByAgent}]
    /\ sellCmd \in SellCommands
    /\ {backing, legacy, unsure} \subseteq SUBSET SoldOffers
    /\ demos \subseteq SoldOffers \ PlainOffers /\ resumed \in BOOLEAN
    /\ \A o \in SoldOffers : Live(o) => o \in backing

ByOperator(o) == asked[o] # NoOffer /\ asked[o] # ByAgent
AskedTerms(o) == IF asked[o].req # 0 THEN "req" ELSE "mtok"

(***************************************************************************)
(* No replay, over the same cluster or a new one, undoes what an operator  *)
(* did: a deleted offer does not return, a stopped one does not come back  *)
(* live, the terms last asked are there and not those before them          *)
(* (sell.go:2741-2758, 2921-2928, 3019-3023).                              *)
(***************************************************************************)
ResumeKeepsTheOperatorsWord ==
    sellCmd = SellIdle =>
        \A o \in SoldOffers \ unsure : Live(o) =>
            /\ asked[o] # NoOffer
            /\ ByOperator(o) => /\ offerAt[o][AskedTerms(o)] = asked[o][AskedTerms(o)]
                                /\ asked[o].drain => offerAt[o].drain

(***************************************************************************)
(* A replay none of whose applies failed brings back every offer the       *)
(* operator has, with the namespace and the backend it needs, also one     *)
(* changed since it was sold (sell.go:4922-4935, sell_agent.go:706-716).   *)
(***************************************************************************)
ResumeBringsAllBack ==
    resumed => \A o \in SoldOffers \ unsure : ByOperator(o) => Live(o)

(***************************************************************************)
(* What is checked of the sell commands and the ledger replayed at stack   *)
(* up (sell.go, sell_agent.go).                                            *)
(***************************************************************************)
SellInv ==
    /\ SellTypeOK
    /\ ResumeKeepsTheOperatorsWord
    /\ ResumeBringsAllBack
=============================================================================
