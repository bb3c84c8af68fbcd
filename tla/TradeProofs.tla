----------------------------- MODULE TradeProofs -----------------------------
(***************************************************************************)
(* Proofs about what the CLI sells and how it is reached: SellLedger,      *)
(* SellerRecords, RPCRouting and PublicTunnel, for every set of offers,    *)
(* paths, purchases, routes and hosts, and any number of commands and      *)
(* failures.                                                               *)
(***************************************************************************)
EXTENDS SellLedger, SellerRecords, RPCRouting, PublicTunnel, SequenceTheorems, TLAPS

-----------------------------------------------------------------------------
(* The ledger of the offers *)

\* A manifest charges something.
Priced(m) == m.req # 0 \/ m.mtok # 0

\* A manifest has the terms of what was asked, and drains if that drains.
Says(m, w) ==
    /\ IF w.req # 0 THEN m.req = w.req ELSE m.mtok = w.mtok
    /\ w.drain => m.drain

EverPriced ==
    \A o \in SoldOffers :
        /\ Live(o) => Priced(offerAt[o])
        /\ ledger[o] # NoOffer => Priced(ledger[o].offer)
        /\ ByOperator(o) => Priced(asked[o])

\* A record that a replay can apply over a new cluster.
Standing(o) == ledger[o] # NoOffer /\ (o \in PlainOffers \/ ledger[o].bundle)

\* Where the last command was recorded, record and cluster say what was asked.
LedgerFollows ==
    \A o \in SoldOffers \ unsure :
        /\ asked[o] = NoOffer => ~Live(o)
        /\ ~ByOperator(o) => ledger[o] = NoOffer
        /\ ByOperator(o) => /\ Standing(o) /\ Says(ledger[o].offer, asked[o])
                            /\ Live(o) => Says(offerAt[o], asked[o])

\* What a command under way has done so far.
ApplyUnderWay ==
    sellCmd.pc = "apply" => Priced(sellCmd.m) /\ sellCmd.o \in backing /\ ~sellCmd.m.drain
PersistUnderWay ==
    sellCmd.pc = "persist" => /\ Priced(sellCmd.m) /\ sellCmd.o \in unsure
                              /\ asked[sellCmd.o] = sellCmd.m
                              /\ Says(offerAt[sellCmd.o], sellCmd.m)
RefreshUnderWay ==
    sellCmd.pc = "refresh" => /\ ByOperator(sellCmd.o) /\ Live(sellCmd.o) /\ sellCmd.o \in unsure
                              /\ Says(offerAt[sellCmd.o], asked[sellCmd.o])
                              /\ ~sellCmd.was => sellCmd.o \in PlainOffers \/ Standing(sellCmd.o)
ForgetUnderWay ==
    sellCmd.pc = "forget" => asked[sellCmd.o] = NoOffer /\ sellCmd.o \in unsure /\ ~Live(sellCmd.o)
UnderWay == ApplyUnderWay /\ PersistUnderWay /\ RefreshUnderWay /\ ForgetUnderWay

Standings ==
    /\ PlainOffers \subseteq backing
    /\ resumed => sellCmd = SellIdle
    /\ \A o \in SoldOffers : asked[o] = ByAgent => o \in PlainOffers

SellIInv ==
    SellTypeOK /\ Standings /\ EverPriced /\ LedgerFollows /\ UnderWay /\ ResumeBringsAllBack

USE DEF sellVars, liveVars, sellCounts

LEMMA Marks ==
    /\ \A m \in Manifests : m # NoOffer /\ m # ByAgent
    /\ \A e \in Entries : e # NoOffer
    /\ ByAgent # NoOffer
BY SellAssumption

LEMMA CommandParts ==
    ASSUME SellTypeOK
    PROVE  /\ sellCmd.pc \in {"idle", "apply", "persist", "refresh", "forget", "resume"}
           /\ sellCmd.pc = "idle" <=> sellCmd = SellIdle
           /\ sellCmd.pc \in {"apply", "persist"} =>
                /\ sellCmd \in [pc : {"apply", "persist"}, name : {"sell"}, o : SoldOffers, m : Manifests]
                /\ sellCmd.o \in SoldOffers /\ sellCmd.m \in Manifests
           /\ sellCmd.pc = "refresh" => sellCmd.o \in SoldOffers /\ sellCmd.was \in BOOLEAN
           /\ sellCmd.pc = "forget" => sellCmd.o \in SoldOffers
BY DEF SellTypeOK, SellCommands, SellIdle

\* kubectl apply gives a manifest, and what the applied one says.
LEMMA AppliedSays ==
    ASSUME SellTypeOK, NEW o \in SoldOffers, NEW m \in Manifests, Priced(m)
    PROVE  /\ KubectlApply(o, m) \in Manifests /\ Priced(KubectlApply(o, m))
           /\ \A w \in Manifests : Priced(w) /\ Says(m, w) => Says(KubectlApply(o, m), w)
<1>1. CASE ~Live(o)
  BY <1>1 DEF KubectlApply
<1>2. CASE Live(o)
  <2>1. offerAt[o] \in Manifests /\ (ownedBy[o] = NoOffer \/ ownedBy[o] \in Manifests)
    BY <1>2 DEF SellTypeOK, Live
  <2> DEFINE k == KubectlApply(o, m)
  <2>2. k \in Manifests
    BY <1>2, <2>1 DEF KubectlApply, Merged, Manifests
  <2>3. m.req # 0 => k.req = m.req
    BY <1>2 DEF KubectlApply, Merged
  <2>4. m.mtok # 0 => k.mtok = m.mtok
    BY <1>2 DEF KubectlApply, Merged
  <2>5. m.drain => k.drain
    BY <1>2 DEF KubectlApply, Merged, Manifests
  <2> QED BY <2>2, <2>3, <2>4, <2>5 DEF Priced, Says
<1> QED BY <1>1, <1>2

LEMMA PatchManifest ==
    ASSUME NEW m \in Manifests, NEW t \in Terms, NEW a \in {1, 2}
    PROVE  BuildSellUpdatePatch(m, t, a) \in Manifests
<1>1. a \in 0..2 /\ 0 \in 0..2
  OBVIOUS
<1>2. CASE t = "req"
  <2>1. [m EXCEPT !.req = a, !.mtok = 0] \in Manifests
    BY <1>1 DEF Manifests
  <2> QED BY <1>2, <2>1 DEF BuildSellUpdatePatch
<1>3. CASE t = "mtok"
  <2>1. [m EXCEPT !.req = 0, !.mtok = a] \in Manifests
    BY <1>1 DEF Manifests
  <2> QED BY <1>3, <2>1 DEF BuildSellUpdatePatch
<1> QED BY <1>2, <1>3 DEF Terms

\* A patch of an offer and of what was asked of it leaves both in step.
LEMMA PatchSays ==
    ASSUME NEW now \in Manifests, NEW w \in Manifests, Says(now, w), Priced(w), Priced(now)
    PROVE  /\ [now EXCEPT !.drain = TRUE] \in Manifests /\ [w EXCEPT !.drain = TRUE] \in Manifests
           /\ Says([now EXCEPT !.drain = TRUE], [w EXCEPT !.drain = TRUE])
           /\ Priced([now EXCEPT !.drain = TRUE]) /\ Priced([w EXCEPT !.drain = TRUE])
           /\ \A t \in Terms, a \in {1, 2} :
                /\ BuildSellUpdatePatch(now, t, a) \in Manifests
                /\ BuildSellUpdatePatch(w, t, a) \in Manifests
                /\ Says(BuildSellUpdatePatch(now, t, a), BuildSellUpdatePatch(w, t, a))
                /\ Priced(BuildSellUpdatePatch(now, t, a)) /\ Priced(BuildSellUpdatePatch(w, t, a))
<1>1. [now EXCEPT !.drain = TRUE] \in Manifests /\ [w EXCEPT !.drain = TRUE] \in Manifests
  BY DEF Manifests
<1>2. /\ Says([now EXCEPT !.drain = TRUE], [w EXCEPT !.drain = TRUE])
      /\ Priced([now EXCEPT !.drain = TRUE]) /\ Priced([w EXCEPT !.drain = TRUE])
  BY DEF Manifests, Says, Priced
<1>3. ASSUME NEW t \in Terms, NEW a \in {1, 2}
      PROVE  /\ BuildSellUpdatePatch(now, t, a) \in Manifests
             /\ BuildSellUpdatePatch(w, t, a) \in Manifests
             /\ Says(BuildSellUpdatePatch(now, t, a), BuildSellUpdatePatch(w, t, a))
             /\ Priced(BuildSellUpdatePatch(now, t, a)) /\ Priced(BuildSellUpdatePatch(w, t, a))
  <2>0. a # 0
    OBVIOUS
  <2>1. BuildSellUpdatePatch(now, t, a) \in Manifests /\ BuildSellUpdatePatch(w, t, a) \in Manifests
    BY PatchManifest
  <2>2. CASE t = "req"
    <3>1. /\ BuildSellUpdatePatch(now, t, a) = [now EXCEPT !.req = a, !.mtok = 0]
          /\ BuildSellUpdatePatch(w, t, a) = [w EXCEPT !.req = a, !.mtok = 0]
      BY <2>2 DEF BuildSellUpdatePatch
    <3> QED BY <2>0, <2>1, <3>1 DEF Manifests, Says, Priced
  <2>3. CASE t = "mtok"
    <3>1. /\ BuildSellUpdatePatch(now, t, a) = [now EXCEPT !.req = 0, !.mtok = a]
          /\ BuildSellUpdatePatch(w, t, a) = [w EXCEPT !.req = 0, !.mtok = a]
      BY <2>3 DEF BuildSellUpdatePatch
    <3> QED BY <2>0, <2>1, <3>1 DEF Manifests, Says, Priced
  <2> QED BY <2>2, <2>3 DEF Terms
<1> QED BY <1>1, <1>2, <1>3

-----------------------------------------------------------------------------
\* The values of the state, action by action.

LEMMA SellTypeStep ==
    ASSUME SellIInv, [SellNext]_sellVars
    PROVE  SellTypeOK'
<1> USE Marks, CommandParts DEF SellIInv, Standings, UnderWay
<1>0. CASE UNCHANGED sellVars
  BY <1>0 DEF SellTypeOK, Live
<1>1. ASSUME NEW o \in SoldOffers, NEW price \in PriceTables, NEW p \in Paths, Sells(o, price, p),
             backing' \in {backing, backing \cup {o}}
      PROVE  SellTypeOK'
  <2>1. Manifest(o, price[1], price[2], p) \in Manifests
    BY DEF PriceTables, Terms, Manifest, Manifests
  <2>2. sellCmd' \in SellCommands
    BY <1>1, <2>1 DEF Sells, SellBegin, SellCommands
  <2> QED BY <1>1, <2>2 DEF SellTypeOK, Sells, SellBegin, Live
<1>2. CASE SellHTTPOffer
  BY <1>1, <1>2, SellAssumption DEF SellHTTPOffer
<1>3. CASE SellAgentOffer
  BY <1>1, <1>3, SellAssumption DEF SellAgentOffer, PriceTables, Terms
<1>4. CASE SellDemo
  BY <1>1, <1>4, SellAssumption DEF SellDemo, DeployDemoBackend, PriceTables, Terms, SellTypeOK
<1>5. CASE ApplyManifest
  <2>1. CASE PreflightFails(sellCmd.o, sellCmd.m.path)
    BY <1>5, <2>1 DEF ApplyManifest, SellTypeOK, SellCommands, Live
  <2>2. CASE ~PreflightFails(sellCmd.o, sellCmd.m.path)
    <3>1. sellCmd.o \in SoldOffers /\ sellCmd.m \in Manifests /\ Priced(sellCmd.m) /\ sellCmd.o \in backing
      BY <1>5 DEF ApplyManifest, ApplyUnderWay
    <3>2. KubectlApply(sellCmd.o, sellCmd.m) \in Manifests
      BY <3>1, AppliedSays
    <3>3. sellCmd' \in SellCommands
      BY <1>5, <2>2 DEF ApplyManifest, SellTypeOK, SellCommands
    <3>4. /\ offerAt' \in [SoldOffers -> Manifests \cup {NoOffer}]
          /\ ownedBy' \in [SoldOffers -> Manifests \cup {NoOffer}]
          /\ asked' \in [SoldOffers -> Manifests \cup {NoOffer, ByAgent}]
          /\ unsure' \subseteq SoldOffers
      BY <1>5, <2>2, <3>1, <3>2 DEF ApplyManifest, SellTypeOK, Ask, Unsure
    <3>5. \A o \in SoldOffers : Live(o)' => o \in backing'
      BY <1>5, <2>2, <3>1, <3>2 DEF ApplyManifest, SellTypeOK, Live
    <3> QED BY <1>5, <3>3, <3>4, <3>5 DEF ApplyManifest, SellTypeOK, Live
  <2> QED BY <2>1, <2>2
<1>6. CASE PersistServiceOffer
  <2>0. [offer |-> sellCmd.m, bundle |-> Bundled(sellCmd.o)] \in Entries
    <3>1. Bundled(sellCmd.o) \in BOOLEAN
      BY DEF Bundled
    <3>2. sellCmd.m \in Manifests
      BY <1>6 DEF PersistServiceOffer
    <3> QED BY <3>1, <3>2 DEF Entries
  <2>1. ledger' \in [SoldOffers -> Entries \cup {NoOffer}]
    BY <1>6, <2>0 DEF PersistServiceOffer, SellTypeOK, Record
  <2>2. unsure' \subseteq SoldOffers /\ sellCmd' \in SellCommands
    BY <1>6 DEF PersistServiceOffer, SellTypeOK, Sure, SellCommands
  <2> QED BY <1>6, <2>1, <2>2 DEF PersistServiceOffer, SellTypeOK, Live
<1>7. ASSUME NEW o \in SoldOffers, NEW m \in Manifests, NEW w \in Manifests, Live(o), PatchOffer(o, m, w)
      PROVE  SellTypeOK'
  <2>1. sellCmd' \in SellCommands
    BY <1>7 DEF PatchOffer, SellBegin, SellCommands
  <2>2. /\ offerAt' \in [SoldOffers -> Manifests \cup {NoOffer}]
        /\ asked' \in [SoldOffers -> Manifests \cup {NoOffer, ByAgent}]
        /\ unsure' \subseteq SoldOffers /\ \A q \in SoldOffers : Live(q)' => q \in backing
    BY <1>7 DEF PatchOffer, SellTypeOK, Ask, Unsure, Live
  <2>3. resumed' \in BOOLEAN /\ UNCHANGED <<ownedBy, backing, ledger, demos, legacy>>
    BY <1>7 DEF PatchOffer, SellBegin
  <2> QED BY <2>1, <2>2, <2>3 DEF SellTypeOK, Live
<1>8. ASSUME NEW o \in SoldOffers, Live(o) PROVE offerAt[o] \in Manifests /\ AskedOf(o) \in Manifests
  BY <1>8 DEF SellTypeOK, Live, AskedOf
<1>9. CASE SellStop
  BY <1>9, <1>7, <1>8 DEF SellStop, Manifests
<1>10. CASE SellUpdate
  <2>1. PICK o \in SoldOffers, t \in Terms, a \in {1, 2} :
          Live(o) /\ PatchOffer(o, BuildSellUpdatePatch(offerAt[o], t, a), BuildSellUpdatePatch(AskedOf(o), t, a))
    BY <1>10 DEF SellUpdate
  <2>3. /\ BuildSellUpdatePatch(offerAt[o], t, a) \in Manifests
        /\ BuildSellUpdatePatch(AskedOf(o), t, a) \in Manifests
    BY <2>1, <1>8, PatchManifest
  <2> QED BY <2>1, <2>3, <1>7
<1>11. CASE RefreshPersistedServiceOffer
  <2>1. sellCmd.o \in SoldOffers /\ offerAt[sellCmd.o] \in Manifests
    BY <1>11 DEF RefreshPersistedServiceOffer, RefreshUnderWay, Live, SellTypeOK
  <2>2. Refreshed(sellCmd.o) \in Entries
    BY <2>1 DEF Refreshed, Entries, SellTypeOK
  <2>3. ledger' \in [SoldOffers -> Entries \cup {NoOffer}]
    BY <1>11, <2>2 DEF RefreshPersistedServiceOffer, SellTypeOK
  <2>4. unsure' \subseteq SoldOffers /\ sellCmd' \in SellCommands
    BY <1>11 DEF RefreshPersistedServiceOffer, SellTypeOK, Sure, SellCommands
  <2> QED BY <1>11, <2>3, <2>4 DEF RefreshPersistedServiceOffer, SellTypeOK, Live
<1>12. ASSUME NEW o \in SoldOffers, ClusterDelete(o) PROVE SellTypeOK'
  <2>1. sellCmd' \in SellCommands
    BY <1>12 DEF ClusterDelete, SellBegin, SellCommands
  <2>2. /\ offerAt' \in [SoldOffers -> Manifests \cup {NoOffer}]
        /\ ownedBy' \in [SoldOffers -> Manifests \cup {NoOffer}]
        /\ asked' \in [SoldOffers -> Manifests \cup {NoOffer, ByAgent}]
        /\ unsure' \subseteq SoldOffers /\ \A q \in SoldOffers : Live(q)' => q \in backing
    BY <1>12 DEF ClusterDelete, SellTypeOK, Ask, Unsure, Live
  <2>3. UNCHANGED <<backing, ledger, demos, legacy>> /\ resumed' = FALSE
    BY <1>12 DEF ClusterDelete, SellBegin
  <2> QED BY <2>1, <2>2, <2>3 DEF SellTypeOK, Live
<1>13. CASE SellDelete
  BY <1>12, <1>13 DEF SellDelete
<1>14. CASE AgentDelete
  BY <1>12, <1>14 DEF AgentDelete, SellTypeOK
<1>15. CASE RemovePersistedServiceOffer
  <2>1. ledger' \in [SoldOffers -> Entries \cup {NoOffer}]
    BY <1>15 DEF RemovePersistedServiceOffer, RemovePersisted, SellTypeOK
  <2>2. unsure' \subseteq SoldOffers /\ legacy' \subseteq SoldOffers /\ sellCmd' \in SellCommands
    BY <1>15 DEF RemovePersistedServiceOffer, SellTypeOK, Sure, SellCommands
  <2>3. \A o \in SoldOffers : Live(o)' => o \in backing'
    BY <1>15 DEF RemovePersistedServiceOffer, SellTypeOK, ForgetUnderWay, Live
  <2> QED BY <1>15, <2>1, <2>2, <2>3 DEF RemovePersistedServiceOffer, SellTypeOK, Live
<1>16. CASE AgentAppliesOffer
  <2>1. PICK o \in PlainOffers :
          /\ offerAt' = [offerAt EXCEPT ![o] = Manifest(o, "req", 2, o)]
          /\ ownedBy' = [ownedBy EXCEPT ![o] = Manifest(o, "req", 2, o)]
          /\ Ask(o, ByAgent)
    BY <1>16 DEF AgentAppliesOffer
  <2>2. o \in SoldOffers /\ Manifest(o, "req", 2, o) \in Manifests
    BY SellAssumption DEF Manifest, Manifests
  <2>3. /\ offerAt' \in [SoldOffers -> Manifests \cup {NoOffer}]
        /\ ownedBy' \in [SoldOffers -> Manifests \cup {NoOffer}]
        /\ asked' \in [SoldOffers -> Manifests \cup {NoOffer, ByAgent}]
        /\ \A q \in SoldOffers : Live(q)' => q \in backing
    BY <2>1, <2>2 DEF SellTypeOK, Ask, Live
  <2>4. UNCHANGED <<backing, ledger, demos, legacy, unsure>> /\ resumed' = FALSE /\ sellCmd' = SellIdle
    BY <1>16 DEF AgentAppliesOffer, SellBegin
  <2> QED BY <2>3, <2>4 DEF SellTypeOK, SellCommands, Live
<1>17. CASE RecreateAndUp
  <2>1. /\ offerAt' \in [SoldOffers -> Manifests \cup {NoOffer}]
        /\ ownedBy' \in [SoldOffers -> Manifests \cup {NoOffer}]
        /\ asked' \in [SoldOffers -> Manifests \cup {NoOffer, ByAgent}]
        /\ \A q \in SoldOffers : ~Live(q)'
    BY <1>17 DEF RecreateAndUp, SellTypeOK, Live
  <2>2. sellCmd' \in SellCommands
    BY <1>17 DEF RecreateAndUp, SellBegin, SellCommands
  <2>3. UNCHANGED <<ledger, demos, legacy, unsure>> /\ resumed' = FALSE /\ backing' \subseteq SoldOffers
    BY <1>17, SellAssumption DEF RecreateAndUp, SellBegin
  <2> QED BY <2>1, <2>2, <2>3 DEF SellTypeOK, Live
<1>18. CASE SellResume
  BY <1>18 DEF SellResume, SellBegin, SellTypeOK, SellCommands, Live
<1>19. CASE ResumeSellOffers
  <2>1. PICK bad \in SUBSET Recorded :
          LET done == {o \in Recorded \ bad : Appliable(o)} IN
          /\ offerAt' = [o \in SoldOffers |-> IF o \in done THEN KubectlApply(o, ledger[o].offer) ELSE offerAt[o]]
          /\ ownedBy' = [o \in SoldOffers |-> IF o \in done THEN ledger[o].offer ELSE ownedBy[o]]
          /\ backing' = backing \cup done
          /\ resumed' = (bad = {})
    BY <1>19 DEF ResumeSellOffers
  <2> DEFINE done == {o \in Recorded \ bad : Appliable(o)}
  <2>2. \A o \in done : o \in SoldOffers /\ ledger[o].offer \in Manifests /\ Priced(ledger[o].offer)
    BY DEF Recorded, SellTypeOK, Entries, EverPriced
  <2>3. \A o \in done : KubectlApply(o, ledger[o].offer) \in Manifests
    BY <2>2, AppliedSays
  <2> HIDE DEF done
  <2>4. /\ offerAt' \in [SoldOffers -> Manifests \cup {NoOffer}]
        /\ ownedBy' \in [SoldOffers -> Manifests \cup {NoOffer}]
        /\ \A o \in SoldOffers : Live(o)' => o \in backing'
        /\ backing' \subseteq SoldOffers /\ resumed' \in BOOLEAN
    BY <2>1, <2>2, <2>3 DEF SellTypeOK, Live, done
  <2> QED BY <1>19, <2>4 DEF ResumeSellOffers, SellTypeOK, SellCommands, Live
<1>20. CASE SellCut
  BY <1>20 DEF SellCut, SellTypeOK, SellCommands, Live
<1> QED
  BY <1>0, <1>2, <1>3, <1>4, <1>5, <1>6, <1>9, <1>10, <1>11, <1>13, <1>14, <1>15, <1>16, <1>17, <1>18,
     <1>19, <1>20 DEF SellNext

\* What the invariants say of one offer.
LedgerOf(o) ==
    /\ asked[o] = NoOffer => ~Live(o)
    /\ ~ByOperator(o) => ledger[o] = NoOffer
    /\ ByOperator(o) => /\ Standing(o) /\ Says(ledger[o].offer, asked[o])
                        /\ Live(o) => Says(offerAt[o], asked[o])
PricedOf(o) ==
    /\ Live(o) => Priced(offerAt[o])
    /\ ledger[o] # NoOffer => Priced(ledger[o].offer)
    /\ ByOperator(o) => Priced(asked[o])

\* A step leaves the other offers as they are.
Elsewhere(o) ==
    \A q \in SoldOffers \ {o} :
        offerAt'[q] = offerAt[q] /\ ledger'[q] = ledger[q] /\ asked'[q] = asked[q] /\ (q \in unsure' <=> q \in unsure)

LEMMA ElsewhereHolds ==
    ASSUME NEW o \in SoldOffers, EverPriced, LedgerFollows, Elsewhere(o), PricedOf(o)',
           o \notin unsure' => LedgerOf(o)'
    PROVE  (EverPriced /\ LedgerFollows)'
<1>1. ASSUME NEW q \in SoldOffers PROVE PricedOf(q)' /\ (q \notin unsure' => LedgerOf(q)')
  <2>1. CASE q = o
    BY <2>1
  <2>2. CASE q # o
    BY <2>2 DEF Elsewhere, EverPriced, LedgerFollows, PricedOf, LedgerOf, Standing, ByOperator, Live
  <2> QED BY <2>1, <2>2
<1> QED BY <1>1 DEF EverPriced, LedgerFollows, PricedOf, LedgerOf

LEMMA LedgerStep ==
    ASSUME SellIInv, [SellNext]_sellVars
    PROVE  (Standings /\ EverPriced /\ LedgerFollows)'
<1> DEFINE Goal == (Standings /\ EverPriced /\ LedgerFollows)'
<1> USE Marks, CommandParts DEF SellIInv
<1>a. UNCHANGED <<offerAt, ledger, asked, unsure>> => (EverPriced /\ LedgerFollows)'
  BY DEF EverPriced, LedgerFollows, Standing, ByOperator, Live
<1>b. asked' = asked /\ backing \subseteq backing' /\ (resumed' => sellCmd' = SellIdle) => Standings'
  BY DEF Standings
<1>0. CASE UNCHANGED sellVars
  BY <1>0, <1>a, <1>b DEF Standings
<1>1. ASSUME NEW o \in SoldOffers, NEW price \in PriceTables, NEW p \in Paths, Sells(o, price, p),
             backing' \in {backing, backing \cup {o}}
      PROVE  Goal
  BY <1>1, <1>a, <1>b DEF Sells, SellBegin
<1>2. CASE SellHTTPOffer
  BY <1>1, <1>2, SellAssumption DEF SellHTTPOffer
<1>3. CASE SellAgentOffer
  BY <1>1, <1>3, SellAssumption DEF SellAgentOffer, PriceTables, Terms
<1>4. CASE SellDemo
  BY <1>1, <1>4, SellAssumption DEF SellDemo, DeployDemoBackend, PriceTables, Terms, SellTypeOK
<1>5. CASE ApplyManifest
  <2>o. PICK o \in SoldOffers, m \in Manifests : o = sellCmd.o /\ m = sellCmd.m
    BY <1>5 DEF ApplyManifest
  <2>1. CASE PreflightFails(o, m.path)
    BY <1>5, <2>o, <2>1, <1>a, <1>b DEF ApplyManifest
  <2>2. CASE ~PreflightFails(o, m.path)
    <3>1. o \in SoldOffers /\ m \in Manifests /\ Priced(m)
      BY <1>5, <2>o DEF ApplyManifest, ApplyUnderWay, UnderWay
    <3>2. KubectlApply(o, m) \in Manifests /\ Priced(KubectlApply(o, m))
      BY <3>1, AppliedSays
    <3>3. /\ offerAt'[o] = KubectlApply(o, m) /\ asked'[o] = m /\ o \in unsure' /\ ledger' = ledger
          /\ Elsewhere(o)
      BY <1>5, <2>o, <2>2, <3>1 DEF ApplyManifest, Ask, Unsure, SellTypeOK, Elsewhere
    <3>4. PricedOf(o)'
      BY <3>1, <3>2, <3>3 DEF PricedOf, EverPriced, Live, ByOperator
    <3>5. (EverPriced /\ LedgerFollows)'
      BY <3>1, <3>3, <3>4, ElsewhereHolds
    <3>6. resumed' = FALSE /\ backing' = backing
      BY <1>5, <2>o DEF ApplyManifest, Standings, SellIdle, SellTypeOK
    <3>7. \A q \in SoldOffers : asked'[q] = ByAgent => q \in PlainOffers
      BY <3>1, <3>3 DEF Elsewhere, Standings
    <3> QED BY <3>5, <3>6, <3>7 DEF Standings
  <2> QED BY <2>1, <2>2
<1>6. CASE PersistServiceOffer
  <2>0. Standings'
    BY <1>6, <1>b DEF PersistServiceOffer
  <2>1. CASE UNCHANGED <<ledger, unsure>>
    BY <1>6, <2>0, <2>1, <1>a DEF PersistServiceOffer
  <2>2. CASE Record(sellCmd.o, sellCmd.m, Bundled(sellCmd.o)) /\ Sure(sellCmd.o)
    <3>o. PICK o \in SoldOffers, m \in Manifests : o = sellCmd.o /\ m = sellCmd.m
      BY <1>6 DEF PersistServiceOffer
    <3>1. /\ o \in SoldOffers /\ m \in Manifests /\ Priced(m) /\ asked[o] = m /\ Says(offerAt[o], m)
          /\ UNCHANGED <<offerAt, asked>>
      BY <1>6, <3>o DEF PersistServiceOffer, PersistUnderWay, UnderWay
    <3>2. /\ ledger'[o] = [offer |-> m, bundle |-> Bundled(o)] /\ Elsewhere(o)
      BY <2>2, <3>o, <3>1 DEF Record, Sure, SellTypeOK, Elsewhere
    <3>3. m \in Manifests /\ Says(m, m)
      BY <3>1 DEF Says
    <3>4. ledger'[o].offer = m /\ ledger'[o].bundle = Bundled(o) /\ ledger'[o] # NoOffer
      <4>1. [offer |-> m, bundle |-> Bundled(o)] \in Entries
        BY <3>3 DEF Entries, Bundled
      <4> QED BY <3>2, <4>1
    <3>5. PricedOf(o)'
      BY <3>1, <3>4 DEF PricedOf, EverPriced, Live, ByOperator
    <3>6. LedgerOf(o)'
      BY <3>1, <3>3, <3>4 DEF LedgerOf, Live, ByOperator, Standing, Bundled
    <3> QED BY <2>0, <3>1, <3>2, <3>5, <3>6, ElsewhereHolds
  <2> QED BY <1>6, <2>1, <2>2 DEF PersistServiceOffer
<1>7. ASSUME NEW o \in SoldOffers, NEW m \in Manifests, NEW w \in Manifests, Live(o), PatchOffer(o, m, w),
             Priced(m), Priced(w)
      PROVE  Goal
  <2>1. /\ offerAt'[o] = m /\ asked'[o] = w /\ o \in unsure' /\ ledger' = ledger /\ Elsewhere(o)
        /\ resumed' = FALSE /\ backing' = backing
    BY <1>7 DEF PatchOffer, SellBegin, Ask, Unsure, SellTypeOK, Elsewhere
  <2>2. PricedOf(o)'
    BY <1>7, <2>1 DEF PricedOf, EverPriced, Live, ByOperator
  <2>3. \A q \in SoldOffers : asked'[q] = ByAgent => q \in PlainOffers
    BY <1>7, <2>1 DEF Elsewhere, Standings
  <2> QED BY <1>7, <2>1, <2>2, <2>3, ElsewhereHolds DEF Standings
<1>8. ASSUME NEW o \in SoldOffers, Live(o)
      PROVE  /\ offerAt[o] \in Manifests /\ Priced(offerAt[o])
             /\ AskedOf(o) \in Manifests /\ Priced(AskedOf(o)) /\ Says(offerAt[o], AskedOf(o))
  <2>1. offerAt[o] \in Manifests /\ Priced(offerAt[o]) /\ Says(offerAt[o], offerAt[o])
    BY <1>8 DEF SellTypeOK, Live, EverPriced, Says
  <2>2. CASE o \in unsure \/ asked[o] \in {NoOffer, ByAgent}
    BY <2>1, <2>2 DEF AskedOf
  <2>3. CASE o \notin unsure /\ ByOperator(o)
    BY <1>8, <2>1, <2>3 DEF AskedOf, LedgerFollows, EverPriced, ByOperator, SellTypeOK
  <2> QED BY <2>2, <2>3 DEF ByOperator
<1>9. CASE SellStop
  BY <1>9, <1>7, <1>8, PatchSays DEF SellStop
<1>10. CASE SellUpdate
  <2>1. PICK o \in SoldOffers, t \in Terms, a \in {1, 2} :
          Live(o) /\ PatchOffer(o, BuildSellUpdatePatch(offerAt[o], t, a), BuildSellUpdatePatch(AskedOf(o), t, a))
    BY <1>10 DEF SellUpdate
  <2>2. /\ offerAt[o] \in Manifests /\ Priced(offerAt[o])
        /\ AskedOf(o) \in Manifests /\ Priced(AskedOf(o)) /\ Says(offerAt[o], AskedOf(o))
    BY <2>1, <1>8
  <2> DEFINE n == BuildSellUpdatePatch(offerAt[o], t, a)
             w == BuildSellUpdatePatch(AskedOf(o), t, a)
  <2>3. n \in Manifests /\ w \in Manifests /\ Priced(n) /\ Priced(w)
    BY <2>2, PatchSays
  <2>4. Live(o) /\ PatchOffer(o, n, w)
    BY <2>1
  <2> HIDE DEF n, w
  <2> QED BY <2>3, <2>4, <1>7
<1>11. CASE RefreshPersistedServiceOffer
  <2>0. Standings'
    BY <1>11, <1>b DEF RefreshPersistedServiceOffer
  <2>1. CASE UNCHANGED <<ledger, unsure>>
    BY <1>11, <2>0, <2>1, <1>a DEF RefreshPersistedServiceOffer
  <2>2. CASE /\ ledger' = [ledger EXCEPT ![sellCmd.o] = Refreshed(sellCmd.o)]
             /\ IF sellCmd.o \in PlainOffers \/ ~sellCmd.was THEN Sure(sellCmd.o) ELSE UNCHANGED unsure
    <3>o. PICK o \in SoldOffers : o = sellCmd.o
      BY <1>11 DEF RefreshPersistedServiceOffer
    <3>1. /\ o \in SoldOffers /\ ByOperator(o) /\ Live(o) /\ Says(offerAt[o], asked[o]) /\ o \in unsure
          /\ ~sellCmd.was => o \in PlainOffers \/ Standing(o)
          /\ UNCHANGED <<offerAt, asked>>
      BY <1>11, <3>o DEF RefreshPersistedServiceOffer, RefreshUnderWay, UnderWay
    <3>2. ledger'[o] = Refreshed(o) /\ Elsewhere(o)
      BY <2>2, <3>o, <3>1 DEF Sure, SellTypeOK, Elsewhere
    <3>3. o \notin unsure' => o \in PlainOffers \/ Standing(o)
      BY <2>2, <3>o, <3>1 DEF Sure
    <3>4. /\ ledger'[o].offer = offerAt[o] /\ ledger'[o] # NoOffer
          /\ ledger'[o].bundle = (ledger[o] # NoOffer /\ ledger[o].bundle)
      <4>1. Refreshed(o) \in Entries
        BY <3>1 DEF Refreshed, Entries, SellTypeOK, Live
      <4> QED BY <3>2, <4>1 DEF Refreshed
    <3>5. PricedOf(o)'
      BY <3>1, <3>4 DEF PricedOf, EverPriced, Live, ByOperator
    <3>6. ASSUME o \notin unsure' PROVE LedgerOf(o)'
      <4>1. Standing(o)'
        BY <3>3, <3>4, <3>6 DEF Standing
      <4> QED BY <3>1, <3>4, <4>1 DEF LedgerOf, Live, ByOperator
    <3> QED BY <2>0, <3>1, <3>2, <3>5, <3>6, ElsewhereHolds
  <2> QED BY <1>11, <2>1, <2>2 DEF RefreshPersistedServiceOffer
<1>12. ASSUME NEW o \in SoldOffers, ClusterDelete(o) PROVE Goal
  <2>1. /\ offerAt'[o] = NoOffer /\ asked'[o] = NoOffer /\ o \in unsure' /\ ledger' = ledger /\ Elsewhere(o)
        /\ resumed' = FALSE /\ backing' = backing
    BY <1>12 DEF ClusterDelete, SellBegin, Ask, Unsure, SellTypeOK, Elsewhere
  <2>2. PricedOf(o)'
    BY <1>12, <2>1 DEF PricedOf, EverPriced, Live, ByOperator
  <2>3. \A q \in SoldOffers : asked'[q] = ByAgent => q \in PlainOffers
    BY <1>12, <2>1 DEF Elsewhere, Standings
  <2> QED BY <1>12, <2>1, <2>2, <2>3, ElsewhereHolds DEF Standings
<1>13. CASE SellDelete
  BY <1>12, <1>13 DEF SellDelete
<1>14. CASE AgentDelete
  BY <1>12, <1>14 DEF AgentDelete, SellTypeOK
<1>15. CASE RemovePersistedServiceOffer
  <2>0. Standings'
    BY <1>15 DEF RemovePersistedServiceOffer, Standings, SellTypeOK
  <2>1. CASE UNCHANGED <<ledger, unsure>>
    BY <1>15, <2>0, <2>1, <1>a DEF RemovePersistedServiceOffer
  <2>2. CASE ledger' = RemovePersisted /\ Sure(sellCmd.o)
    <3>o. PICK o \in SoldOffers : o = sellCmd.o
      BY <1>15 DEF RemovePersistedServiceOffer
    <3>1. o \in SoldOffers /\ asked[o] = NoOffer /\ ~Live(o) /\ UNCHANGED <<offerAt, asked>>
      BY <1>15, <3>o DEF RemovePersistedServiceOffer, ForgetUnderWay, UnderWay
    <3>2. ledger'[o] = NoOffer /\ Elsewhere(o)
      BY <2>2, <3>o, <3>1 DEF RemovePersisted, Sure, SellTypeOK, Elsewhere
    <3>3. PricedOf(o)' /\ LedgerOf(o)'
      BY <3>1, <3>2 DEF PricedOf, LedgerOf, Live, ByOperator
    <3> QED BY <2>0, <3>1, <3>2, <3>3, ElsewhereHolds
  <2> QED BY <1>15, <2>1, <2>2 DEF RemovePersistedServiceOffer
<1>16. CASE AgentAppliesOffer
  <2>1. PICK o \in PlainOffers :
          /\ ~Live(o) /\ ledger[o] = NoOffer
          /\ offerAt' = [offerAt EXCEPT ![o] = Manifest(o, "req", 2, o)] /\ Ask(o, ByAgent)
    BY <1>16 DEF AgentAppliesOffer
  <2>2. UNCHANGED <<backing, ledger, unsure>> /\ resumed' = FALSE
    BY <1>16 DEF AgentAppliesOffer, SellBegin
  <2>3. /\ o \in SoldOffers /\ offerAt'[o] = Manifest(o, "req", 2, o) /\ asked'[o] = ByAgent
        /\ Elsewhere(o)
    BY <2>1, <2>2, SellAssumption DEF SellTypeOK, Ask, Elsewhere
  <2>4. Priced(Manifest(o, "req", 2, o))
    BY DEF Priced, Manifest
  <2>5. PricedOf(o)' /\ LedgerOf(o)'
    BY <2>1, <2>2, <2>3, <2>4 DEF PricedOf, LedgerOf, Live, ByOperator
  <2>6. \A q \in SoldOffers : asked'[q] = ByAgent => q \in PlainOffers
    BY <2>3 DEF Elsewhere, Standings
  <2> QED BY <2>2, <2>3, <2>5, <2>6, ElsewhereHolds DEF Standings
<1>17. CASE RecreateAndUp
  <2>1. /\ offerAt' = [o \in SoldOffers |-> NoOffer] /\ backing' = PlainOffers
        /\ asked' = [o \in SoldOffers |-> IF asked[o] = ByAgent THEN NoOffer ELSE asked[o]]
        /\ UNCHANGED <<ledger, unsure>> /\ resumed' = FALSE
    BY <1>17 DEF RecreateAndUp, SellBegin
  <2>2. \A o \in SoldOffers : ~Live(o)' /\ (ByOperator(o)' <=> ByOperator(o))
    BY <2>1 DEF Live, ByOperator
  <2>3. Standings' /\ EverPriced'
    BY <2>1, <2>2 DEF Standings, EverPriced, ByOperator
  <2>4. LedgerFollows'
    BY <2>1, <2>2 DEF LedgerFollows, Standing, ByOperator
  <2> QED BY <2>3, <2>4
<1>18. CASE SellResume
  BY <1>18, <1>a, <1>b DEF SellResume, SellBegin
<1>19. CASE ResumeSellOffers
  <2>1. PICK bad \in SUBSET Recorded :
          LET done == {o \in Recorded \ bad : Appliable(o)} IN
          /\ offerAt' = [o \in SoldOffers |-> IF o \in done THEN KubectlApply(o, ledger[o].offer) ELSE offerAt[o]]
          /\ backing' = backing \cup done
    BY <1>19 DEF ResumeSellOffers
  <2> DEFINE done == {o \in Recorded \ bad : Appliable(o)}
  <2>2. \A o \in done : /\ o \in SoldOffers /\ ledger[o] # NoOffer
                        /\ ledger[o].offer \in Manifests /\ Priced(ledger[o].offer)
    BY DEF Recorded, SellTypeOK, Entries, EverPriced
  <2>3. \A o \in done : Priced(KubectlApply(o, ledger[o].offer)) /\ KubectlApply(o, ledger[o].offer) \in Manifests
    BY <2>2, AppliedSays
  <2>4. Standings'
    BY <1>19, <2>1, <1>b DEF ResumeSellOffers
  <2> HIDE DEF done
  <2>5. UNCHANGED <<ledger, asked, unsure>>
    BY <1>19 DEF ResumeSellOffers
  <2>6. EverPriced'
    BY <2>1, <2>3, <2>5 DEF EverPriced, Live, ByOperator, done
  <2>7. ASSUME NEW o \in SoldOffers, o \notin unsure PROVE LedgerOf(o)'
    <3>0. LedgerOf(o)
      BY <2>7 DEF LedgerFollows, LedgerOf
    <3>1. CASE o \notin done
      <4>1. offerAt'[o] = offerAt[o]
        BY <2>1, <3>1 DEF done
      <4> QED BY <3>0, <4>1, <2>5 DEF LedgerOf, Standing, ByOperator, Live
    <3>2. CASE o \in done
      <4>1. ByOperator(o) /\ Says(ledger[o].offer, asked[o]) /\ Priced(asked[o]) /\ asked[o] \in Manifests
        BY <2>2, <3>0, <3>2 DEF LedgerOf, EverPriced, ByOperator, SellTypeOK
      <4>2. offerAt'[o] = KubectlApply(o, ledger[o].offer)
        BY <2>1, <3>2 DEF done
      <4>3. Says(KubectlApply(o, ledger[o].offer), asked[o])
        BY <2>2, <3>2, <4>1, AppliedSays
      <4> QED BY <3>0, <4>1, <4>2, <4>3, <2>5 DEF LedgerOf, Standing, ByOperator, Live
    <3> QED BY <3>1, <3>2
  <2>8. LedgerFollows'
    BY <2>5, <2>7 DEF LedgerFollows, LedgerOf
  <2> QED BY <2>4, <2>6, <2>8
<1>20. CASE SellCut
  BY <1>20, <1>a, <1>b DEF SellCut
<1> QED
  BY <1>0, <1>2, <1>3, <1>4, <1>5, <1>6, <1>9, <1>10, <1>11, <1>13, <1>14, <1>15, <1>16, <1>17, <1>18,
     <1>19, <1>20 DEF SellNext

\* A command that begins has its first step before it, and one that steps on
\* has what the next step relies on.
LEMMA UnderWayStep ==
    ASSUME SellIInv, [SellNext]_sellVars
    PROVE  UnderWay'
<1> USE Marks, CommandParts DEF SellIInv
<1>a. sellCmd' = SellIdle => UnderWay'
  BY DEF UnderWay, ApplyUnderWay, PersistUnderWay, RefreshUnderWay, ForgetUnderWay, SellIdle
<1>0. CASE UNCHANGED sellVars
  BY <1>0 DEF UnderWay, ApplyUnderWay, PersistUnderWay, RefreshUnderWay, ForgetUnderWay, ByOperator,
     Live, Standing
<1>1. ASSUME NEW o \in SoldOffers, NEW price \in PriceTables, NEW p \in Paths, Sells(o, price, p),
             o \in backing'
      PROVE  UnderWay'
  <2> DEFINE m == Manifest(o, price[1], price[2], p)
  <2>1. Priced(m) /\ ~m.drain
    BY DEF PriceTables, Terms, Manifest, Priced
  <2>2. sellCmd' = [pc |-> "apply", name |-> "sell", o |-> o, m |-> m]
    BY <1>1 DEF Sells, SellBegin
  <2> QED BY <1>1, <2>1, <2>2
          DEF UnderWay, ApplyUnderWay, PersistUnderWay, RefreshUnderWay, ForgetUnderWay
<1>2. CASE SellHTTPOffer
  BY <1>1, <1>2, SellAssumption DEF SellHTTPOffer, Standings
<1>3. CASE SellAgentOffer
  BY <1>1, <1>3, SellAssumption DEF SellAgentOffer, PriceTables, Terms
<1>4. CASE SellDemo
  BY <1>1, <1>4, SellAssumption DEF SellDemo, DeployDemoBackend, PriceTables, Terms, SellTypeOK
<1>5. CASE ApplyManifest
  <2>o. PICK o \in SoldOffers, m \in Manifests : o = sellCmd.o /\ m = sellCmd.m
    BY <1>5 DEF ApplyManifest
  <2>1. CASE PreflightFails(o, m.path)
    BY <1>5, <2>o, <2>1, <1>a DEF ApplyManifest
  <2>2. CASE ~PreflightFails(o, m.path)
    <3>1. Priced(m) /\ Says(m, m)
      BY <1>5, <2>o DEF ApplyManifest, ApplyUnderWay, UnderWay, Says
    <3>2. Says(KubectlApply(o, m), m)
      BY <3>1, AppliedSays
    <3>3. /\ offerAt'[o] = KubectlApply(o, m) /\ asked'[o] = m /\ o \in unsure'
          /\ sellCmd' = [sellCmd EXCEPT !.pc = "persist"]
      BY <1>5, <2>o, <2>2 DEF ApplyManifest, Ask, Unsure, SellTypeOK
    <3>4. sellCmd'.pc = "persist" /\ sellCmd'.o = o /\ sellCmd'.m = m
      BY <1>5, <2>o, <3>3 DEF ApplyManifest
    <3> QED BY <3>1, <3>2, <3>3, <3>4
            DEF UnderWay, ApplyUnderWay, PersistUnderWay, RefreshUnderWay, ForgetUnderWay
  <2> QED BY <2>1, <2>2
<1>6. CASE PersistServiceOffer
  BY <1>6, <1>a DEF PersistServiceOffer
<1>7. ASSUME NEW o \in SoldOffers, NEW m \in Manifests, NEW w \in Manifests, Live(o), PatchOffer(o, m, w),
             Says(m, w)
      PROVE  UnderWay'
  <2>1. /\ offerAt'[o] = m /\ asked'[o] = w /\ o \in unsure' /\ ledger' = ledger
        /\ sellCmd' = [pc |-> "refresh", name |-> "patch", o |-> o, was |-> o \in unsure]
    BY <1>7 DEF PatchOffer, SellBegin, Ask, Unsure, SellTypeOK
  <2>2. o \notin unsure => o \in PlainOffers \/ Standing(o)
    <3>1. CASE ByOperator(o)
      BY <3>1 DEF LedgerFollows
    <3>2. CASE asked[o] = ByAgent
      BY <3>2 DEF Standings
    <3>3. CASE asked[o] = NoOffer
      BY <1>7, <3>3 DEF LedgerFollows
    <3> QED BY <3>1, <3>2, <3>3 DEF ByOperator
  <2>3. sellCmd'.pc = "refresh" /\ sellCmd'.o = o /\ (sellCmd'.was <=> o \in unsure)
    BY <2>1
  <2>4. Standing(o)' <=> Standing(o)
    BY <2>1 DEF Standing
  <2>5. ByOperator(o)' /\ Live(o)'
    BY <2>1 DEF ByOperator, Live
  <2>6. RefreshUnderWay'
    BY <1>7, <2>1, <2>2, <2>3, <2>4, <2>5 DEF RefreshUnderWay, ByOperator, Live, Standing
  <2> QED BY <2>3, <2>6 DEF UnderWay, ApplyUnderWay, PersistUnderWay, ForgetUnderWay
<1>8. ASSUME NEW o \in SoldOffers, Live(o)
      PROVE  /\ offerAt[o] \in Manifests /\ Priced(offerAt[o])
             /\ AskedOf(o) \in Manifests /\ Priced(AskedOf(o)) /\ Says(offerAt[o], AskedOf(o))
  <2>1. offerAt[o] \in Manifests /\ Priced(offerAt[o]) /\ Says(offerAt[o], offerAt[o])
    BY <1>8 DEF SellTypeOK, Live, EverPriced, Says
  <2>2. CASE o \in unsure \/ asked[o] \in {NoOffer, ByAgent}
    BY <2>1, <2>2 DEF AskedOf
  <2>3. CASE o \notin unsure /\ ByOperator(o)
    BY <1>8, <2>1, <2>3 DEF AskedOf, LedgerFollows, EverPriced, ByOperator, SellTypeOK
  <2> QED BY <2>2, <2>3 DEF ByOperator
<1>9. CASE SellStop
  BY <1>9, <1>7, <1>8, PatchSays DEF SellStop
<1>10. CASE SellUpdate
  <2>1. PICK o \in SoldOffers, t \in Terms, a \in {1, 2} :
          Live(o) /\ PatchOffer(o, BuildSellUpdatePatch(offerAt[o], t, a), BuildSellUpdatePatch(AskedOf(o), t, a))
    BY <1>10 DEF SellUpdate
  <2>2. /\ offerAt[o] \in Manifests /\ Priced(offerAt[o])
        /\ AskedOf(o) \in Manifests /\ Priced(AskedOf(o)) /\ Says(offerAt[o], AskedOf(o))
    BY <2>1, <1>8
  <2> DEFINE n == BuildSellUpdatePatch(offerAt[o], t, a)
             w == BuildSellUpdatePatch(AskedOf(o), t, a)
  <2>3. n \in Manifests /\ w \in Manifests /\ Says(n, w)
    BY <2>2, PatchSays
  <2>4. Live(o) /\ PatchOffer(o, n, w)
    BY <2>1
  <2> HIDE DEF n, w
  <2> QED BY <2>3, <2>4, <1>7
<1>11. CASE RefreshPersistedServiceOffer
  BY <1>11, <1>a DEF RefreshPersistedServiceOffer
<1>12. ASSUME NEW o \in SoldOffers, ClusterDelete(o) PROVE UnderWay'
  <2>1. /\ offerAt'[o] = NoOffer /\ asked'[o] = NoOffer /\ o \in unsure'
        /\ sellCmd' = [pc |-> "forget", name |-> "delete", o |-> o]
    BY <1>12 DEF ClusterDelete, SellBegin, Ask, Unsure, SellTypeOK
  <2> QED BY <2>1
          DEF UnderWay, ApplyUnderWay, PersistUnderWay, RefreshUnderWay, ForgetUnderWay, Live
<1>13. CASE SellDelete
  BY <1>12, <1>13 DEF SellDelete
<1>14. CASE AgentDelete
  BY <1>12, <1>14 DEF AgentDelete, SellTypeOK
<1>15. CASE RemovePersistedServiceOffer
  BY <1>15, <1>a DEF RemovePersistedServiceOffer
<1>16. CASE AgentAppliesOffer
  BY <1>16, <1>a DEF AgentAppliesOffer, SellBegin
<1>17. CASE RecreateAndUp
  BY <1>17 DEF RecreateAndUp, SellBegin, UnderWay, ApplyUnderWay, PersistUnderWay, RefreshUnderWay,
     ForgetUnderWay
<1>18. CASE SellResume
  BY <1>18 DEF SellResume, SellBegin, UnderWay, ApplyUnderWay, PersistUnderWay, RefreshUnderWay,
     ForgetUnderWay
<1>19. CASE ResumeSellOffers
  BY <1>19, <1>a DEF ResumeSellOffers
<1>20. CASE SellCut
  BY <1>20, <1>a DEF SellCut
<1> QED
  BY <1>0, <1>2, <1>3, <1>4, <1>5, <1>6, <1>9, <1>10, <1>11, <1>13, <1>14, <1>15, <1>16, <1>17, <1>18,
     <1>19, <1>20 DEF SellNext

\* Only the replay sets resumed, and every command clears it.
LEMMA ReplayStep ==
    ASSUME SellIInv, [SellNext]_sellVars
    PROVE  ResumeBringsAllBack'
<1> USE Marks, CommandParts DEF SellIInv
<1>1. CASE ResumeSellOffers
  <2>1. PICK bad \in SUBSET Recorded :
          LET done == {o \in Recorded \ bad : Appliable(o)} IN
          /\ offerAt' = [o \in SoldOffers |-> IF o \in done THEN KubectlApply(o, ledger[o].offer) ELSE offerAt[o]]
          /\ resumed' = (bad = {}) /\ UNCHANGED <<asked, unsure>>
    BY <1>1 DEF ResumeSellOffers
  <2>2. ASSUME bad = {}, NEW o \in SoldOffers \ unsure, ByOperator(o)
        PROVE  Live(o)'
    <3>1. Standing(o)
      BY <2>2 DEF LedgerFollows
    <3>2. o \in Recorded \ bad /\ Appliable(o)
      BY <2>2, <3>1 DEF Recorded, Appliable, Standing, Standings
    <3>3. offerAt'[o] = KubectlApply(o, ledger[o].offer)
      BY <2>1, <3>2
    <3>4. KubectlApply(o, ledger[o].offer) \in Manifests
      BY <3>1, AppliedSays DEF Standing, SellTypeOK, Entries, EverPriced
    <3> QED BY <3>3, <3>4 DEF Live
  <2> QED BY <2>1, <2>2 DEF ResumeBringsAllBack, ByOperator
<1>2. CASE UNCHANGED sellVars
  BY <1>2 DEF ResumeBringsAllBack, ByOperator, Live
<1>3. CASE SellNext /\ ~ResumeSellOffers
  <2>1. ~resumed'
    BY <1>3 DEF SellNext, SellHTTPOffer, SellAgentOffer, SellDemo, Sells, ApplyManifest, PersistServiceOffer,
       SellStop, SellUpdate, PatchOffer, RefreshPersistedServiceOffer, SellDelete, AgentDelete, ClusterDelete,
       RemovePersistedServiceOffer, AgentAppliesOffer, RecreateAndUp, SellResume, SellCut, SellBegin,
       Standings, SellIdle
  <2> QED BY <2>1 DEF ResumeBringsAllBack
<1> QED BY <1>1, <1>2, <1>3

LEMMA SellInitial == SellInit => SellIInv
<1> SUFFICES ASSUME SellInit PROVE SellIInv
  OBVIOUS
<1>1. SellTypeOK
  BY SellAssumption DEF SellInit, SellTypeOK, SellCommands, Live
<1>2. Standings /\ EverPriced /\ LedgerFollows /\ ResumeBringsAllBack
  BY Marks DEF SellInit, Standings, EverPriced, LedgerFollows, Live, ByOperator, ResumeBringsAllBack
<1>3. UnderWay
  BY DEF SellInit, UnderWay, ApplyUnderWay, PersistUnderWay, RefreshUnderWay, ForgetUnderWay, SellIdle
<1> QED BY <1>1, <1>2, <1>3 DEF SellIInv

\* However the commands of a seller are cut, fail and are replayed over new
\* clusters, a replay undoes none whose record is known to follow, and one
\* that lists no failure brings every such offer back (sell.go:4922-4935,
\* sell.go:2741-2758).
THEOREM LedgerReplays == SellSpec => []SellInv
<1>1. SellInit => SellIInv
  BY SellInitial
<1>2. SellIInv /\ [SellNext]_sellVars => SellIInv'
  BY SellTypeStep, LedgerStep, UnderWayStep, ReplayStep DEF SellIInv
<1>3. SellIInv => SellInv
  BY Marks DEF SellIInv, SellInv, ResumeKeepsTheOperatorsWord, LedgerFollows, Says, ByOperator,
     AskedTerms, SellTypeOK
<1> QED BY <1>1, <1>2, <1>3, PTL DEF SellSpec

-----------------------------------------------------------------------------
(* The seller's records *)

\* The recipient: the recorded one, else the live one, may be in force, and
\* each step of a sync and its replay leaves what the next relies on.
PayKept ==
    /\ BackfillRecordedPricing(payRec, payCM) \in askedPayee
    /\ priced => payCM \in askedPayee /\ paySecret = payCM
PricingUnderWay ==
    qcmd.op = "pricing" =>
        /\ qcmd.at # "sync" => ~priced
        /\ qcmd.at \in {"config", "record"} => paySecret = qcmd.wallet
        /\ qcmd.at = "record" => payCM = qcmd.wallet /\ payCM \in askedPayee
UpUnderWay ==
    qcmd.op = "up" =>
        /\ qcmd.at = "sync" => BackfillRecordedPricing(payRec, 0) \in askedPayee
        /\ qcmd.at # "sync" => ~priced
        /\ qcmd.at = "secret" => payCM = 0 /\ paySecret = 0
        /\ qcmd.at = "config" => payCM = 0 /\ paySecret = payRec
        /\ qcmd.at = "clean" => payCM = payRec /\ paySecret = payRec
PayIInv == PayKept /\ PricingUnderWay /\ UpUnderWay

\* The branding: record and cluster, when it has one, are as asked for.
BrandIInv ==
    /\ \A f \in Fields : brandRec[f] \in askedBrand[f]
    /\ branded \/ brandCM # NoBrand => \A f \in Fields : brandCM[f] \in askedBrand[f]
    /\ qcmd.op = "brand" =>
         /\ \A f \in Fields \ qcmd.fields : qcmd.profile[f] \in askedBrand[f]
         /\ qcmd.at = "apply" => brandRec = qcmd.profile
         /\ qcmd.at = "delete" => qcmd.profile = NoBrand

\* A pool: the controller owns what it wrote, so that a sync leaves it, and a
\* restore under way holds nothing that is no longer there.
PoolKept(b) ==
    /\ pool[b] = poolWant[b]
    /\ pool[b] # 0 => "controller" \in poolOwners[b]
    /\ qcmd.op = "pricing" =>
         /\ qcmd.at \in {"sync", "read"} /\ pool[b] = 0 => qcmd.snap[b] = 0
         /\ qcmd.at = "restore" => qcmd.cur[b] = pool[b] /\ (pool[b] = 0 => qcmd.snap[b] = 0)
PoolIInv == \A b \in Buys \ raced : PoolKept(b)

RecordsIInv == RecordsTypeOK /\ PayIInv /\ BrandIInv /\ PoolIInv

USE DEF sellerVars, payVars, brandVars, poolVars, askVars, sellerCounts

PricingCommands ==
    [op : {"pricing"}, at : {"sync", "read", "restore", "secret", "config", "record"},
     wallet : Payees, snap : Pools, cur : Pools]
UpCommands == [op : {"up"}, at : {"sync", "secret", "config", "clean", "dirty"}]
BrandCommands ==
    [op : {"brand"}, at : {"record", "apply", "delete"}, fields : SUBSET Fields, profile : Branding]

LEMMA RecordCommandKinds == RecordCommands = {QIdle} \cup PricingCommands \cup UpCommands \cup BrandCommands
BY DEF RecordCommands, PricingCommands, UpCommands, BrandCommands

LEMMA RecordCommandParts ==
    ASSUME RecordsTypeOK
    PROVE  /\ qcmd.op \in {"none", "pricing", "up", "brand"}
           /\ qcmd.op = "none" <=> qcmd = QIdle
           /\ qcmd.op = "pricing" => qcmd \in PricingCommands
           /\ qcmd.op = "up" => qcmd \in UpCommands
           /\ qcmd.op = "brand" => qcmd \in BrandCommands
           /\ QIdle.op = "none"
<1>0. QIdle.op = "none"
  BY DEF QIdle
<1>1. CASE qcmd = QIdle
  BY <1>0, <1>1
<1>2. CASE qcmd \in PricingCommands
  BY <1>0, <1>2 DEF PricingCommands
<1>3. CASE qcmd \in UpCommands
  BY <1>0, <1>3 DEF UpCommands
<1>4. CASE qcmd \in BrandCommands
  BY <1>0, <1>4 DEF BrandCommands
<1> QED BY <1>1, <1>2, <1>3, <1>4, RecordCommandKinds DEF RecordsTypeOK

\* What the API server's apply leaves is of the type of the pools.
LEMMA AppliedPools ==
    ASSUME RecordsTypeOK, NEW data \in Pools, ServerSideApplied(data)
    PROVE  pool' \in Pools /\ poolOwners' \in [Buys -> SUBSET {"helm", "controller"}]
BY DEF RecordsTypeOK, ServerSideApplied, Pools

LEMMA ProfileTypes ==
    ASSUME RecordsTypeOK, NEW failed \in BOOLEAN
    PROVE  /\ LoadSellerProfile(failed) \in Branding /\ NoBrand \in Branding
           /\ \A patch \in Branding : MergeProfile(LoadSellerProfile(failed), patch) \in Branding
           /\ \A cleared \in SUBSET Fields :
                ClearProfileFields(LoadSellerProfile(failed), cleared) \in Branding
BY DEF RecordsTypeOK, LoadSellerProfile, MergeProfile, ClearProfileFields, NoBrand, Branding

LEMMA RecordsTypeStep ==
    ASSUME RecordsTypeOK, [RecordsNext]_sellerVars
    PROVE  RecordsTypeOK'
<1> USE RecordCommandParts, RecordCommandKinds
<1>g. ASSUME NEW op, NEW a, NEW b, QAt(op, a), QGoto(b),
             \/ op = "pricing" /\ b \in {"read", "restore", "secret", "config", "record"}
             \/ op = "up" /\ b \in {"secret", "config", "clean", "dirty"}
             \/ op = "brand" /\ b = "apply"
      PROVE  qcmd' \in RecordCommands
  BY <1>g DEF QAt, QGoto, PricingCommands, UpCommands, BrandCommands
<1>0. CASE UNCHANGED sellerVars
  BY <1>0 DEF RecordsTypeOK
<1>1. ASSUME NEW w \in Payees, SellPricing(w) PROVE RecordsTypeOK'
  <2>1. qcmd' \in PricingCommands
    BY <1>1 DEF SellPricing, QBegin, PricingCommands, RecordsTypeOK
  <2> QED BY <1>1, <2>1 DEF SellPricing, RecordsTypeOK
<1>z. ASSUME SyncBaseRelease
      PROVE  /\ pool' \in Pools /\ poolOwners' \in [Buys -> SUBSET {"helm", "controller"}]
             /\ payRec' \in 0..2 /\ payCM' \in 0..2 /\ paySecret' \in 0..2 /\ unlock' \in BOOLEAN
             /\ priced' \in BOOLEAN /\ branded' \in BOOLEAN
  <2>1. [b \in Buys |-> 0] \in Pools
    BY DEF Pools
  <2>2. pool' \in Pools /\ poolOwners' \in [Buys -> SUBSET {"helm", "controller"}]
    BY <1>z, <2>1, AppliedPools DEF SyncBaseRelease
  <2>3. /\ payRec' = payRec /\ payCM' = 0 /\ paySecret' = 0 /\ unlock' = TRUE
        /\ priced' = FALSE /\ branded' = branded
    BY <1>z DEF SyncBaseRelease
  <2>4. payRec' \in 0..2 /\ payCM' \in 0..2 /\ paySecret' \in 0..2
    BY <2>3 DEF RecordsTypeOK
  <2>5. unlock' \in BOOLEAN /\ priced' \in BOOLEAN /\ branded' \in BOOLEAN
    BY <2>3 DEF RecordsTypeOK
  <2> QED BY <2>2, <2>4, <2>5
<1>2. CASE PricingSyncs
  <2>1. qcmd' \in RecordCommands
    BY <1>2, <1>g DEF PricingSyncs
  <2>2. askedPayee' \subseteq 0..2
    BY <1>2 DEF PricingSyncs, RecordsTypeOK
  <2>3. UNCHANGED <<brandRec, brandCM, brandShown, poolWant, raced, qcluster, askedBrand>>
    BY <1>2 DEF PricingSyncs
  <2> QED BY <1>2, <1>z, <2>1, <2>2, <2>3 DEF PricingSyncs, RecordsTypeOK
<1>3. CASE RestoreReads
  <2>1. qcmd' \in PricingCommands
    BY <1>3 DEF RestoreReads, QAt, PricingCommands, RecordsTypeOK
  <2> QED BY <1>3, <2>1 DEF RestoreReads, RecordsTypeOK
<1>4. CASE RestoreApplies
  <2>1. qcmd' \in RecordCommands
    BY <1>4, <1>g DEF RestoreApplies
  <2>2. MergeRuntimeConfigMapData(qcmd.cur, qcmd.snap) \in Pools
    BY <1>4 DEF RestoreApplies, QAt, PricingCommands, MergeRuntimeConfigMapData, Pools
  <2>3. pool' \in Pools /\ poolOwners' \in [Buys -> SUBSET {"helm", "controller"}]
    BY <1>4, <2>2, AppliedPools DEF RestoreApplies, RecordsTypeOK
  <2> QED BY <1>4, <2>1, <2>3 DEF RestoreApplies, RecordsTypeOK
<1>5. CASE PatchWalletSecret
  <2>1. qcmd' \in RecordCommands
    BY <1>5, <1>g DEF PatchWalletSecret
  <2> QED BY <1>5, <2>1 DEF PatchWalletSecret, QAt, PricingCommands, Payees, RecordsTypeOK
<1>6. CASE PatchPricingConfig
  <2>1. qcmd' \in RecordCommands
    BY <1>6, <1>g DEF PatchPricingConfig
  <2>2. qcmd.wallet \in 0..2
    BY <1>6 DEF PatchPricingConfig, QAt, PricingCommands, Payees
  <2>3. /\ payCM' \in 0..2 /\ unlock' = FALSE /\ askedPayee' \subseteq 0..2
        /\ UNCHANGED <<payRec, paySecret, brandVars, poolVars, qcluster, askedBrand, priced, branded>>
    BY <1>6, <2>2 DEF PatchPricingConfig, RecordsTypeOK
  <2> QED BY <2>1, <2>3 DEF RecordsTypeOK
<1>7. CASE SaveRecordedPricing
  <2>1. qcmd.wallet \in 0..2
    BY <1>7 DEF SaveRecordedPricing, QAt, PricingCommands, Payees
  <2>2. /\ payRec' \in 0..2 /\ askedPayee' \subseteq 0..2 /\ qcmd' = QIdle /\ priced' = TRUE
        /\ UNCHANGED <<payCM, paySecret, unlock, brandVars, poolVars, qcluster, askedBrand, branded>>
    BY <1>7, <2>1 DEF SaveRecordedPricing, RecordsTypeOK
  <2> QED BY <2>2 DEF RecordsTypeOK
<1>8. CASE StackUpBackfills
  <2>1. qcmd' \in UpCommands
    BY <1>8 DEF StackUpBackfills, QBegin, UpCommands
  <2> QED BY <1>8, <2>1 DEF StackUpBackfills, BackfillRecordedPricing, RecordsTypeOK
<1>9. CASE StackUpSyncs
  <2>1. qcmd' \in RecordCommands
    BY <1>9, <1>g DEF StackUpSyncs
  <2> QED BY <1>9, <1>z, <2>1 DEF StackUpSyncs, RecordsTypeOK
<1>10. CASE ReconcilePricingSecret
  <2>1. qcmd' \in RecordCommands
    BY <1>10, <1>g DEF ReconcilePricingSecret
  <2> QED BY <1>10, <2>1 DEF ReconcilePricingSecret, Reconciled, RecordsTypeOK
<1>11. CASE ReconcilePricingConfig
  <2>1. qcmd' \in RecordCommands
    BY <1>11, <1>g DEF ReconcilePricingConfig
  <2> QED BY <1>11, <2>1 DEF ReconcilePricingConfig, Reconciled, RecordsTypeOK
<1>12. CASE ReconcileRecordedProfile
  BY <1>12 DEF ReconcileRecordedProfile, RecordsTypeOK
<1>13. CASE BrandCommand
  <2>1. PICK failed \in BOOLEAN : SetOrResetProfile(failed)
    BY <1>13 DEF BrandCommand
  <2>2. qcmd' \in BrandCommands
    <3>1. CASE \E patch \in Branding \ {NoBrand} :
                 qcmd' = [op |-> "brand", at |-> "record", fields |-> {f \in Fields : patch[f] # 0},
                          profile |-> MergeProfile(LoadSellerProfile(failed), patch)]
      BY <3>1, ProfileTypes DEF BrandCommands
    <3>2. CASE \E cleared \in SUBSET Fields \ {{}} :
                 LET p == ClearProfileFields(LoadSellerProfile(failed), cleared) IN
                 qcmd' = [op |-> "brand", at |-> IF p = NoBrand THEN "delete" ELSE "record",
                          fields |-> cleared, profile |-> p]
      BY <3>2, ProfileTypes DEF BrandCommands
    <3> QED BY <2>1, <3>1, <3>2 DEF SetOrResetProfile, QBegin
  <2> QED BY <1>13, <2>2 DEF BrandCommand, RecordsTypeOK
<1>a. ASSUME NEW sure \in BOOLEAN, AskedFor(sure), qcmd.op = "brand"
      PROVE  askedBrand' \in [Fields -> SUBSET (0..2)]
  BY <1>a DEF AskedFor, BrandCommands, Branding, RecordsTypeOK
<1>14. CASE WriteProfileRecord
  <2>1. qcmd' \in RecordCommands
    BY <1>14, <1>g DEF WriteProfileRecord
  <2>2. brandRec' \in Branding /\ askedBrand' \in [Fields -> SUBSET (0..2)]
    BY <1>14, <1>a DEF WriteProfileRecord, QAt, BrandCommands
  <2> QED BY <1>14, <2>1, <2>2 DEF WriteProfileRecord, RecordsTypeOK
<1>15. CASE ApplyOrDeleteProfile
  <2>1. NoBrand \in Branding
    BY DEF NoBrand, Branding
  <2>2. brandCM' \in Branding /\ brandRec' \in Branding
    BY <1>15, <2>1 DEF ApplyOrDeleteProfile, QAt, BrandCommands, RecordsTypeOK
  <2>3. askedBrand' \in [Fields -> SUBSET (0..2)]
    BY <1>15, <1>a DEF ApplyOrDeleteProfile, QAt
  <2> QED BY <1>15, <2>2, <2>3 DEF ApplyOrDeleteProfile, RecordsTypeOK
<1>16. CASE RecordCut
  BY <1>16 DEF RecordCut, RecordsTypeOK
<1>17. CASE SellerClusterGone
  <2>1. NoBrand \in Branding
    BY DEF NoBrand, Branding
  <2>2. pool' \in Pools /\ poolWant' \in Pools /\ poolOwners' \in [Buys -> SUBSET {"helm", "controller"}]
    BY <1>17 DEF SellerClusterGone, Pools
  <2>3. /\ askedPayee' \subseteq 0..2 /\ raced' = {} /\ qcluster' = FALSE /\ priced' = FALSE
        /\ branded' \in BOOLEAN /\ payCM' = 0 /\ paySecret' = 0 /\ unlock' = FALSE
        /\ brandCM' = NoBrand /\ brandShown' = NoBrand
        /\ UNCHANGED <<payRec, brandRec, qcmd, askedBrand>>
    BY <1>17 DEF SellerClusterGone, RecordsTypeOK
  <2>4. /\ payRec' \in 0..2 /\ payCM' \in 0..2 /\ paySecret' \in 0..2 /\ askedPayee' \subseteq 0..2
        /\ raced' \subseteq Buys
    BY <2>3 DEF RecordsTypeOK
  <2>5. /\ unlock' \in BOOLEAN /\ priced' \in BOOLEAN /\ branded' \in BOOLEAN /\ qcluster' \in BOOLEAN
        /\ brandRec' \in Branding /\ brandCM' \in Branding /\ brandShown' \in Branding
        /\ qcmd' \in RecordCommands /\ askedBrand' \in [Fields -> SUBSET (0..2)]
    BY <2>1, <2>3 DEF RecordsTypeOK
  <2> QED BY <2>2, <2>4, <2>5 DEF RecordsTypeOK
<1>18. CASE PublishBranding
  BY <1>18 DEF PublishBranding, RecordsTypeOK
<1>19. ASSUME NEW b \in Buys, NEW v \in 0..2, ControllerWritesPool(b, v) PROVE RecordsTypeOK'
  <2>1. pool' \in Pools /\ poolWant' \in Pools /\ poolOwners' \in [Buys -> SUBSET {"helm", "controller"}]
    BY <1>19 DEF ControllerWritesPool, Pools, RecordsTypeOK
  <2> QED BY <1>19, <2>1 DEF ControllerWritesPool, RecordsTypeOK
<1> QED
  BY <1>0, <1>1, <1>2, <1>3, <1>4, <1>5, <1>6, <1>7, <1>8, <1>9, <1>10, <1>11, <1>12, <1>13, <1>14,
     <1>15, <1>16, <1>17, <1>18, <1>19 DEF RecordsNext

\* Where the money goes.  A sync and the replay after it are the only steps
\* that empty the recipient, and they end with the recorded one.
LEMMA PayStep ==
    ASSUME RecordsTypeOK, PayIInv, [RecordsNext]_sellerVars
    PROVE  PayIInv'
<1> USE RecordCommandParts DEF PayIInv
<1>a. ASSUME UNCHANGED <<payRec, payCM, paySecret, askedPayee, priced>>, qcmd' = QIdle \/ qcmd'.op = "brand"
      PROVE  PayIInv'
  BY <1>a DEF PayKept, PricingUnderWay, UpUnderWay, BackfillRecordedPricing
<1>b. ASSUME UNCHANGED <<payRec, payCM, paySecret, askedPayee, priced>>, qcmd' = qcmd
      PROVE  PayIInv'
  BY <1>b DEF PayKept, PricingUnderWay, UpUnderWay, BackfillRecordedPricing
<1>0. CASE UNCHANGED sellerVars
  BY <1>0, <1>b
<1>1. ASSUME NEW w \in Payees, SellPricing(w) PROVE PayIInv'
  <2>1. qcmd'.op = "pricing" /\ qcmd'.at = "sync"
    BY <1>1 DEF SellPricing, QBegin
  <2> QED BY <1>1, <2>1 DEF SellPricing, PayKept, PricingUnderWay, UpUnderWay, BackfillRecordedPricing
<1>g. ASSUME NEW op, NEW a, NEW b, QAt(op, a), QGoto(b), op \in {"pricing", "up", "brand"}
      PROVE  /\ qcmd.op = op /\ qcmd.at = a /\ qcmd'.op = op /\ qcmd'.at = b
             /\ op = "pricing" => qcmd'.wallet = qcmd.wallet /\ qcmd.wallet \in Payees
  BY <1>g DEF QAt, QGoto, PricingCommands, UpCommands, BrandCommands
<1>2. CASE PricingSyncs
  <2>1. qcmd'.op = "pricing" /\ qcmd'.at = "read"
    BY <1>2, <1>g DEF PricingSyncs
  <2>2. /\ payCM' = 0 /\ priced' = FALSE /\ payRec' = payRec
        /\ askedPayee' = IF payRec = 0 THEN askedPayee \cup {0} ELSE askedPayee
    BY <1>2 DEF PricingSyncs, SyncBaseRelease
  <2> QED BY <2>1, <2>2 DEF PayKept, PricingUnderWay, UpUnderWay, BackfillRecordedPricing
<1>3. CASE RestoreReads
  <2>1. qcmd'.op = "pricing" /\ qcmd'.at = "restore" /\ qcmd.at # "sync"
    BY <1>3 DEF RestoreReads, QAt, PricingCommands
  <2> QED BY <1>3, <2>1
          DEF RestoreReads, QAt, PayKept, PricingUnderWay, UpUnderWay, BackfillRecordedPricing
<1>4. CASE RestoreApplies
  <2>1. qcmd'.op = "pricing" /\ qcmd'.at = "secret" /\ qcmd.op = "pricing" /\ qcmd.at # "sync"
    BY <1>4, <1>g DEF RestoreApplies
  <2> QED BY <1>4, <2>1
          DEF RestoreApplies, PayKept, PricingUnderWay, UpUnderWay, BackfillRecordedPricing
<1>5. CASE PatchWalletSecret
  <2>1. /\ qcmd'.op = "pricing" /\ qcmd'.at = "config" /\ qcmd.op = "pricing" /\ qcmd.at # "sync"
        /\ qcmd'.wallet = qcmd.wallet
    BY <1>5, <1>g DEF PatchWalletSecret
  <2> QED BY <1>5, <2>1
          DEF PatchWalletSecret, PayKept, PricingUnderWay, UpUnderWay, BackfillRecordedPricing
<1>6. CASE PatchPricingConfig
  <2>1. /\ qcmd'.op = "pricing" /\ qcmd'.at = "record" /\ qcmd.op = "pricing" /\ qcmd.at = "config"
        /\ qcmd'.wallet = qcmd.wallet
    BY <1>6, <1>g DEF PatchPricingConfig
  <2> QED BY <1>6, <2>1
          DEF PatchPricingConfig, PayKept, PricingUnderWay, UpUnderWay, BackfillRecordedPricing
<1>7. CASE SaveRecordedPricing
  <2>1. qcmd.op = "pricing" /\ qcmd.at = "record" /\ qcmd.wallet \in 1..2 /\ qcmd'.op = "none"
    BY <1>7 DEF SaveRecordedPricing, QAt, PricingCommands, Payees
  <2> QED BY <1>7, <2>1
          DEF SaveRecordedPricing, PayKept, PricingUnderWay, UpUnderWay, BackfillRecordedPricing
<1>8. CASE StackUpBackfills
  <2>1. qcmd'.op = "up" /\ qcmd'.at = "sync"
    BY <1>8 DEF StackUpBackfills, QBegin
  <2> QED BY <1>8, <2>1
          DEF StackUpBackfills, PayKept, PricingUnderWay, UpUnderWay, BackfillRecordedPricing
<1>9. CASE StackUpSyncs
  <2>1. qcmd'.op = "up" /\ qcmd'.at = "secret" /\ qcmd.op = "up" /\ qcmd.at = "sync"
    BY <1>9, <1>g DEF StackUpSyncs
  <2>2. /\ payCM' = 0 /\ paySecret' = 0 /\ priced' = FALSE /\ payRec' = payRec /\ askedPayee' = askedPayee
    BY <1>9 DEF StackUpSyncs, SyncBaseRelease
  <2> QED BY <2>1, <2>2 DEF PayKept, PricingUnderWay, UpUnderWay, BackfillRecordedPricing
<1>10. CASE ReconcilePricingSecret
  <2>1. /\ qcmd'.op = "up" /\ qcmd'.at \in {"config", "dirty"} /\ qcmd.op = "up" /\ qcmd.at = "secret"
        /\ qcmd'.at = "config" => paySecret' = Reconciled(payRec, paySecret)
    BY <1>10, <1>g DEF ReconcilePricingSecret
  <2> QED BY <1>10, <2>1
          DEF ReconcilePricingSecret, Reconciled, PayKept, PricingUnderWay, UpUnderWay, BackfillRecordedPricing
<1>11. CASE ReconcilePricingConfig
  <2>1. /\ qcmd'.op = "up" /\ qcmd'.at \in {"clean", "dirty"} /\ qcmd.op = "up" /\ qcmd.at = "config"
        /\ payCM' = Reconciled(payRec, payCM) \/ (qcmd'.at = "dirty" /\ payCM' = payCM)
    BY <1>11, <1>g DEF ReconcilePricingConfig
  <2>2. UNCHANGED <<payRec, paySecret, askedPayee, priced>>
    BY <1>11 DEF ReconcilePricingConfig
  <2> QED BY <2>1, <2>2
          DEF Reconciled, PayKept, PricingUnderWay, UpUnderWay, BackfillRecordedPricing
<1>12. CASE ReconcileRecordedProfile
  <2>1. qcmd'.op = "none" /\ qcmd.op = "up" /\ priced' = (qcmd.at = "clean")
        /\ UNCHANGED <<payRec, payCM, paySecret, askedPayee>>
    BY <1>12 DEF ReconcileRecordedProfile
  <2> QED BY <2>1 DEF PayKept, PricingUnderWay, UpUnderWay, BackfillRecordedPricing
<1>13. CASE BrandCommand
  <2>1. qcmd'.op = "brand"
    <3>1. PICK failed \in BOOLEAN : SetOrResetProfile(failed)
      BY <1>13 DEF BrandCommand
    <3> QED BY <3>1 DEF SetOrResetProfile, QBegin
  <2> QED BY <1>13, <2>1, <1>a DEF BrandCommand
<1>14. CASE WriteProfileRecord
  BY <1>14, <1>a, <1>g DEF WriteProfileRecord
<1>15. CASE ApplyOrDeleteProfile
  BY <1>15, <1>a DEF ApplyOrDeleteProfile
<1>16. CASE RecordCut
  BY <1>16, <1>a DEF RecordCut
<1>17. CASE SellerClusterGone
  BY <1>17 DEF SellerClusterGone, PayKept, PricingUnderWay, UpUnderWay, BackfillRecordedPricing
<1>18. CASE PublishBranding
  BY <1>18, <1>b DEF PublishBranding
<1>19. ASSUME NEW b \in Buys, NEW v \in 0..2, ControllerWritesPool(b, v) PROVE PayIInv'
  BY <1>19, <1>b DEF ControllerWritesPool
<1> QED
  BY <1>0, <1>1, <1>2, <1>3, <1>4, <1>5, <1>6, <1>7, <1>8, <1>9, <1>10, <1>11, <1>12, <1>13, <1>14,
     <1>15, <1>16, <1>17, <1>18, <1>19 DEF RecordsNext

\* The branding.  A command works its profile out of one that is as asked for,
\* and nobody else asks between its steps.
LEMMA BrandStep ==
    ASSUME RecordsTypeOK, BrandIInv, [RecordsNext]_sellerVars
    PROVE  BrandIInv'
<1> USE RecordCommandParts
<1>a. ASSUME UNCHANGED <<brandRec, brandCM, branded, askedBrand>>, qcmd' = qcmd \/ qcmd'.op # "brand"
      PROVE  BrandIInv'
  BY <1>a DEF BrandIInv
<1>g. ASSUME NEW op, NEW a, NEW b, QAt(op, a), QGoto(b), op \in {"pricing", "up", "brand"}
      PROVE  /\ qcmd.op = op /\ qcmd.at = a /\ qcmd'.op = op /\ qcmd'.at = b
             /\ op = "brand" => qcmd'.fields = qcmd.fields /\ qcmd'.profile = qcmd.profile
  BY <1>g DEF QAt, QGoto, PricingCommands, UpCommands, BrandCommands
<1>t. /\ brandRec \in Branding /\ brandCM \in Branding /\ NoBrand \in Branding
      /\ askedBrand \in [Fields -> SUBSET (0..2)] /\ \A f \in Fields : NoBrand[f] = 0
  BY DEF RecordsTypeOK, NoBrand, Branding
<1>0. CASE UNCHANGED sellerVars
  BY <1>0, <1>a
<1>1. ASSUME NEW w \in Payees, SellPricing(w) PROVE BrandIInv'
  BY <1>1, <1>a DEF SellPricing, QBegin
<1>2. CASE PricingSyncs
  BY <1>2, <1>a, <1>g DEF PricingSyncs, SyncBaseRelease
<1>3. CASE RestoreReads
  <2>1. qcmd'.op = "pricing"
    BY <1>3 DEF RestoreReads, QAt, PricingCommands
  <2> QED BY <1>3, <1>a, <2>1 DEF RestoreReads
<1>4. CASE RestoreApplies
  BY <1>4, <1>a, <1>g DEF RestoreApplies
<1>5. CASE PatchWalletSecret
  BY <1>5, <1>a, <1>g DEF PatchWalletSecret
<1>6. CASE PatchPricingConfig
  BY <1>6, <1>a, <1>g DEF PatchPricingConfig
<1>7. CASE SaveRecordedPricing
  BY <1>7, <1>a DEF SaveRecordedPricing
<1>8. CASE StackUpBackfills
  BY <1>8, <1>a DEF StackUpBackfills, QBegin
<1>9. CASE StackUpSyncs
  BY <1>9, <1>a, <1>g DEF StackUpSyncs, SyncBaseRelease
<1>10. CASE ReconcilePricingSecret
  BY <1>10, <1>a, <1>g DEF ReconcilePricingSecret
<1>11. CASE ReconcilePricingConfig
  BY <1>11, <1>a, <1>g DEF ReconcilePricingConfig
<1>12. CASE ReconcileRecordedProfile
  <2>1. /\ qcmd'.op = "none" /\ UNCHANGED <<brandRec, askedBrand>>
        /\ \/ brandCM' = (IF brandRec = NoBrand THEN brandCM ELSE brandRec) /\ branded' = TRUE
           \/ UNCHANGED <<brandCM, branded>>
    BY <1>12 DEF ReconcileRecordedProfile
  <2>2. CASE UNCHANGED <<brandCM, branded>>
    BY <1>a, <2>1, <2>2
  <2>3. CASE brandCM' = (IF brandRec = NoBrand THEN brandCM ELSE brandRec)
    <3>1. \A f \in Fields : brandCM'[f] \in askedBrand[f]
      BY <2>3 DEF BrandIInv
    <3> QED BY <2>1, <3>1 DEF BrandIInv
  <2> QED BY <2>1, <2>2, <2>3
<1>13. CASE BrandCommand
  <2>1. PICK failed \in BOOLEAN : SetOrResetProfile(failed)
    BY <1>13 DEF BrandCommand
  <2>2. \A f \in Fields : LoadSellerProfile(failed)[f] \in askedBrand[f]
    BY DEF BrandIInv, LoadSellerProfile
  <2>3. /\ qcmd'.op = "brand" /\ qcmd'.at \in {"record", "delete"}
        /\ \A f \in Fields \ qcmd'.fields : qcmd'.profile[f] \in askedBrand[f]
        /\ qcmd'.at = "delete" => qcmd'.profile = NoBrand
    <3>1. CASE \E patch \in Branding \ {NoBrand} :
                 qcmd' = [op |-> "brand", at |-> "record", fields |-> {f \in Fields : patch[f] # 0},
                          profile |-> MergeProfile(LoadSellerProfile(failed), patch)]
      BY <2>2, <3>1 DEF MergeProfile
    <3>2. CASE \E cleared \in SUBSET Fields \ {{}} :
                 LET p == ClearProfileFields(LoadSellerProfile(failed), cleared) IN
                 qcmd' = [op |-> "brand", at |-> IF p = NoBrand THEN "delete" ELSE "record",
                          fields |-> cleared, profile |-> p]
      BY <2>2, <3>2 DEF ClearProfileFields
    <3> QED BY <2>1, <3>1, <3>2 DEF SetOrResetProfile, QBegin
  <2>4. UNCHANGED <<brandRec, brandCM, branded, askedBrand>>
    BY <1>13 DEF BrandCommand
  <2> QED BY <2>3, <2>4 DEF BrandIInv
<1>14. CASE WriteProfileRecord
  <2>1. /\ qcmd.op = "brand" /\ qcmd'.op = "brand" /\ qcmd'.at = "apply"
        /\ qcmd'.fields = qcmd.fields /\ qcmd'.profile = qcmd.profile
    BY <1>14, <1>g DEF WriteProfileRecord
  <2>2. brandRec' = qcmd.profile /\ UNCHANGED <<brandCM, branded>>
    BY <1>14 DEF WriteProfileRecord
  <2>3. \A f \in Fields : /\ askedBrand[f] \subseteq askedBrand'[f]
                          /\ f \in qcmd.fields => qcmd.profile[f] \in askedBrand'[f]
    BY <1>14, <1>t DEF WriteProfileRecord, AskedFor
  <2> QED BY <2>1, <2>2, <2>3 DEF BrandIInv
<1>15. CASE ApplyOrDeleteProfile
  <2>0. qcmd' = QIdle /\ branded' = TRUE /\ qcmd.op = "brand"
    BY <1>15 DEF ApplyOrDeleteProfile, QAt
  <2>1. CASE QAt("brand", "apply") /\ brandCM' = qcmd.profile /\ AskedFor(TRUE) /\ UNCHANGED brandRec
    <3>1. \A f \in Fields : qcmd.profile[f] \in askedBrand'[f]
      BY <2>0, <2>1 DEF AskedFor, BrandIInv
    <3>2. brandRec = qcmd.profile
      BY <2>0, <2>1 DEF QAt, BrandIInv
    <3> QED BY <2>0, <2>1, <3>1, <3>2 DEF BrandIInv
  <2>2. CASE QAt("brand", "delete") /\ brandCM' = NoBrand /\ brandRec' = NoBrand /\ AskedFor(TRUE)
    <3>1. qcmd.profile = NoBrand
      BY <2>0, <2>2 DEF QAt, BrandIInv
    <3>2. \A f \in Fields : qcmd.profile[f] \in askedBrand'[f]
      BY <2>0, <2>2 DEF AskedFor, BrandIInv
    <3> QED BY <2>0, <2>2, <3>1, <3>2 DEF BrandIInv
  <2>3. CASE QAt("brand", "delete") /\ brandCM' = NoBrand /\ UNCHANGED brandRec /\ AskedFor(FALSE)
    <3>1. qcmd.profile = NoBrand
      BY <2>0, <2>3 DEF QAt, BrandIInv
    <3>2. \A f \in Fields : askedBrand[f] \subseteq askedBrand'[f] /\ qcmd.profile[f] \in askedBrand'[f]
      BY <2>0, <2>3, <1>t DEF AskedFor, BrandIInv
    <3> QED BY <2>0, <2>3, <3>1, <3>2 DEF BrandIInv
  <2> QED BY <1>15, <2>1, <2>2, <2>3 DEF ApplyOrDeleteProfile
<1>16. CASE RecordCut
  BY <1>16, <1>a DEF RecordCut
<1>17. CASE SellerClusterGone
  <2>1. /\ branded' = (brandRec = NoBrand) /\ brandCM' = NoBrand /\ UNCHANGED <<brandRec, askedBrand>>
        /\ qcmd' = QIdle
    BY <1>17 DEF SellerClusterGone
  <2> QED BY <2>1 DEF BrandIInv
<1>18. CASE PublishBranding
  BY <1>18, <1>a DEF PublishBranding
<1>19. ASSUME NEW b \in Buys, NEW v \in 0..2, ControllerWritesPool(b, v) PROVE BrandIInv'
  BY <1>19, <1>a DEF ControllerWritesPool
<1> QED
  BY <1>0, <1>1, <1>2, <1>3, <1>4, <1>5, <1>6, <1>7, <1>8, <1>9, <1>10, <1>11, <1>12, <1>13, <1>14,
     <1>15, <1>16, <1>17, <1>18, <1>19 DEF RecordsNext

\* The pools.  A sync takes only what the controller does not own; a restore
\* puts back what it read, or an entry of the snapshot that the controller
\* took away meanwhile, and those are the raced ones.
LEMMA PoolStep ==
    ASSUME RecordsTypeOK, PoolIInv, [RecordsNext]_sellerVars
    PROVE  PoolIInv'
<1> USE RecordCommandParts
<1>a. ASSUME UNCHANGED poolVars,
             qcmd' = qcmd \/ qcmd'.op # "pricing" \/ qcmd'.at \in {"secret", "config", "record"}
      PROVE  PoolIInv'
  BY <1>a DEF PoolIInv, PoolKept
<1>g. ASSUME NEW op, NEW a, NEW b, QAt(op, a), QGoto(b), op \in {"pricing", "up", "brand"}
      PROVE  /\ qcmd.op = op /\ qcmd.at = a /\ qcmd'.op = op /\ qcmd'.at = b
             /\ op = "pricing" => qcmd'.snap = qcmd.snap /\ qcmd'.cur = qcmd.cur
  BY <1>g DEF QAt, QGoto, PricingCommands, UpCommands, BrandCommands
<1>s. ASSUME SyncBaseRelease, NEW b \in Buys \ raced
      PROVE  pool'[b] = pool[b] /\ (pool[b] # 0 => "controller" \in poolOwners'[b])
  <2>1. /\ pool'[b] = (IF poolOwners[b] \ {"helm"} = {} THEN 0 ELSE pool[b])
        /\ poolOwners'[b] = poolOwners[b] \ {"helm"}
    BY <1>s DEF SyncBaseRelease, ServerSideApplied
  <2>2. pool[b] # 0 => "controller" \in poolOwners[b]
    BY <1>s DEF PoolIInv, PoolKept
  <2> QED BY <2>1, <2>2
<1>0. CASE UNCHANGED sellerVars
  BY <1>0, <1>a
<1>1. ASSUME NEW w \in Payees, SellPricing(w) PROVE PoolIInv'
  <2>1. qcmd'.at = "sync" /\ qcmd'.snap = pool /\ UNCHANGED poolVars
    BY <1>1 DEF SellPricing, QBegin
  <2> QED BY <2>1 DEF PoolIInv, PoolKept
<1>2. CASE PricingSyncs
  <2>1. /\ qcmd.op = "pricing" /\ qcmd.at = "sync" /\ qcmd'.at = "read" /\ qcmd'.snap = qcmd.snap
        /\ UNCHANGED <<poolWant, raced>> /\ SyncBaseRelease
    BY <1>2, <1>g DEF PricingSyncs
  <2> QED BY <2>1, <1>s DEF PoolIInv, PoolKept
<1>3. CASE RestoreReads
  <2>1. /\ qcmd.op = "pricing" /\ qcmd.at = "read" /\ qcmd'.at = "restore" /\ qcmd'.snap = qcmd.snap
        /\ qcmd'.cur = pool /\ UNCHANGED poolVars
    BY <1>3 DEF RestoreReads, QAt, PricingCommands
  <2> QED BY <2>1 DEF PoolIInv, PoolKept
<1>4. CASE RestoreApplies
  <2>1. qcmd.op = "pricing" /\ qcmd.at = "restore" /\ qcmd'.at = "secret" /\ UNCHANGED <<poolWant, raced>>
    BY <1>4, <1>g DEF RestoreApplies
  <2>2. ASSUME NEW b \in Buys \ raced
        PROVE  pool'[b] = pool[b] /\ (pool[b] # 0 => "controller" \in poolOwners'[b])
    <3> DEFINE data == MergeRuntimeConfigMapData(qcmd.cur, qcmd.snap)
    <3>1. PoolKept(b)
      BY DEF PoolIInv
    <3>2. CASE UNCHANGED <<pool, poolOwners>>
      BY <3>1, <3>2 DEF PoolKept
    <3>3. CASE ServerSideApplied(data)
      <4>1. data[b] = pool[b]
        BY <2>1, <3>1 DEF MergeRuntimeConfigMapData, PoolKept
      <4> HIDE DEF data
      <4>2. /\ pool'[b] = (IF data[b] # 0 THEN data[b]
                           ELSE IF poolOwners[b] \ {"helm"} = {} THEN 0 ELSE pool[b])
            /\ data[b] # 0 /\ data[b] = pool[b] => poolOwners'[b] = poolOwners[b] \cup {"helm"}
        BY <3>3 DEF ServerSideApplied
      <4> QED BY <3>1, <4>1, <4>2 DEF PoolKept
    <3> QED BY <1>4, <3>2, <3>3 DEF RestoreApplies
  <2> QED BY <2>1, <2>2 DEF PoolIInv, PoolKept
<1>5. CASE PatchWalletSecret
  BY <1>5, <1>a, <1>g DEF PatchWalletSecret
<1>6. CASE PatchPricingConfig
  BY <1>6, <1>a, <1>g DEF PatchPricingConfig
<1>7. CASE SaveRecordedPricing
  BY <1>7, <1>a DEF SaveRecordedPricing
<1>8. CASE StackUpBackfills
  BY <1>8, <1>a DEF StackUpBackfills, QBegin
<1>9. CASE StackUpSyncs
  <2>1. qcmd'.op = "up" /\ UNCHANGED <<poolWant, raced>> /\ SyncBaseRelease
    BY <1>9, <1>g DEF StackUpSyncs
  <2> QED BY <2>1, <1>s DEF PoolIInv, PoolKept
<1>10. CASE ReconcilePricingSecret
  BY <1>10, <1>a, <1>g DEF ReconcilePricingSecret
<1>11. CASE ReconcilePricingConfig
  BY <1>11, <1>a, <1>g DEF ReconcilePricingConfig
<1>12. CASE ReconcileRecordedProfile
  BY <1>12, <1>a DEF ReconcileRecordedProfile
<1>13. CASE BrandCommand
  <2>1. qcmd'.op = "brand"
    <3>1. PICK failed \in BOOLEAN : SetOrResetProfile(failed)
      BY <1>13 DEF BrandCommand
    <3> QED BY <3>1 DEF SetOrResetProfile, QBegin
  <2> QED BY <1>13, <1>a, <2>1 DEF BrandCommand
<1>14. CASE WriteProfileRecord
  BY <1>14, <1>a, <1>g DEF WriteProfileRecord
<1>15. CASE ApplyOrDeleteProfile
  BY <1>15, <1>a DEF ApplyOrDeleteProfile
<1>16. CASE RecordCut
  BY <1>16, <1>a DEF RecordCut
<1>17. CASE SellerClusterGone
  <2>1. /\ pool' = [b \in Buys |-> 0] /\ poolWant' = [b \in Buys |-> 0] /\ qcmd' = QIdle
    BY <1>17 DEF SellerClusterGone
  <2> QED BY <2>1 DEF PoolIInv, PoolKept
<1>18. CASE PublishBranding
  BY <1>18, <1>a DEF PublishBranding
<1>19. ASSUME NEW b \in Buys, NEW v \in 0..2, ControllerWritesPool(b, v) PROVE PoolIInv'
  <2>1. /\ pool' = [pool EXCEPT ![b] = v] /\ poolWant' = [poolWant EXCEPT ![b] = v]
        /\ poolOwners' = [poolOwners EXCEPT ![b] = IF v = 0 THEN {} ELSE {"controller"}]
        /\ qcmd' = qcmd
        /\ raced' = IF \/ QAt("pricing", "restore")
                       \/ v = 0 /\ qcmd.op = "pricing" /\ qcmd.at \in {"sync", "read"}
                    THEN raced \cup {b} ELSE raced \ {b}
    BY <1>19 DEF ControllerWritesPool
  <2>2. ASSUME NEW c \in Buys \ raced' PROVE PoolKept(c)'
    <3>1. CASE c = b
      <4>1. pool'[b] = v /\ poolWant'[b] = v /\ (v # 0 => poolOwners'[b] = {"controller"})
        BY <2>1 DEF RecordsTypeOK, Pools
      <4>2. ~QAt("pricing", "restore") /\ ~(v = 0 /\ qcmd.op = "pricing" /\ qcmd.at \in {"sync", "read"})
        BY <2>1, <2>2, <3>1
      <4> QED BY <2>1, <3>1, <4>1, <4>2 DEF PoolKept, QAt
    <3>2. CASE c # b
      <4>1. /\ pool'[c] = pool[c] /\ poolWant'[c] = poolWant[c] /\ poolOwners'[c] = poolOwners[c]
            /\ c \notin raced
        BY <2>1, <2>2, <3>2 DEF RecordsTypeOK, Pools
      <4> QED BY <2>1, <2>2, <4>1 DEF PoolIInv, PoolKept
    <3> QED BY <3>1, <3>2
  <2> QED BY <2>2 DEF PoolIInv
<1> QED
  BY <1>0, <1>1, <1>2, <1>3, <1>4, <1>5, <1>6, <1>7, <1>8, <1>9, <1>10, <1>11, <1>12, <1>13, <1>14,
     <1>15, <1>16, <1>17, <1>18, <1>19 DEF RecordsNext

LEMMA RecordsInitial == RecordsInit => RecordsIInv
<1> SUFFICES ASSUME RecordsInit PROVE RecordsIInv
  OBVIOUS
<1>1. brandRec \in Branding
  BY DEF RecordsInit, NoBrand, Branding
<1>2. pool \in Pools /\ poolOwners \in [Buys -> SUBSET {"helm", "controller"}]
  BY DEF RecordsInit, Pools
<1>3. askedBrand \in [Fields -> SUBSET (0..2)]
  BY <1>1 DEF RecordsInit, Branding
<1>4. RecordsTypeOK
  BY <1>1, <1>2, <1>3 DEF RecordsInit, RecordsTypeOK, RecordCommands
<1>5. PayIInv
  BY DEF RecordsInit, PayIInv, PayKept, PricingUnderWay, UpUnderWay, BackfillRecordedPricing, QIdle
<1>6. BrandIInv
  BY DEF RecordsInit, BrandIInv, QIdle
<1>7. PoolIInv
  BY DEF RecordsInit, PoolIInv, PoolKept, QIdle
<1> QED BY <1>4, <1>5, <1>6, <1>7 DEF RecordsIInv

\* However the syncs of the base release, the restores and the replays are cut,
\* fail and race with the controller: once a sync was replayed payments go
\* where the operator said, the branding is one asked for, and the pools are
\* the controller's but for those a restore raced with (record.go
\* reconcilePricing, setup.go restoreMutableRuntimeConfigMaps).
THEOREM RecordsHold == RecordsSpec => []RecordsInv
<1>1. RecordsInit => RecordsIInv
  BY RecordsInitial
<1>2. RecordsIInv /\ [RecordsNext]_sellerVars => RecordsIInv'
  BY RecordsTypeStep, PayStep, BrandStep, PoolStep DEF RecordsIInv
<1>3. RecordsIInv => RecordsInv
  BY DEF RecordsIInv, RecordsInv, PayIInv, PayKept, BrandIInv, PoolIInv, PoolKept,
     PaidToTheOperator, BrandingIsAsAsked, PoolsAreTheControllers
<1> QED BY <1>1, <1>2, <1>3, PTL DEF RecordsSpec
-----------------------------------------------------------------------------
(* The RPC routes: the inductive invariant *)

\* The step a command is at, or goes on to when its write is through.
Writing == rpcCmd.pc \in {"cm", "roll"}
Stage == IF Writing THEN rpcCmd.next ELSE rpcCmd.pc
Patching == rpcCmd.pc = "cm"

UpsertSteps == {"reccustom", "reclist", "nodedone", "delns", "uplist", "upcustom", "upoverlay"}
OverlaySteps == {"setprune", "upprune", "resetdoc"}
ReplaySteps == {"uplist", "upcustom", "upoverlay", "upprune", "updone"}

\* Where a command may be with what was asked and recorded, and what its write
\* is made of.
RPCCommandFits ==
    /\ Writing => rpcCmd.next \in UpsertSteps \cup OverlaySteps
    /\ Writing /\ rpcCmd.next \in OverlaySteps => rpcCmd.changes = NoChange
    /\ Patching /\ rpcCmd.next \in UpsertSteps => rpcCmd.conf = With(rpcCM, rpcCmd.changes)
    /\ Stage \in ReplaySteps \cup {"upnode"} => rpcCmd.up
    /\ rpcCmd # RPCIdle /\ rpcCmd.up =>
         /\ Stage \in ReplaySteps \cup {"upnode", "sync", "register"}
         /\ rpcGood \cap {"node", "overlay"} = {}
    /\ Stage \in SetSteps \ {"set"} => "overlay" \notin rpcGood
    /\ Stage \in {"setprune", "upprune"} => overlay # NoDoc
    /\ Stage = "setapply" => overlay # NoDoc
    /\ Stage = "resetprov" => overlay = NoDoc

\* The pods run what the template's hash names, and what was last written once
\* that is through.
PodsKept ==
    /\ "skew" \in excused \/ rpcStamp \in {NoDoc, rpcPods}
    /\ "served" \in rpcGood /\ "skew" \notin excused => rpcPods = rpcCM

\* Where the operator wants the node.
On == IF nodeFile = "on" /\ nodeRelease THEN 1 ELSE 0

\* The replicas follow the record unless that is not in the cluster yet, and so
\* does the upstream, but for the write that is to bring it in step.
NodeKept ==
    /\ ~nodeRelease => nodeRuns = 0
    /\ "unscaled" \notin excused /\ nodeRelease =>
         nodeFile # "none" /\ nodeRuns = (IF nodeFile = "stopped" THEN 0 ELSE 1)
    /\ Stage \in {"sync", "register", "nodedone", "stop", "start", "stopcluster", "startcluster"} => nodeFile # "none"
    /\ Stage = "stopcluster" => nodeFile = "stopped"
    /\ Stage = "startcluster" => nodeFile = "on"
    /\ Stage \in {"register", "nodedone"} => nodeFile = "stopped" \/ nodeRelease
    /\ Stage \in {"stopcluster", "startcluster", "delns", "deldir"} => "node" \notin rpcGood
    /\ Stage = "deldir" => "unscaled" \in excused \/ ~nodeRelease
    /\ Patching /\ "local" \in DOMAIN rpcCmd.changes =>
         rpcCmd.conf.local = (IF rpcCmd.next = "delns" THEN 0 ELSE On)
    /\ Patching /\ "local" \notin DOMAIN rpcCmd.changes => rpcCmd.conf.local = rpcCM.local
    /\ Patching /\ Stage \in {"nodedone", "delns"} => "local" \in DOMAIN rpcCmd.changes
    /\ Stage = "nodedone" /\ ~Patching => rpcCM.local = On
    /\ rpcCmd.pc = "upnode" => rpcCM.local = 0
    /\ Stage \in ReplaySteps /\ rpcCmd.clean /\ ~(Patching /\ "local" \in DOMAIN rpcCmd.changes) => rpcCM.local = On
    /\ Stage = "delns" /\ ~Patching /\ rpcCmd.clean => rpcCM.local = 0
    /\ Stage = "deldir" /\ rpcCmd.clean /\ "unscaled" \notin excused => rpcCM.local = 0
    /\ Stage \notin {"register", "nodedone"} /\ "node" \in rpcGood /\ "unscaled" \notin excused => rpcCM.local = On

\* A configuration has the document's entries and, where nothing is excused,
\* what would be there without one everywhere else.
Overlays(conf, doc) ==
    \A k \in RPCKeys \ excused : conf[k] = IF k \in KeysOf(doc) THEN OverlayVersion ELSE under[k]

\* What is recorded of the origin of an entry is right unless that is excused;
\* an entry that is not tracked is no overlay's, and one that is tracked may be.
OriginsKept ==
    /\ \A k \in Tracked(prov) \ excused : prov[k] = under[k] /\ rpcCM[k] \in {OverlayVersion, under[k]}
    /\ \A k \in RPCKeys \ (Tracked(prov) \cup excused) : rpcCM[k] = under[k]

OverlayKept ==
    /\ Patching /\ Stage \in {"setprune", "upprune"} => Overlays(rpcCmd.conf, overlay)
    /\ Stage \in {"setprune", "upprune"} => KeysOf(overlay) \subseteq Tracked(prov)
    /\ ~Patching /\ Stage \in {"setprune", "upprune"} => Overlays(rpcCM, overlay)
    /\ Patching /\ Stage = "resetdoc" => Overlays(rpcCmd.conf, NoDoc)
    /\ ~Patching /\ Stage \in {"resetdoc", "resetprov"} => Overlays(rpcCM, NoDoc)
    /\ rpcCmd # RPCIdle /\ rpcCmd.up /\ Stage \notin {"upprune", "updone"} => rpcCM = under
    /\ rpcCmd # RPCIdle /\ rpcCmd.up /\ Stage = "upprune" /\ Patching => rpcCM = under
    /\ Stage = "updone" /\ rpcCmd.clean => Overlays(rpcCM, overlay) /\ KeysOf(overlay) \subseteq Tracked(prov)
    /\ "overlay" \in rpcGood /\ Stage \notin {"resetdoc", "resetprov"} =>
         Overlays(rpcCM, overlay) /\ KeysOf(overlay) \subseteq Tracked(prov)

RPCIInv == RPCTypeOK /\ RPCCommandFits /\ PodsKept /\ NodeKept /\ OriginsKept /\ OverlayKept

-----------------------------------------------------------------------------
(* The RPC routes: lemmas about commands and configurations *)

USE DEF routeVars, overlayVars, recordVars, nodeVars, ghostVars, rpcCounts

LEMMA RPCMarks ==
    /\ DocKeys \subseteq SUBSET Overlaid /\ NoDoc \notin DocKeys
    /\ NoDoc \notin Custom /\ NoDoc \notin RPCConfigs /\ NoDoc \notin Versions
    /\ MaxRPCCmds \in Nat /\ MaxRPCFaults \in Nat
BY RPCAssumption

LEMMA RPCShape ==
    ASSUME RPCTypeOK
    PROVE  /\ rpcCmd.pc \in RPCSteps \/ rpcCmd.pc = "idle" \/ rpcCmd.pc \in {"cm", "roll"}
           /\ rpcCmd = RPCIdle <=> rpcCmd.pc = "idle"
           /\ rpcCmd.pc \in RPCSteps =>
                rpcCmd \in [pc : RPCSteps, arg : Argument(rpcCmd.pc), up : BOOLEAN, clean : BOOLEAN]
           /\ Writing =>
                rpcCmd \in [pc : {"cm", "roll"}, arg : Argument(rpcCmd.next), up : BOOLEAN, clean : BOOLEAN,
                            conf : RPCConfigs, changes : Changes, next : RPCSteps]
<1>1. RPCCommand(rpcCmd)
  BY DEF RPCTypeOK
<1>2. "idle" \notin RPCSteps /\ "cm" \notin RPCSteps /\ "roll" \notin RPCSteps
  BY DEF RPCSteps, CustomSteps, ListSteps, SetSteps, PlainRPCSteps
<1> QED BY <1>1, <1>2 DEF RPCCommand, RPCIdle, Writing

\* A plain step, a write under way and no command, told apart.
AtStep(p) == rpcCmd.pc = p /\ Stage = p /\ ~Writing /\ ~Patching /\ rpcCmd # RPCIdle

LEMMA StepsApart ==
    ASSUME RPCTypeOK
    PROVE  /\ rpcCmd.pc \in RPCSteps => AtStep(rpcCmd.pc)
           /\ rpcCmd = RPCIdle => Stage = "idle" /\ ~Writing /\ ~Patching
           /\ Stage \in RPCSteps \cup {"idle"}
           /\ Stage = "idle" <=> rpcCmd = RPCIdle
           /\ Writing => Stage = rpcCmd.next /\ rpcCmd # RPCIdle
           /\ Patching => Writing
           /\ rpcCmd # RPCIdle => rpcCmd.up \in BOOLEAN /\ rpcCmd.clean \in BOOLEAN
<1>1. "idle" \notin RPCSteps /\ "cm" \notin RPCSteps /\ "roll" \notin RPCSteps
  BY DEF RPCSteps, CustomSteps, ListSteps, SetSteps, PlainRPCSteps
<1> QED BY <1>1, RPCShape DEF AtStep, Stage, Writing, Patching, RPCIdle

\* What the ways of writing the command make of it.
LEMMA Begins ==
    ASSUME NEW p \in RPCSteps, NEW a, RPCBegin(p, a)
    PROVE  /\ rpcCmd = RPCIdle /\ AtStep(p)' /\ rpcCmd'.up = FALSE /\ rpcCmd'.clean = TRUE
           /\ rpcCmd'.arg = a
           /\ rpcCmds' = rpcCmds + 1 /\ rpcCmds < MaxRPCCmds /\ rpcFaults' = rpcFaults
           /\ a \in Argument(p) => RPCCommand(rpcCmd)'
<1>1. "idle" \notin RPCSteps /\ "cm" \notin RPCSteps /\ "roll" \notin RPCSteps
  BY DEF RPCSteps, CustomSteps, ListSteps, SetSteps, PlainRPCSteps
<1>2. rpcCmd' = [pc |-> p, arg |-> a, up |-> FALSE, clean |-> TRUE]
  BY DEF RPCBegin
<1>3. AtStep(p)'
  BY <1>1, <1>2 DEF AtStep, Stage, Writing, Patching, RPCIdle
<1>4. a \in Argument(p) => RPCCommand(rpcCmd)'
  BY <1>2 DEF RPCCommand
<1> QED BY <1>2, <1>3, <1>4 DEF RPCBegin

LEMMA Goes ==
    ASSUME RPCTypeOK, rpcCmd.pc \in RPCSteps, NEW p \in RPCSteps, RPCGoto(p)
    PROVE  /\ AtStep(p)' /\ rpcCmd'.up = rpcCmd.up /\ rpcCmd'.clean = rpcCmd.clean
           /\ rpcCmd'.arg = rpcCmd.arg
           /\ Argument(rpcCmd.pc) \subseteq Argument(p) => RPCCommand(rpcCmd)'
<1>1. "idle" \notin RPCSteps /\ "cm" \notin RPCSteps /\ "roll" \notin RPCSteps
  BY DEF RPCSteps, CustomSteps, ListSteps, SetSteps, PlainRPCSteps
<1>2. rpcCmd \in [pc : RPCSteps, arg : Argument(rpcCmd.pc), up : BOOLEAN, clean : BOOLEAN]
  BY RPCShape
<1>3. rpcCmd' = [pc |-> p, arg |-> rpcCmd.arg, up |-> rpcCmd.up, clean |-> rpcCmd.clean]
  BY <1>2 DEF RPCGoto
<1>4. AtStep(p)'
  BY <1>1, <1>3 DEF AtStep, Stage, Writing, Patching, RPCIdle
<1>5. Argument(rpcCmd.pc) \subseteq Argument(p) => RPCCommand(rpcCmd)'
  BY <1>2, <1>3 DEF RPCCommand
<1> QED BY <1>3, <1>4, <1>5

LEMMA Writes ==
    ASSUME RPCTypeOK, rpcCmd.pc \in RPCSteps, NEW conf, NEW changes, NEW next \in RPCSteps,
           Write(conf, changes, next)
    PROVE  /\ Writing' /\ Patching' /\ Stage' = next /\ rpcCmd' # RPCIdle /\ rpcCmd'.pc = "cm"
           /\ rpcCmd'.next = next /\ rpcCmd'.conf = conf /\ rpcCmd'.changes = changes
           /\ rpcCmd'.up = rpcCmd.up /\ rpcCmd'.clean = rpcCmd.clean /\ rpcCmd'.arg = rpcCmd.arg
           /\ conf \in RPCConfigs /\ changes \in Changes /\ Argument(rpcCmd.pc) \subseteq Argument(next)
                => RPCCommand(rpcCmd)'
<1>2. rpcCmd \in [pc : RPCSteps, arg : Argument(rpcCmd.pc), up : BOOLEAN, clean : BOOLEAN]
  BY RPCShape
<1>3. rpcCmd' = [pc |-> "cm", arg |-> rpcCmd.arg, up |-> rpcCmd.up, clean |-> rpcCmd.clean,
                 conf |-> conf, changes |-> changes, next |-> next]
  BY DEF Write
<1>4. Writing' /\ Patching' /\ Stage' = next /\ rpcCmd' # RPCIdle
  BY <1>3 DEF Stage, Writing, Patching, RPCIdle
<1>5. conf \in RPCConfigs /\ changes \in Changes /\ Argument(rpcCmd.pc) \subseteq Argument(next)
                => RPCCommand(rpcCmd)'
  BY <1>2, <1>3 DEF RPCCommand
<1> QED BY <1>3, <1>4, <1>5

\* The patch is through; the pods are rolled, or a warning stands for either.
LEMMA Patches ==
    ASSUME RPCTypeOK, Patching, RPCGoto("roll")
    PROVE  /\ Writing' /\ ~Patching' /\ Stage' = rpcCmd.next /\ rpcCmd' # RPCIdle /\ rpcCmd'.pc = "roll"
           /\ rpcCmd'.next = rpcCmd.next /\ rpcCmd'.changes = rpcCmd.changes
           /\ rpcCmd'.up = rpcCmd.up /\ rpcCmd'.clean = rpcCmd.clean /\ rpcCmd'.arg = rpcCmd.arg
           /\ RPCCommand(rpcCmd)'
<1>2. rpcCmd \in [pc : {"cm", "roll"}, arg : Argument(rpcCmd.next), up : BOOLEAN, clean : BOOLEAN,
                  conf : RPCConfigs, changes : Changes, next : RPCSteps]
  BY RPCShape DEF Patching, Writing
<1>3. rpcCmd' = [rpcCmd EXCEPT !.pc = "roll"]
  BY DEF RPCGoto
<1>4. Writing' /\ ~Patching' /\ Stage' = rpcCmd.next /\ rpcCmd' # RPCIdle /\ rpcCmd'.pc = "roll"
  BY <1>2, <1>3 DEF Stage, Writing, Patching, RPCIdle
<1>5. RPCCommand(rpcCmd)'
  BY <1>2, <1>3 DEF RPCCommand
<1> QED BY <1>2, <1>3, <1>4, <1>5

LEMMA GoesOn ==
    ASSUME RPCTypeOK, Writing, NEW p \in RPCSteps, NEW ok \in BOOLEAN, Written(p, ok)
    PROVE  /\ AtStep(p)' /\ rpcCmd'.up = rpcCmd.up /\ rpcCmd'.clean = ok
           /\ rpcCmd'.arg = rpcCmd.arg
           /\ Argument(rpcCmd.next) \subseteq Argument(p) => RPCCommand(rpcCmd)'
<1>1. "idle" \notin RPCSteps /\ "cm" \notin RPCSteps /\ "roll" \notin RPCSteps
  BY DEF RPCSteps, CustomSteps, ListSteps, SetSteps, PlainRPCSteps
<1>2. rpcCmd \in [pc : {"cm", "roll"}, arg : Argument(rpcCmd.next), up : BOOLEAN, clean : BOOLEAN,
                  conf : RPCConfigs, changes : Changes, next : RPCSteps]
  BY RPCShape
<1>3. rpcCmd' = [pc |-> p, arg |-> rpcCmd.arg, up |-> rpcCmd.up, clean |-> ok]
  BY DEF Written
<1>4. AtStep(p)'
  BY <1>1, <1>3 DEF AtStep, Stage, Writing, Patching, RPCIdle
<1>5. Argument(rpcCmd.next) \subseteq Argument(p) => RPCCommand(rpcCmd)'
  BY <1>2, <1>3 DEF RPCCommand
<1> QED BY <1>3, <1>4, <1>5

LEMMA Ends ==
    ASSUME rpcCmd' = RPCIdle
    PROVE  Stage' = "idle" /\ ~Writing' /\ ~Patching' /\ RPCCommand(rpcCmd)' /\ rpcCmd'.pc = "idle"
BY DEF Stage, Writing, Patching, RPCIdle, RPCCommand

\* What is written to the configuration: one entry, or the custom upstream with
\* the policy.
LEMMA ChangeParts ==
    /\ \A v \in {0, 1} : Local(v) \in Changes /\ DOMAIN Local(v) = {"local"} /\ Local(v)["local"] = v
    /\ \A v \in {0, 1} : Listed(v) \in Changes /\ DOMAIN Listed(v) = {"list"}
    /\ \A conf \in RPCConfigs, c \in Custom :
         UpsertCustom(conf, c) \in Changes /\ DOMAIN UpsertCustom(conf, c) = {"custom", "policy"}
    /\ NoChange \in Changes /\ DOMAIN NoChange = {}
<1>1. ASSUME NEW conf \in RPCConfigs, NEW c \in Custom
      PROVE  UpsertCustom(conf, c) \in [{"custom", "policy"} -> Versions]
  <2>1. conf.policy \in Versions
    BY DEF RPCConfigs, RPCKeys
  <2>2. WritePolicy(conf.policy, c.readOnly) \in Versions
    BY <2>1 DEF WritePolicy, Versions, OverlayVersion
  <2>3. c.v \in Versions
    BY DEF Custom, Versions, OverlayVersion
  <2> QED BY <2>2, <2>3 DEF UpsertCustom
<1>2. ASSUME NEW v \in {0, 1} PROVE Local(v) \in [{"local"} -> {0, 1}] /\ Local(v)["local"] = v
  BY DEF Local
<1>3. ASSUME NEW v \in {0, 1} PROVE Listed(v) \in [{"list"} -> {0, 1}]
  BY DEF Listed
<1>4. DOMAIN NoChange = {}
  BY DEF NoChange
<1> QED BY <1>1, <1>2, <1>3, <1>4 DEF Changes

LEMMA ChangeRange ==
    ASSUME NEW changes \in Changes
    PROVE  DOMAIN changes \subseteq RPCKeys /\ \A k \in DOMAIN changes : changes[k] \in Versions
<1>1. {0, 1} \subseteq Versions
  BY DEF Versions, OverlayVersion
<1>2. CASE changes = NoChange
  BY <1>2 DEF NoChange
<1>3. CASE changes \in [{"local"} -> {0, 1}]
  BY <1>1, <1>3 DEF RPCKeys
<1>4. CASE changes \in [{"list"} -> {0, 1}]
  BY <1>1, <1>4 DEF RPCKeys
<1>5. CASE changes \in [{"custom", "policy"} -> Versions]
  BY <1>5 DEF RPCKeys
<1> QED BY <1>2, <1>3, <1>4, <1>5 DEF Changes

LEMMA ConfigsKept ==
    /\ ChartRPC \in RPCConfigs
    /\ \A conf \in RPCConfigs, changes \in Changes : With(conf, changes) \in RPCConfigs
    /\ \A conf \in RPCConfigs, p \in [Overlaid -> Versions \cup {NoDoc}] : \A keys :
         StripKeys(conf, keys, p) \in RPCConfigs
    /\ \A conf \in RPCConfigs : \A doc : MergeOverlay(conf, doc) \in RPCConfigs
<1>1. ChartRPC \in RPCConfigs
  BY DEF ChartRPC, RPCConfigs, Versions, OverlayVersion
<1>2. ASSUME NEW conf \in RPCConfigs, NEW changes \in Changes PROVE With(conf, changes) \in RPCConfigs
  BY ChangeRange DEF With, RPCConfigs
<1>3. ASSUME NEW conf \in RPCConfigs, NEW keys, NEW p \in [Overlaid -> Versions \cup {NoDoc}]
      PROVE  StripKeys(conf, keys, p) \in RPCConfigs
  <2>1. 0 \in Versions
    BY DEF Versions, OverlayVersion
  <2>2. \A k \in Tracked(p) : p[k] \in Versions
    BY DEF Tracked
  <2> QED BY <2>1, <2>2 DEF StripKeys, RPCConfigs
<1>4. ASSUME NEW conf \in RPCConfigs, NEW doc PROVE MergeOverlay(conf, doc) \in RPCConfigs
  <2>1. OverlayVersion \in Versions
    BY DEF Versions, OverlayVersion
  <2> QED BY <2>1 DEF MergeOverlay, RPCConfigs
<1> QED BY <1>1, <1>2, <1>3, <1>4

OriginMaps == [Overlaid -> Versions \cup {NoDoc}]

LEMMA OriginsTyped ==
    /\ Untracked \in OriginMaps
    /\ \A p \in OriginMaps : \A doc : EnsureTracks(p, doc) \in OriginMaps /\ Prune(p, doc) \in OriginMaps
    /\ \A p \in OriginMaps, conf \in RPCConfigs : \A doc : Capture(p, conf, doc) \in OriginMaps
<1>1. 0 \in Versions /\ Overlaid \subseteq RPCKeys
  BY DEF Versions, OverlayVersion, Overlaid, RPCKeys
<1>2. ASSUME NEW p \in OriginMaps, NEW conf \in RPCConfigs, NEW doc PROVE Capture(p, conf, doc) \in OriginMaps
  BY <1>1 DEF Capture, OriginMaps, RPCConfigs
<1> QED BY <1>1, <1>2 DEF OriginMaps, Untracked, EnsureTracks, Prune

\* Steps that go on with what was asked.
LEMMA SameArgument ==
    /\ Argument("reccustom") = Custom /\ Argument("addcustom") = Custom
    /\ Argument("list") = {0, 1} /\ Argument("reclist") = {0, 1}
    /\ \A p \in SetSteps : Argument(p) = DocKeys
    /\ \A p \in PlainRPCSteps : Argument(p) = {NoDoc}
BY DEF Argument, CustomSteps, ListSteps, SetSteps, PlainRPCSteps

LEMMA StepNames ==
    /\ RPCSteps = CustomSteps \cup ListSteps \cup SetSteps \cup PlainRPCSteps
    /\ CustomSteps = {"addcustom", "reccustom"} /\ ListSteps = {"list", "reclist"}
    /\ SetSteps = {"set", "setsave", "setapply", "setprune"}
    /\ PlainRPCSteps =
         {"reset", "resetdoc", "resetprov", "install", "sync", "register", "nodedone", "stop", "start",
          "stopcluster", "startcluster", "delete", "delns", "deldir", "stackup", "upnode", "uplist",
          "upcustom", "upoverlay", "upprune", "updone"}
BY DEF RPCSteps, CustomSteps, ListSteps, SetSteps, PlainRPCSteps

\* Every step keeps the variables in their domains: first the command.
LEMMA RPCCommandStep ==
    ASSUME RPCTypeOK, RPCCommandFits, [RPCNext]_rpcVars
    PROVE  RPCCommand(rpcCmd)' /\ rpcFaults' \in 0 .. MaxRPCFaults /\ rpcCmds' \in 0 .. MaxRPCCmds
<1>a. /\ RPCCommand(rpcCmd) /\ rpcFaults \in 0 .. MaxRPCFaults /\ rpcCmds \in 0 .. MaxRPCCmds
      /\ rpcCM \in RPCConfigs /\ overlay \in DocKeys \cup {NoDoc} /\ prov \in OriginMaps
      /\ recCustom \in Custom \cup {NoDoc}
  BY DEF RPCTypeOK, OriginMaps
<1>f. RPCFault => rpcFaults' \in 0 .. MaxRPCFaults
  BY <1>a, RPCMarks DEF RPCFault
<1>c. rpcCmds' = rpcCmds + 1 /\ rpcCmds < MaxRPCCmds => rpcCmds' \in 0 .. MaxRPCCmds
  BY <1>a, RPCMarks
<1>n. UNCHANGED rpcCounts => rpcFaults' \in 0 .. MaxRPCFaults /\ rpcCmds' \in 0 .. MaxRPCCmds
  BY <1>a
<1>g. \A p, q \in PlainRPCSteps : rpcCmd.pc = p /\ RPCGoto(q) => RPCCommand(rpcCmd)'
  <2> SUFFICES ASSUME NEW p \in PlainRPCSteps, NEW q \in PlainRPCSteps, rpcCmd.pc = p, RPCGoto(q)
               PROVE  RPCCommand(rpcCmd)'
    OBVIOUS
  <2>1. p \in RPCSteps /\ q \in RPCSteps /\ Argument(p) = Argument(q)
    BY SameArgument, StepNames
  <2> QED BY <2>1, Goes
<1>s. \A p, q \in SetSteps : rpcCmd.pc = p /\ RPCGoto(q) => RPCCommand(rpcCmd)'
  <2> SUFFICES ASSUME NEW p \in SetSteps, NEW q \in SetSteps, rpcCmd.pc = p, RPCGoto(q)
               PROVE  RPCCommand(rpcCmd)'
    OBVIOUS
  <2>1. p \in RPCSteps /\ q \in RPCSteps /\ Argument(p) = Argument(q)
    BY SameArgument, StepNames
  <2> QED BY <2>1, Goes
<1>w. \A p, q \in RPCSteps : \A conf \in RPCConfigs, changes \in Changes :
        /\ rpcCmd.pc = p /\ Write(conf, changes, q)
        /\ {p, q} \subseteq PlainRPCSteps \/ {p, q} \subseteq SetSteps
           \/ {p, q} \subseteq CustomSteps \/ {p, q} \subseteq ListSteps
        => RPCCommand(rpcCmd)'
  <2> SUFFICES ASSUME NEW p \in RPCSteps, NEW q \in RPCSteps, NEW conf \in RPCConfigs, NEW changes \in Changes,
                      rpcCmd.pc = p, Write(conf, changes, q),
                      {p, q} \subseteq PlainRPCSteps \/ {p, q} \subseteq SetSteps
                      \/ {p, q} \subseteq CustomSteps \/ {p, q} \subseteq ListSteps
               PROVE  RPCCommand(rpcCmd)'
    OBVIOUS
  <2>1. Argument(p) = Argument(q)
    BY SameArgument, StepNames
  <2> QED BY <2>1, Writes
<1>u. \A p, q \in RPCSteps : \A changes \in Changes :
        /\ rpcCmd.pc = p /\ Upsert(changes, q)
        /\ {p, q} \subseteq PlainRPCSteps \/ {p, q} \subseteq CustomSteps \/ {p, q} \subseteq ListSteps
        => RPCCommand(rpcCmd)'
  BY <1>a, <1>w, ConfigsKept DEF Upsert
<1>e. rpcCmd' = RPCIdle => RPCCommand(rpcCmd)'
  BY Ends
<1>0. CASE UNCHANGED rpcVars
  BY <1>0, <1>a, <1>n DEF rpcVars
<1>1. CASE Asked
  <2>1. PICK p \in RPCSteps : \E a \in Argument(p) : RPCBegin(p, a)
    <3>1. CASE \E c \in Custom : RPCBegin("addcustom", c)
      BY <3>1, SameArgument, StepNames
    <3>2. CASE \E v \in {0, 1} : RPCBegin("list", v)
      BY <3>2, SameArgument, StepNames
    <3>3. CASE \E d \in DocKeys : RPCBegin("set", d)
      BY <3>3, SameArgument, StepNames
    <3>4. CASE \E p \in {"reset", "install", "stackup", "sync", "stop", "start", "delete"} : RPCBegin(p, NoDoc)
      BY <3>4, SameArgument, StepNames
    <3> QED BY <1>1, <3>1, <3>2, <3>3, <3>4 DEF Asked
  <2> QED BY <2>1, Begins, <1>c, <1>a
<1>2. CASE PatchConfigMap
  BY <1>2, Patches, <1>n DEF PatchConfigMap, Patching
<1>3. CASE RollPods
  <2>1. Writing /\ rpcCmd.next \in RPCSteps /\ rpcCmd.clean \in BOOLEAN
    BY <1>3, RPCShape DEF RollPods, Writing
  <2> QED BY <1>3, <2>1, GoesOn, <1>n DEF RollPods
<1>4. CASE RPCCut
  BY <1>4, <1>e, <1>f, <1>a DEF RPCCut
<1>5. CASE WriteWarned
  <2>1. Writing /\ rpcCmd.next \in RPCSteps
    BY <1>5, RPCShape DEF WriteWarned, Writing
  <2> DEFINE p == IF rpcCmd.next = "upprune" THEN "updone" ELSE rpcCmd.next
  <2>2. p \in RPCSteps /\ Argument(rpcCmd.next) = Argument(p)
    BY <2>1, SameArgument, StepNames
  <2>3. Written(p, FALSE) /\ RPCFault /\ rpcCmds' = rpcCmds
    BY <1>5 DEF WriteWarned
  <2> HIDE DEF p
  <2> QED BY <2>1, <2>2, <2>3, GoesOn, <1>f, <1>a
<1>6. CASE RPCRefused
  BY <1>6, <1>e, <1>n DEF RPCRefused, RPCEnds
<1>7. CASE AddCustomRPC
  <2>1. rpcCmd.arg \in Custom
    BY <1>7, RPCShape, SameArgument, StepNames DEF AddCustomRPC
  <2> QED BY <1>7, <2>1, <1>a, <1>u, <1>n, ChangeParts, StepNames DEF AddCustomRPC
<1>8. CASE RecordCustomRPC
  BY <1>8, <1>e, <1>n DEF RecordCustomRPC, RPCEnds
<1>9. CASE ListRPCs
  <2>1. rpcCmd.arg \in {0, 1}
    BY <1>9, RPCShape, SameArgument, StepNames DEF ListRPCs
  <2> QED BY <1>9, <2>1, <1>a, <1>u, <1>n, ChangeParts, StepNames DEF ListRPCs
<1>10. CASE RecordListRPCs
  BY <1>10, <1>e, <1>n DEF RecordListRPCs, RPCEnds
<1>11. CASE SetERPC
  BY <1>11, <1>s, <1>n, StepNames DEF SetERPC
<1>12. CASE SaveOverlay
  BY <1>12, <1>s, <1>n, StepNames DEF SaveOverlay
<1>13. CASE SetApply
  <2>1. \E conf \in RPCConfigs : Write(conf, NoChange, "setprune")
    BY <1>13, <1>a, ConfigsKept DEF SetApply, ApplyOverlay, OriginMaps
  <2> QED BY <1>13, <2>1, <1>w, <1>n, ChangeParts, StepNames DEF SetApply
<1>14. CASE PruneOverlay
  BY <1>14, <1>e, <1>n DEF PruneOverlay, RPCEnds
<1>15. CASE ResetERPC
  <2>1. \E conf \in RPCConfigs : Write(conf, NoChange, "resetdoc")
    BY <1>15, <1>a, ConfigsKept DEF ResetERPC, OriginMaps
  <2> QED BY <1>15, <2>1, <1>w, <1>n, ChangeParts, StepNames DEF ResetERPC
<1>16. CASE NothingToReset
  BY <1>16, <1>e, <1>n DEF NothingToReset, RPCEnds
<1>17. CASE RemoveOverlayFile
  BY <1>17, <1>g, <1>n, StepNames DEF RemoveOverlayFile
<1>18. CASE RemoveProvenance
  BY <1>18, <1>e, <1>n DEF RemoveProvenance, RPCEnds
<1>19. CASE InstallNode
  BY <1>19, <1>e, <1>n DEF InstallNode, RPCEnds
<1>20. CASE DeployNode
  BY <1>20, <1>g, <1>n, StepNames DEF DeployNode
<1>21. CASE RegisterNode
  BY <1>21, <1>u, <1>n, ChangeParts, StepNames DEF RegisterNode
<1>22. CASE NodeDone
  BY <1>22, <1>e, <1>n DEF NodeDone, RPCEnds
<1>23. CASE SetStopped
  <2>1. rpcCmd.pc \in PlainRPCSteps
    BY <1>23, StepNames DEF SetStopped
  <2>2. RPCGoto("stopcluster") \/ RPCGoto("startcluster")
    BY <1>23 DEF SetStopped
  <2> QED BY <1>23, <2>1, <2>2, <1>g, <1>n, StepNames DEF SetStopped
<1>24. CASE StopOffline
  BY <1>24, <1>e, <1>n DEF StopOffline, RPCEnds
<1>25. CASE ScaleNode
  <2>1. rpcCmd.pc \in PlainRPCSteps
    BY <1>25, StepNames DEF ScaleNode
  <2>2. RPCGoto("sync") \/ RPCGoto("register")
    BY <1>25 DEF ScaleNode
  <2> QED BY <1>25, <2>1, <2>2, <1>g, <1>n, StepNames DEF ScaleNode
<1>26. CASE DeregisterDeleted
  BY <1>26, <1>u, <1>g, <1>n, ChangeParts, StepNames DEF DeregisterDeleted
<1>27. CASE DeleteNamespace
  BY <1>27, <1>g, <1>n, StepNames DEF DeleteNamespace
<1>28. CASE DeleteDeployment
  BY <1>28, <1>e, <1>n DEF DeleteDeployment, RPCEnds
<1>29. CASE HelmSync
  <2>1. rpcCmd \in [pc : RPCSteps, arg : {NoDoc}, up : BOOLEAN, clean : BOOLEAN]
    BY <1>29, RPCShape, SameArgument, StepNames DEF HelmSync
  <2>2. rpcCmd' = [rpcCmd EXCEPT !.pc = "upnode", !.up = TRUE]
    BY <1>29 DEF HelmSync
  <2>3. rpcCmd' \in [pc : RPCSteps, arg : Argument("upnode"), up : BOOLEAN, clean : BOOLEAN] /\ rpcCmd'.pc = "upnode"
    BY <2>1, <2>2, SameArgument, StepNames
  <2>4. RPCCommand(rpcCmd)'
    BY <2>3 DEF RPCCommand
  <2> QED BY <1>29, <2>4, <1>n DEF HelmSync
<1>30. CASE ResumeInstalled
  <2>1. \E q \in PlainRPCSteps : RPCGoto(q)
    BY <1>30, StepNames DEF ResumeInstalled, Resumed
  <2> QED BY <1>30, <2>1, <1>g, <1>n, StepNames DEF ResumeInstalled
<1>31. CASE ReplayListed
  BY <1>31, <1>u, <1>g, <1>n, ChangeParts, StepNames DEF ReplayListed
<1>32. CASE ReplayCustom
  BY <1>32, <1>a, <1>u, <1>g, <1>n, ChangeParts, StepNames DEF ReplayCustom
<1>33. CASE ReplayOverlay
  <2>1. CASE overlay # NoDoc
    <3>1. \E conf \in RPCConfigs : Write(conf, NoChange, "upprune")
      BY <1>33, <2>1, <1>a, ConfigsKept DEF ReplayOverlay, ApplyOverlay, OriginMaps
    <3> QED BY <1>33, <3>1, <1>w, <1>n, ChangeParts, StepNames DEF ReplayOverlay
  <2> QED BY <1>33, <2>1, <1>g, <1>n, StepNames DEF ReplayOverlay
<1>34. CASE PruneReplayed
  BY <1>34, <1>g, <1>n, StepNames DEF PruneReplayed
<1>35. CASE StackUpDone
  BY <1>35, <1>e, <1>n DEF StackUpDone, RPCEnds
<1>36. CASE ClusterStops
  BY <1>36, <1>a, <1>c DEF ClusterStops
<1>37. CASE RPCPodsRestart
  BY <1>37, <1>a, <1>f DEF RPCPodsRestart
<1> QED
  BY <1>0, <1>1, <1>2, <1>3, <1>4, <1>5, <1>6, <1>7, <1>8, <1>9, <1>10, <1>11, <1>12, <1>13, <1>14, <1>15,
     <1>16, <1>17, <1>18, <1>19, <1>20, <1>21, <1>22, <1>23, <1>24, <1>25, <1>26, <1>27, <1>28, <1>29,
     <1>30, <1>31, <1>32, <1>33, <1>34, <1>35, <1>36, <1>37 DEF RPCNext

LEMMA RPCTypeStep ==
    ASSUME RPCTypeOK, RPCCommandFits, [RPCNext]_rpcVars
    PROVE  RPCTypeOK'
<1>t. RPCCommand(rpcCmd)' /\ rpcFaults' \in 0 .. MaxRPCFaults /\ rpcCmds' \in 0 .. MaxRPCCmds
  BY RPCCommandStep
<1>s. SUFFICES /\ (rpcCM \in RPCConfigs /\ rpcPods \in RPCConfigs /\ under \in RPCConfigs)'
               /\ (rpcStamp \in RPCConfigs \cup {NoDoc} /\ overlay \in DocKeys \cup {NoDoc})'
               /\ (prov \in OriginMaps /\ recCustom \in Custom \cup {NoDoc})'
               /\ (recList \in BOOLEAN /\ nodeRelease \in BOOLEAN)'
               /\ (nodeFile \in {"none", "on", "stopped"} /\ nodeRuns \in {0, 1})'
               /\ (rpcCluster \in {"up", "down", "gone"})'
               /\ (excused \subseteq Overlaid \cup {"unscaled", "skew"} /\ rpcGood \subseteq {"served", "overlay", "node"})'
  BY <1>t DEF RPCTypeOK, OriginMaps
<1>a. /\ rpcCM \in RPCConfigs /\ rpcPods \in RPCConfigs /\ under \in RPCConfigs
      /\ rpcStamp \in RPCConfigs \cup {NoDoc} /\ overlay \in DocKeys \cup {NoDoc}
      /\ prov \in OriginMaps /\ recCustom \in Custom \cup {NoDoc}
      /\ recList \in BOOLEAN /\ nodeRelease \in BOOLEAN
      /\ nodeFile \in {"none", "on", "stopped"} /\ nodeRuns \in {0, 1}
      /\ rpcCluster \in {"up", "down", "gone"}
      /\ excused \subseteq Overlaid \cup {"unscaled", "skew"} /\ rpcGood \subseteq {"served", "overlay", "node"}
  BY DEF RPCTypeOK, OriginMaps
<1>k. \A p : Tracked(p) \subseteq Overlaid
  BY DEF Tracked
<1>d. overlay # NoDoc => overlay \subseteq Overlaid
  BY <1>a, RPCMarks
<1>0. CASE UNCHANGED rpcVars
  BY <1>0, <1>a DEF rpcVars
<1>1. CASE Asked
  BY <1>1, <1>a DEF Asked, RPCEnds
<1>2. CASE PatchConfigMap
  <2>1. rpcCmd.conf \in RPCConfigs /\ rpcCmd.changes \in Changes
    BY <1>2, RPCShape DEF PatchConfigMap, Writing
  <2>2. With(under, rpcCmd.changes) \in RPCConfigs
    BY <1>a, <2>1, ConfigsKept
  <2>3. excused' \subseteq Overlaid \cup {"unscaled", "skew"}
    BY <1>2, <1>a, <1>k DEF PatchConfigMap, Undercuts
  <2>4. /\ rpcCM' = rpcCmd.conf /\ under' = With(under, rpcCmd.changes) /\ rpcGood' = rpcGood \ {"served"}
        /\ UNCHANGED <<rpcPods, rpcStamp, overlayVars, recordVars, nodeVars, rpcCluster, rpcCounts>>
    BY <1>2 DEF PatchConfigMap, Undercuts
  <2> QED BY <1>a, <2>1, <2>2, <2>3, <2>4
<1>3. CASE RollPods
  BY <1>3, <1>a DEF RollPods, PatchHash
<1>4. CASE RPCCut
  BY <1>4, <1>a DEF RPCCut, RPCEnds
<1>5. CASE WriteWarned
  BY <1>5, <1>a DEF WriteWarned, RPCEnds
<1>6. CASE RPCRefused
  BY <1>6, <1>a DEF RPCRefused, RPCEnds
<1>7. CASE AddCustomRPC
  BY <1>7, <1>a DEF AddCustomRPC, RPCEnds
<1>8. CASE RecordCustomRPC
  <2>1. rpcCmd.arg \in Custom
    BY <1>8, RPCShape, SameArgument, StepNames DEF RecordCustomRPC
  <2> QED BY <1>8, <2>1, <1>a DEF RecordCustomRPC, RPCEnds
<1>9. CASE ListRPCs
  BY <1>9, <1>a DEF ListRPCs, RPCEnds
<1>10. CASE RecordListRPCs
  BY <1>10, <1>a DEF RecordListRPCs, RPCEnds
<1>11. CASE SetERPC
  <2>1. prov' \in OriginMaps
    BY <1>11, <1>a, OriginsTyped DEF SetERPC
  <2>2. excused' \subseteq Overlaid \cup {"unscaled", "skew"}
    BY <1>11, <1>a, <1>d DEF SetERPC, KeysOf
  <2> QED BY <1>11, <2>1, <2>2, <1>a DEF SetERPC
<1>12. CASE SaveOverlay
  <2>1. rpcCmd.arg \in DocKeys
    BY <1>12, RPCShape, SameArgument, StepNames DEF SaveOverlay
  <2> QED BY <1>12, <2>1, <1>a DEF SaveOverlay
<1>13. CASE SetApply
  <2>1. prov' \in OriginMaps
    BY <1>13, <1>a, OriginsTyped, ConfigsKept DEF SetApply, ApplyOverlay, OriginMaps
  <2> QED BY <1>13, <2>1, <1>a DEF SetApply
<1>14. CASE PruneOverlay
  <2>1. prov' \in OriginMaps
    BY <1>14, <1>a, OriginsTyped DEF PruneOverlay
  <2> QED BY <1>14, <2>1, <1>a DEF PruneOverlay, RPCEnds
<1>15. CASE ResetERPC
  <2>1. excused' \subseteq Overlaid \cup {"unscaled", "skew"}
    BY <1>15, <1>a, <1>d, <1>k DEF ResetERPC
  <2> QED BY <1>15, <2>1, <1>a DEF ResetERPC
<1>16. CASE NothingToReset
  BY <1>16, <1>a DEF NothingToReset, RPCEnds
<1>17. CASE RemoveOverlayFile
  BY <1>17, <1>a DEF RemoveOverlayFile, RPCEnds
<1>18. CASE RemoveProvenance
  <2>1. prov' \in OriginMaps
    BY <1>18, OriginsTyped DEF RemoveProvenance
  <2> QED BY <1>18, <2>1, <1>a DEF RemoveProvenance, RPCEnds
<1>19. CASE InstallNode
  BY <1>19, <1>a DEF InstallNode, RPCEnds
<1>20. CASE DeployNode
  BY <1>20, <1>a DEF DeployNode, RPCEnds
<1>21. CASE RegisterNode
  BY <1>21, <1>a DEF RegisterNode, RPCEnds
<1>22. CASE NodeDone
  BY <1>22, <1>a DEF NodeDone, RPCEnds
<1>23. CASE SetStopped
  BY <1>23, <1>a DEF SetStopped, RPCEnds
<1>24. CASE StopOffline
  BY <1>24, <1>a DEF StopOffline, RPCEnds
<1>25. CASE ScaleNode
  BY <1>25, <1>a DEF ScaleNode, RPCEnds
<1>26. CASE DeregisterDeleted
  BY <1>26, <1>a DEF DeregisterDeleted, RPCEnds
<1>27. CASE DeleteNamespace
  BY <1>27, <1>a DEF DeleteNamespace, RPCEnds
<1>28. CASE DeleteDeployment
  BY <1>28, <1>a DEF DeleteDeployment, RPCEnds
<1>29. CASE HelmSync
  <2>1. rpcPods' \in RPCConfigs
    BY <1>29, <1>a, ConfigsKept DEF HelmSync
  <2>2. excused' \subseteq Overlaid \cup {"unscaled", "skew"}
    BY <1>29, <1>a, <1>k DEF HelmSync
  <2>3. rpcCM' \in RPCConfigs /\ under' \in RPCConfigs /\ rpcStamp' \in RPCConfigs \cup {NoDoc}
    BY <1>29, <1>a, ConfigsKept DEF HelmSync
  <2> QED BY <1>29, <2>1, <2>2, <2>3, <1>a DEF HelmSync
<1>30. CASE ResumeInstalled
  BY <1>30, <1>a DEF ResumeInstalled, RPCEnds
<1>31. CASE ReplayListed
  BY <1>31, <1>a DEF ReplayListed, RPCEnds
<1>32. CASE ReplayCustom
  BY <1>32, <1>a DEF ReplayCustom, RPCEnds
<1>33. CASE ReplayOverlay
  <2>1. CASE overlay # NoDoc
    <3>1. prov' \in OriginMaps
      BY <1>33, <2>1, <1>a, OriginsTyped, ConfigsKept DEF ReplayOverlay, ApplyOverlay, OriginMaps
    <3> QED BY <1>33, <3>1, <1>a DEF ReplayOverlay
  <2>2. CASE overlay = NoDoc
    BY <1>33, <2>2, <1>a DEF ReplayOverlay
  <2> QED BY <2>1, <2>2
<1>34. CASE PruneReplayed
  <2>1. prov' \in OriginMaps
    BY <1>34, <1>a, OriginsTyped DEF PruneReplayed
  <2> QED BY <1>34, <2>1, <1>a DEF PruneReplayed
<1>35. CASE StackUpDone
  BY <1>35, <1>a DEF StackUpDone, RPCEnds
<1>36. CASE ClusterStops
  BY <1>36, <1>a DEF ClusterStops, RPCEnds
<1>37. CASE RPCPodsRestart
  BY <1>37, <1>a DEF RPCPodsRestart, RPCEnds
<1> QED
  BY <1>0, <1>1, <1>2, <1>3, <1>4, <1>5, <1>6, <1>7, <1>8, <1>9, <1>10, <1>11, <1>12, <1>13,
     <1>14, <1>15, <1>16, <1>17, <1>18, <1>19, <1>20, <1>21, <1>22, <1>23, <1>24, <1>25, <1>26,
     <1>27, <1>28, <1>29, <1>30, <1>31, <1>32, <1>33, <1>34, <1>35, <1>36, <1>37 DEF RPCNext

LEMMA RPCFitsStep ==
    ASSUME RPCTypeOK, RPCCommandFits, [RPCNext]_rpcVars
    PROVE  RPCCommandFits'
<1> USE DEF RPCCommandFits, ReplaySteps, UpsertSteps, OverlaySteps
<1>e. ASSUME rpcCmd' = RPCIdle PROVE RPCCommandFits'
  BY <1>e, Ends, StepNames
<1>p. \A p \in RPCSteps : rpcCmd.pc = p => AtStep(p)
  BY StepsApart
<1>m. NoDoc \notin DocKeys
  BY RPCMarks
<1>0. CASE UNCHANGED rpcVars
  BY <1>0 DEF rpcVars, Stage, Writing, Patching
<1>1. CASE Asked
  <2>1. PICK p \in {"addcustom", "list", "set", "reset", "install", "stackup", "sync", "stop", "start", "delete"} :
          \E a : RPCBegin(p, a)
    BY <1>1 DEF Asked
  <2>2. p \in RPCSteps
    BY StepNames
  <2>3. AtStep(p)' /\ rpcCmd'.up = FALSE
    BY <2>1, <2>2, Begins
  <2> QED BY <2>1, <2>3, StepNames DEF AtStep
<1>2. CASE PatchConfigMap
  <2>1. Patching /\ Writing
    BY <1>2 DEF PatchConfigMap, Patching, Writing
  <2>2. Stage = rpcCmd.next /\ rpcCmd # RPCIdle
    BY <2>1, StepsApart
  <2>3. /\ Writing' /\ ~Patching' /\ Stage' = rpcCmd.next /\ rpcCmd'.next = rpcCmd.next
        /\ rpcCmd'.changes = rpcCmd.changes /\ rpcCmd'.up = rpcCmd.up
    BY <1>2, <2>1, Patches DEF PatchConfigMap
  <2>4. rpcGood' \subseteq rpcGood /\ overlay' = overlay
    BY <1>2 DEF PatchConfigMap
  <2> QED BY <2>1, <2>2, <2>3, <2>4
<1>3. CASE RollPods
  <2>1. Writing /\ rpcCmd.next \in RPCSteps /\ rpcCmd.clean \in BOOLEAN
    BY <1>3, RPCShape DEF RollPods, Writing
  <2>2. Stage = rpcCmd.next /\ rpcCmd # RPCIdle
    BY <2>1, StepsApart
  <2>p. PICK p \in RPCSteps : p = rpcCmd.next
    BY <2>1
  <2>3. AtStep(p)' /\ rpcCmd'.up = rpcCmd.up
    BY <1>3, <2>1, <2>p, GoesOn DEF RollPods
  <2>4. rpcGood' \cap {"node", "overlay"} = rpcGood \cap {"node", "overlay"} /\ overlay' = overlay
        /\ ("overlay" \in rpcGood' <=> "overlay" \in rpcGood)
    BY <1>3 DEF RollPods
  <2> QED BY <2>1, <2>2, <2>p, <2>3, <2>4 DEF AtStep
<1>4. CASE RPCCut
  BY <1>4, <1>e DEF RPCCut, RPCEnds
<1>5. CASE WriteWarned
  <2>1. Writing /\ rpcCmd.next \in RPCSteps
    BY <1>5, RPCShape DEF WriteWarned, Writing
  <2>2. Stage = rpcCmd.next /\ rpcCmd # RPCIdle
    BY <2>1, StepsApart
  <2>3. PICK p \in RPCSteps : p = IF rpcCmd.next = "upprune" THEN "updone" ELSE rpcCmd.next
    BY <2>1, StepNames
  <2>4. Written(p, FALSE) /\ UNCHANGED <<rpcGood, overlay>>
    BY <1>5, <2>3 DEF WriteWarned
  <2>5. AtStep(p)' /\ rpcCmd'.up = rpcCmd.up
    BY <2>1, <2>3, <2>4, GoesOn
  <2> QED BY <2>1, <2>2, <2>3, <2>4, <2>5, StepNames DEF AtStep
<1>6. CASE RPCRefused
  BY <1>6, <1>e DEF RPCRefused, RPCEnds
<1>7. CASE AddCustomRPC
  BY <1>7, <1>p, Writes, Goes, StepNames DEF AddCustomRPC, AtStep, Upsert
<1>8. CASE RecordCustomRPC
  BY <1>8, <1>e DEF RecordCustomRPC, RPCEnds
<1>9. CASE ListRPCs
  BY <1>9, <1>p, Writes, Goes, StepNames DEF ListRPCs, AtStep, Upsert
<1>10. CASE RecordListRPCs
  BY <1>10, <1>e DEF RecordListRPCs, RPCEnds
<1>11. CASE SetERPC
  BY <1>11, <1>p, <1>m, Goes, StepNames DEF SetERPC, AtStep
<1>12. CASE SaveOverlay
  <2>1. rpcCmd.arg \in DocKeys
    BY <1>12, RPCShape, SameArgument, StepNames DEF SaveOverlay
  <2> QED BY <1>12, <2>1, <1>p, <1>m, Goes, StepNames DEF SaveOverlay, AtStep
<1>13. CASE SetApply
  <2>1. PICK conf : Write(conf, NoChange, "setprune") /\ UNCHANGED <<rpcGood, overlay>>
    BY <1>13 DEF SetApply, ApplyOverlay
  <2> QED BY <1>13, <2>1, <1>p, Writes, StepNames DEF SetApply, AtStep
<1>14. CASE PruneOverlay
  BY <1>14, <1>e DEF PruneOverlay, RPCEnds
<1>15. CASE ResetERPC
  <2>1. PICK conf : Write(conf, NoChange, "resetdoc") /\ UNCHANGED <<rpcGood, overlay>>
    BY <1>15 DEF ResetERPC, ApplyOverlay
  <2> QED BY <1>15, <2>1, <1>p, Writes, StepNames DEF ResetERPC, AtStep
<1>16. CASE NothingToReset
  BY <1>16, <1>e DEF NothingToReset, RPCEnds
<1>17. CASE RemoveOverlayFile
  BY <1>17, <1>p, <1>m, Goes, StepNames DEF RemoveOverlayFile, AtStep
<1>18. CASE RemoveProvenance
  BY <1>18, <1>e DEF RemoveProvenance, RPCEnds
<1>19. CASE InstallNode
  BY <1>19, <1>e DEF InstallNode, RPCEnds
<1>20. CASE DeployNode
  BY <1>20, <1>p, <1>m, Goes, StepNames DEF DeployNode, AtStep
<1>21. CASE RegisterNode
  BY <1>21, <1>p, Writes, Goes, StepNames DEF RegisterNode, AtStep, Upsert
<1>22. CASE NodeDone
  BY <1>22, <1>e DEF NodeDone, RPCEnds
<1>23. CASE SetStopped
  BY <1>23, <1>p, <1>m, Goes, StepNames DEF SetStopped, AtStep
<1>24. CASE StopOffline
  BY <1>24, <1>e DEF StopOffline, RPCEnds
<1>25. CASE ScaleNode
  BY <1>25, <1>p, <1>m, Goes, StepNames DEF ScaleNode, AtStep
<1>26. CASE DeregisterDeleted
  BY <1>26, <1>p, Writes, Goes, StepNames DEF DeregisterDeleted, AtStep, Upsert
<1>27. CASE DeleteNamespace
  BY <1>27, <1>p, <1>m, Goes, StepNames DEF DeleteNamespace, AtStep
<1>28. CASE DeleteDeployment
  BY <1>28, <1>e DEF DeleteDeployment, RPCEnds
<1>29. CASE HelmSync
  <2>1. rpcCmd \in [pc : RPCSteps, arg : {NoDoc}, up : BOOLEAN, clean : BOOLEAN]
    BY <1>29, RPCShape, SameArgument, StepNames DEF HelmSync
  <2>2. rpcCmd' = [rpcCmd EXCEPT !.pc = "upnode", !.up = TRUE] /\ rpcGood' = {}
    BY <1>29 DEF HelmSync
  <2>3. rpcCmd'.pc = "upnode" /\ rpcCmd'.up = TRUE
    BY <2>1, <2>2
  <2>4. Stage' = "upnode" /\ ~Writing' /\ ~Patching'
    BY <2>3 DEF Stage, Writing, Patching
  <2> QED BY <2>2, <2>3, <2>4, StepNames
<1>30. CASE ResumeInstalled
  <2>1. PICK q \in {"uplist", "register", "sync"} : RPCGoto(q)
    BY <1>30 DEF ResumeInstalled, Resumed
  <2>2. q \in RPCSteps /\ UNCHANGED <<rpcGood, overlay>>
    BY <1>30, StepNames DEF ResumeInstalled
  <2> QED BY <1>30, <2>1, <2>2, <1>p, Goes, StepNames DEF ResumeInstalled, AtStep
<1>31. CASE ReplayListed
  BY <1>31, <1>p, Writes, Goes, StepNames DEF ReplayListed, AtStep, Upsert
<1>32. CASE ReplayCustom
  BY <1>32, <1>p, Writes, Goes, StepNames DEF ReplayCustom, AtStep, Upsert
<1>33. CASE ReplayOverlay
  <2>1. CASE overlay # NoDoc
    <3>1. PICK conf : Write(conf, NoChange, "upprune") /\ UNCHANGED <<rpcGood, overlay>>
      BY <1>33, <2>1 DEF ReplayOverlay, ApplyOverlay
    <3> QED BY <1>33, <2>1, <3>1, <1>p, Writes, StepNames DEF ReplayOverlay, AtStep
  <2> QED BY <1>33, <2>1, <1>p, Goes, StepNames DEF ReplayOverlay, AtStep
<1>34. CASE PruneReplayed
  BY <1>34, <1>p, <1>m, Goes, StepNames DEF PruneReplayed, AtStep
<1>35. CASE StackUpDone
  BY <1>35, <1>e DEF StackUpDone, RPCEnds
<1>36. CASE ClusterStops
  BY <1>36, Ends DEF ClusterStops, Stage, Writing, Patching
<1>37. CASE RPCPodsRestart
  BY <1>37 DEF RPCPodsRestart, Stage, Writing, Patching
<1> QED
  BY <1>0, <1>1, <1>2, <1>3, <1>4, <1>5, <1>6, <1>7, <1>8, <1>9, <1>10, <1>11, <1>12, <1>13,
     <1>14, <1>15, <1>16, <1>17, <1>18, <1>19, <1>20, <1>21, <1>22, <1>23, <1>24, <1>25, <1>26,
     <1>27, <1>28, <1>29, <1>30, <1>31, <1>32, <1>33, <1>34, <1>35, <1>36, <1>37 DEF RPCNext

\* The pods: only a patch, a roll, a sync and a restart touch what they run.
LEMMA PodsStep ==
    ASSUME RPCTypeOK, PodsKept, [RPCNext]_rpcVars
    PROVE  PodsKept'
<1>m. NoDoc \notin RPCConfigs /\ rpcCM \in RPCConfigs /\ rpcPods \in RPCConfigs
  BY RPCMarks DEF RPCTypeOK
<1>s. ASSUME UNCHANGED routeVars, "skew" \in excused' <=> "skew" \in excused,
             "served" \in rpcGood' => "served" \in rpcGood
      PROVE  PodsKept'
  BY <1>s DEF PodsKept
<1>k. \A p : Tracked(p) \subseteq Overlaid /\ "skew" \notin Overlaid
  BY DEF Tracked, Overlaid
<1>0. CASE UNCHANGED rpcVars
  BY <1>0, <1>s DEF rpcVars
<1>1. CASE Asked
  BY <1>1, <1>s DEF Asked, RPCEnds
<1>2. CASE PatchConfigMap
  <2>1. ("skew" \in excused' <=> "skew" \in excused) \/ "skew" \in DOMAIN rpcCmd.changes
    BY <1>2, <1>k DEF PatchConfigMap, Undercuts
  <2>2. "skew" \notin DOMAIN rpcCmd.changes
    BY <1>2, RPCShape, ChangeRange DEF PatchConfigMap, Writing, RPCKeys
  <2> QED BY <1>2, <2>1, <2>2 DEF PatchConfigMap, PodsKept
<1>3. CASE RollPods
  BY <1>3, <1>m DEF RollPods, PatchHash, PodsKept
<1>4. CASE RPCCut
  BY <1>4, <1>s DEF RPCCut, RPCEnds
<1>5. CASE WriteWarned
  BY <1>5, <1>s DEF WriteWarned, RPCEnds
<1>6. CASE RPCRefused
  BY <1>6, <1>s DEF RPCRefused, RPCEnds
<1>7. CASE AddCustomRPC
  BY <1>7, <1>s DEF AddCustomRPC, RPCEnds
<1>8. CASE RecordCustomRPC
  BY <1>8, <1>s DEF RecordCustomRPC, RPCEnds
<1>9. CASE ListRPCs
  BY <1>9, <1>s DEF ListRPCs, RPCEnds
<1>10. CASE RecordListRPCs
  BY <1>10, <1>s DEF RecordListRPCs, RPCEnds
<1>11. CASE SetERPC
  <2>1. "skew" \notin KeysOf(overlay)
    BY RPCMarks DEF RPCTypeOK, KeysOf, Overlaid
  <2> QED BY <1>11, <2>1, <1>s DEF SetERPC
<1>12. CASE SaveOverlay
  BY <1>12, <1>s DEF SaveOverlay, RPCEnds
<1>13. CASE SetApply
  BY <1>13, <1>s DEF SetApply, RPCEnds
<1>14. CASE PruneOverlay
  BY <1>14, <1>s DEF PruneOverlay, RPCEnds
<1>15. CASE ResetERPC
  <2>1. "skew" \notin overlay \/ overlay = NoDoc
    BY RPCMarks DEF RPCTypeOK, Overlaid
  <2> QED BY <1>15, <2>1, <1>k, <1>s DEF ResetERPC
<1>16. CASE NothingToReset
  BY <1>16, <1>s DEF NothingToReset, RPCEnds
<1>17. CASE RemoveOverlayFile
  BY <1>17, <1>s DEF RemoveOverlayFile, RPCEnds
<1>18. CASE RemoveProvenance
  BY <1>18, <1>s DEF RemoveProvenance, RPCEnds
<1>19. CASE InstallNode
  BY <1>19, <1>s DEF InstallNode, RPCEnds
<1>20. CASE DeployNode
  BY <1>20, <1>s DEF DeployNode, RPCEnds
<1>21. CASE RegisterNode
  BY <1>21, <1>s DEF RegisterNode, RPCEnds
<1>22. CASE NodeDone
  BY <1>22, <1>s DEF NodeDone, RPCEnds
<1>23. CASE SetStopped
  BY <1>23, <1>s DEF SetStopped, RPCEnds
<1>24. CASE StopOffline
  BY <1>24, <1>s DEF StopOffline, RPCEnds
<1>25. CASE ScaleNode
  BY <1>25, <1>s DEF ScaleNode, RPCEnds
<1>26. CASE DeregisterDeleted
  BY <1>26, <1>s DEF DeregisterDeleted, RPCEnds
<1>27. CASE DeleteNamespace
  BY <1>27, <1>s DEF DeleteNamespace, RPCEnds
<1>28. CASE DeleteDeployment
  BY <1>28, <1>s DEF DeleteDeployment, RPCEnds
<1>29. CASE HelmSync
  <2>1. /\ "skew" \in excused' <=> (rpcCluster # "gone" /\ "skew" \in excused) \/ rpcPods' # rpcPods
        /\ rpcStamp' = IF rpcCluster = "gone" THEN NoDoc ELSE rpcStamp
        /\ rpcGood' = {}
    BY <1>29, <1>k DEF HelmSync
  <2> QED BY <2>1 DEF PodsKept
<1>30. CASE ResumeInstalled
  BY <1>30, <1>s DEF ResumeInstalled, RPCEnds
<1>31. CASE ReplayListed
  BY <1>31, <1>s DEF ReplayListed, RPCEnds
<1>32. CASE ReplayCustom
  BY <1>32, <1>s DEF ReplayCustom, RPCEnds
<1>33. CASE ReplayOverlay
  BY <1>33, <1>s DEF ReplayOverlay, RPCEnds
<1>34. CASE PruneReplayed
  BY <1>34, <1>s DEF PruneReplayed, RPCEnds
<1>35. CASE StackUpDone
  BY <1>35, <1>s DEF StackUpDone, RPCEnds
<1>36. CASE ClusterStops
  BY <1>36, <1>s DEF ClusterStops, RPCEnds
<1>37. CASE RPCPodsRestart
  BY <1>37 DEF RPCPodsRestart, PodsKept
<1> QED
  BY <1>0, <1>1, <1>2, <1>3, <1>4, <1>5, <1>6, <1>7, <1>8, <1>9, <1>10, <1>11, <1>12, <1>13,
     <1>14, <1>15, <1>16, <1>17, <1>18, <1>19, <1>20, <1>21, <1>22, <1>23, <1>24, <1>25, <1>26,
     <1>27, <1>28, <1>29, <1>30, <1>31, <1>32, <1>33, <1>34, <1>35, <1>36, <1>37 DEF RPCNext

\* Only the entry of the node is written by its commands, and by nobody else.
LEMMA LocalEntry ==
    ASSUME RPCTypeOK
    PROVE  /\ \A changes \in Changes :
                With(rpcCM, changes).local = IF "local" \in DOMAIN changes THEN changes["local"] ELSE rpcCM.local
           /\ \A doc, keys \in SUBSET Overlaid : \A p :
                /\ StripKeys(rpcCM, keys, p).local = rpcCM.local
                /\ MergeOverlay(StripKeys(rpcCM, keys, p), doc).local = rpcCM.local
<1>1. "local" \in RPCKeys /\ "local" \notin Overlaid
  BY DEF RPCKeys, Overlaid
<1>2. ASSUME NEW keys \in SUBSET Overlaid, NEW p PROVE StripKeys(rpcCM, keys, p).local = rpcCM.local
  BY <1>1 DEF StripKeys
<1>3. ASSUME NEW doc \in SUBSET Overlaid, NEW conf PROVE MergeOverlay(conf, doc).local = conf.local
  BY <1>1 DEF MergeOverlay
<1> QED BY <1>1, <1>2, <1>3 DEF With

LEMMA NodeStep ==
    ASSUME RPCTypeOK, RPCCommandFits, NodeKept, [RPCNext]_rpcVars, RPCTypeOK'
    PROVE  NodeKept'
<1> USE DEF NodeKept, On, ReplaySteps
<1>p. \A p \in RPCSteps : rpcCmd.pc = p => AtStep(p)
  BY StepsApart
<1>k. \A p : Tracked(p) \subseteq Overlaid /\ "unscaled" \notin Overlaid
  BY DEF Tracked, Overlaid
<1>d. (overlay # NoDoc => overlay \subseteq Overlaid) /\ KeysOf(overlay) \subseteq Overlaid
  BY RPCMarks DEF RPCTypeOK, KeysOf
<1>i. ASSUME rpcCmd' = RPCIdle, UNCHANGED <<nodeVars, rpcCM>>, "unscaled" \in excused' <=> "unscaled" \in excused,
             "node" \in rpcGood' => "node" \in rpcGood /\ Stage \notin {"register", "nodedone"}
      PROVE  NodeKept'
  BY <1>i, Ends, StepNames
<1>0. CASE UNCHANGED rpcVars
  BY <1>0 DEF rpcVars, Stage, Writing, Patching
<1>1. CASE Asked
  <2>1. PICK p \in {"addcustom", "list", "set", "reset", "install", "stackup", "sync", "stop", "start", "delete"} :
          /\ \E a : RPCBegin(p, a)
          /\ p \in {"sync", "stop", "start", "delete"} => nodeFile # "none"
    BY <1>1 DEF Asked
  <2>2. p \in RPCSteps
    BY StepNames
  <2>3. AtStep(p)' /\ rpcCmd'.up = FALSE /\ rpcCmd = RPCIdle
    BY <2>1, <2>2, Begins
  <2>5. Stage = "idle"
    BY <2>3, StepsApart
  <2>6. UNCHANGED <<nodeVars, rpcCM, excused, rpcGood>>
    BY <1>1 DEF Asked
  <2> QED BY <2>1, <2>3, <2>5, <2>6 DEF AtStep
<1>2. CASE PatchConfigMap
  <2>1. Patching /\ Writing
    BY <1>2 DEF PatchConfigMap, Patching, Writing
  <2>2. Stage = rpcCmd.next /\ rpcCmd # RPCIdle
    BY <2>1, StepsApart
  <2>3. /\ Writing' /\ ~Patching' /\ Stage' = rpcCmd.next /\ rpcCmd'.next = rpcCmd.next
        /\ rpcCmd'.up = rpcCmd.up /\ rpcCmd'.clean = rpcCmd.clean /\ rpcCmd'.pc = "roll"
    BY <1>2, <2>1, Patches DEF PatchConfigMap
  <2>4. "unscaled" \notin DOMAIN rpcCmd.changes
    BY <2>1, RPCShape, ChangeRange DEF RPCKeys
  <2>5. /\ UNCHANGED nodeVars /\ rpcCM' = rpcCmd.conf /\ ("node" \in rpcGood' <=> "node" \in rpcGood)
        /\ "unscaled" \in excused' <=> "unscaled" \in excused
    BY <1>2, <2>4, <1>k DEF PatchConfigMap, Undercuts
  <2> QED BY <2>1, <2>2, <2>3, <2>5
<1>3. CASE RollPods
  <2>1. Writing /\ rpcCmd.next \in RPCSteps /\ rpcCmd.clean \in BOOLEAN /\ ~Patching
    BY <1>3, RPCShape DEF RollPods, Writing, Patching
  <2>2. Stage = rpcCmd.next /\ rpcCmd # RPCIdle
    BY <2>1, StepsApart
  <2>p. PICK p \in RPCSteps : p = rpcCmd.next
    BY <2>1
  <2>3. AtStep(p)' /\ rpcCmd'.up = rpcCmd.up /\ rpcCmd'.clean = rpcCmd.clean
    BY <1>3, <2>1, <2>p, GoesOn DEF RollPods
  <2>4. /\ UNCHANGED <<nodeVars, rpcCM>> /\ ("node" \in rpcGood' <=> "node" \in rpcGood)
        /\ "unscaled" \in excused' <=> "unscaled" \in excused
    BY <1>3 DEF RollPods, PatchHash
  <2>5. p # "register" /\ p # "upnode" /\ p \notin {"stopcluster", "startcluster", "sync", "stop", "start"}
    BY <2>1, <2>p DEF RPCCommandFits, UpsertSteps, OverlaySteps
  <2> QED BY <2>1, <2>2, <2>p, <2>3, <2>4, <2>5 DEF AtStep
<1>4. CASE RPCCut
  BY <1>4, <1>p, <1>i, StepNames DEF RPCCut, RPCEnds, AtStep
<1>5. CASE WriteWarned
  <2>1. Writing /\ rpcCmd.next \in RPCSteps
    BY <1>5, RPCShape DEF WriteWarned, Writing
  <2>2. Stage = rpcCmd.next /\ rpcCmd # RPCIdle
    BY <2>1, StepsApart
  <2>3. PICK p \in RPCSteps : p = IF rpcCmd.next = "upprune" THEN "updone" ELSE rpcCmd.next
    BY <2>1, StepNames
  <2>4. Written(p, FALSE) /\ UNCHANGED <<rpcGood, nodeVars, rpcCM, excused>>
    BY <1>5, <2>3 DEF WriteWarned
  <2>5. AtStep(p)' /\ rpcCmd'.up = rpcCmd.up /\ rpcCmd'.clean = FALSE
    BY <2>1, <2>3, <2>4, GoesOn
  <2>6. p \in ReplaySteps \cup {"delns"}
    BY <1>5, <2>1, <2>2, <2>3 DEF WriteWarned, RPCCommandFits, UpsertSteps, OverlaySteps
  <2>7. p \in ReplaySteps => "node" \notin rpcGood
    BY <2>1, <2>2, <2>3 DEF RPCCommandFits
  <2> QED BY <2>2, <2>3, <2>4, <2>5, <2>6, <2>7 DEF AtStep
<1>6. CASE RPCRefused
  BY <1>6, <1>p, <1>i, StepNames DEF RPCRefused, RPCEnds, AtStep
<1>7. CASE AddCustomRPC
  <2>1. PICK changes \in Changes : Upsert(changes, "reccustom") /\ "local" \notin DOMAIN changes
    BY <1>7, RPCShape, ChangeParts, SameArgument, StepNames DEF AddCustomRPC, RPCTypeOK
  <2> QED BY <1>7, <2>1, <1>p, Writes, LocalEntry, StepNames DEF AddCustomRPC, AtStep, Upsert
<1>8. CASE RecordCustomRPC
  BY <1>8, <1>p, <1>i, StepNames DEF RecordCustomRPC, RPCEnds, AtStep
<1>9. CASE ListRPCs
  <2>1. PICK changes \in Changes : Upsert(changes, "reclist") /\ "local" \notin DOMAIN changes
    BY <1>9, RPCShape, ChangeParts, SameArgument, StepNames DEF ListRPCs, RPCTypeOK
  <2> QED BY <1>9, <2>1, <1>p, Writes, LocalEntry, StepNames DEF ListRPCs, AtStep, Upsert
<1>10. CASE RecordListRPCs
  BY <1>10, <1>p, <1>i, StepNames DEF RecordListRPCs, RPCEnds, AtStep
<1>11. CASE SetERPC
  <2>1. "unscaled" \in excused' <=> "unscaled" \in excused
    BY <1>11, <1>d, <1>k DEF SetERPC
  <2> QED BY <1>11, <2>1, <1>p, Goes, StepNames DEF SetERPC, AtStep
<1>12. CASE SaveOverlay
  BY <1>12, <1>p, Goes, StepNames DEF SaveOverlay, AtStep
<1>13. CASE SetApply
  <2> DEFINE c == MergeOverlay(StripKeys(rpcCM, Retired(prov, overlay), prov), overlay)
  <2>1. Write(c, NoChange, "setprune") /\ UNCHANGED <<nodeVars, rpcCM, rpcGood, excused>> /\ rpcCmd.pc = "setapply"
    BY <1>13 DEF SetApply, ApplyOverlay
  <2>2. AtStep("setapply") /\ "setapply" \in RPCSteps /\ "setprune" \in RPCSteps
    BY <2>1, <1>p, StepNames
  <2>3. overlay \in SUBSET Overlaid /\ Retired(prov, overlay) \in SUBSET Overlaid
    BY <2>2, <1>d, <1>k DEF RPCCommandFits, AtStep, Retired
  <2>4. c.local = rpcCM.local
    BY <2>3, LocalEntry
  <2> HIDE DEF c
  <2>5. /\ Writing' /\ Patching' /\ Stage' = "setprune" /\ rpcCmd'.conf = c /\ rpcCmd'.changes = NoChange
        /\ rpcCmd'.pc = "cm" /\ rpcCmd'.next = "setprune"
    BY <2>1, <2>2, Writes DEF AtStep
  <2> QED BY <2>1, <2>2, <2>4, <2>5, ChangeParts DEF AtStep
<1>14. CASE PruneOverlay
  BY <1>14, <1>p, <1>i, StepNames DEF PruneOverlay, RPCEnds, AtStep
<1>15. CASE ResetERPC
  <2> DEFINE keys == IF Tracked(prov) # {} THEN Tracked(prov) ELSE overlay
  <2> DEFINE c == StripKeys(rpcCM, keys, prov)
  <2>1. /\ Write(c, NoChange, "resetdoc") /\ UNCHANGED <<nodeVars, rpcCM, rpcGood>> /\ rpcCmd.pc = "reset"
        /\ overlay # NoDoc /\ excused' = excused \cup (keys \ Tracked(prov))
    BY <1>15 DEF ResetERPC
  <2>2. AtStep("reset") /\ "reset" \in RPCSteps /\ "resetdoc" \in RPCSteps
    BY <2>1, <1>p, StepNames
  <2>3. keys \in SUBSET Overlaid
    BY <2>1, <1>d, <1>k
  <2>4. c.local = rpcCM.local
    BY <2>3, LocalEntry
  <2>5. "unscaled" \in excused' <=> "unscaled" \in excused
    BY <2>1, <2>3, <1>k
  <2> HIDE DEF c, keys
  <2>6. /\ Writing' /\ Patching' /\ Stage' = "resetdoc" /\ rpcCmd'.conf = c /\ rpcCmd'.changes = NoChange
        /\ rpcCmd'.pc = "cm" /\ rpcCmd'.next = "resetdoc"
    BY <2>1, <2>2, Writes DEF AtStep
  <2> QED BY <2>1, <2>2, <2>4, <2>5, <2>6, ChangeParts DEF AtStep
<1>16. CASE NothingToReset
  BY <1>16, <1>p, <1>i, StepNames DEF NothingToReset, RPCEnds, AtStep
<1>17. CASE RemoveOverlayFile
  BY <1>17, <1>p, Goes, StepNames DEF RemoveOverlayFile, AtStep
<1>18. CASE RemoveProvenance
  BY <1>18, <1>p, <1>i, StepNames DEF RemoveProvenance, RPCEnds, AtStep
<1>19. CASE InstallNode
  <2>1. AtStep("install") /\ rpcCmd' = RPCIdle /\ UNCHANGED <<nodeRuns, nodeRelease, rpcCM, excused, rpcGood>>
        /\ nodeFile' = IF nodeFile = "none" THEN "on" ELSE nodeFile
    BY <1>19, <1>p, StepNames DEF InstallNode, RPCEnds
  <2> QED BY <2>1, Ends, StepNames DEF AtStep
<1>20. CASE DeployNode
  BY <1>20, <1>p, Goes, StepNames DEF DeployNode, AtStep
<1>21. CASE RegisterNode
  <2>1. PICK changes \in Changes, n \in {"uplist", "nodedone"} :
          /\ Upsert(changes, n) /\ "local" \in DOMAIN changes /\ n = IF rpcCmd.up THEN "uplist" ELSE "nodedone"
          /\ changes["local"] = IF nodeFile = "stopped" THEN 0 ELSE 1
    BY <1>21, ChangeParts DEF RegisterNode
  <2>2. AtStep("register") /\ n \in RPCSteps /\ rpcCmd.pc \in RPCSteps
    BY <1>21, <1>p, StepNames DEF RegisterNode
  <2>3. With(rpcCM, changes).local = IF nodeFile = "stopped" THEN 0 ELSE 1
    BY <2>1, LocalEntry
  <2>4. /\ Writing' /\ Patching' /\ Stage' = n /\ rpcCmd'.conf = With(rpcCM, changes) /\ rpcCmd'.next = n
        /\ rpcCmd'.changes = changes /\ rpcCmd'.pc = "cm"
    BY <2>1, <2>2, Writes DEF Upsert, AtStep
  <2>5. UNCHANGED <<nodeVars, rpcCM, excused, rpcGood>>
    BY <1>21 DEF RegisterNode
  <2>6. n = "uplist" => "node" \notin rpcGood
    BY <2>1, <2>2 DEF RPCCommandFits, AtStep
  <2>7. nodeFile \in {"none", "on", "stopped"}
    BY DEF RPCTypeOK
  <2> QED BY <2>1, <2>2, <2>3, <2>4, <2>5, <2>6, <2>7 DEF AtStep
<1>22. CASE NodeDone
  <2>1. AtStep("nodedone") /\ rpcCmd' = RPCIdle /\ UNCHANGED <<nodeVars, rpcCM, excused>>
    BY <1>22, <1>p, StepNames DEF NodeDone, RPCEnds
  <2> QED BY <2>1, Ends, StepNames DEF AtStep
<1>23. CASE SetStopped
  BY <1>23, <1>p, Goes, StepNames DEF SetStopped, AtStep
<1>24. CASE StopOffline
  BY <1>24, <1>p, <1>i, StepNames DEF StopOffline, RPCEnds, AtStep
<1>25. CASE ScaleNode
  BY <1>25, <1>p, Goes, StepNames DEF ScaleNode, AtStep
<1>26. CASE DeregisterDeleted
  BY <1>26, <1>p, Writes, Goes, LocalEntry, ChangeParts, StepNames DEF DeregisterDeleted, AtStep, Upsert
<1>27. CASE DeleteNamespace
  BY <1>27, <1>p, Goes, StepNames DEF DeleteNamespace, AtStep
<1>28. CASE DeleteDeployment
  <2>1. AtStep("deldir") /\ rpcCmd' = RPCIdle /\ UNCHANGED <<nodeRuns, nodeRelease, rpcCM, excused>>
        /\ nodeFile' = "none" /\ rpcGood' = rpcGood \cup (IF rpcCmd.clean THEN {"node"} ELSE {})
    BY <1>28, <1>p, StepNames DEF DeleteDeployment, RPCEnds
  <2> QED BY <2>1, Ends, StepNames DEF AtStep
<1>29. CASE HelmSync
  <2>1. rpcCmd \in [pc : RPCSteps, arg : {NoDoc}, up : BOOLEAN, clean : BOOLEAN]
    BY <1>29, RPCShape, SameArgument, StepNames DEF HelmSync
  <2>2. rpcCmd' = [rpcCmd EXCEPT !.pc = "upnode", !.up = TRUE] /\ rpcGood' = {}
    BY <1>29 DEF HelmSync
  <2>3. rpcCmd'.pc = "upnode"
    BY <2>1, <2>2
  <2>4. Stage' = "upnode" /\ ~Writing' /\ ~Patching'
    BY <2>3 DEF Stage, Writing, Patching
  <2>5. rpcCM'.local = 0
    BY <1>29 DEF HelmSync, ChartRPC, RPCKeys
  <2>6. /\ nodeRelease' = (nodeRelease /\ rpcCluster # "gone") /\ nodeFile' = nodeFile
        /\ nodeRuns' = IF rpcCluster = "gone" THEN 0 ELSE nodeRuns
        /\ rpcCluster # "gone" => ("unscaled" \in excused' <=> "unscaled" \in excused)
    BY <1>29, <1>k DEF HelmSync
  <2> QED BY <2>2, <2>3, <2>4, <2>5, <2>6
<1>30. CASE ResumeInstalled
  <2>1. PICK q \in {"uplist", "register", "sync"} :
          /\ RPCGoto(q) /\ q = IF nodeFile = "on" THEN (IF nodeRelease THEN "register" ELSE "sync") ELSE "uplist"
    BY <1>30 DEF ResumeInstalled, Resumed
  <2>2. q \in RPCSteps /\ UNCHANGED <<rpcGood, nodeVars, rpcCM, excused>> /\ AtStep("upnode") /\ rpcCmd.pc \in RPCSteps
    BY <1>30, <1>p, StepNames DEF ResumeInstalled
  <2>3. AtStep(q)' /\ rpcCmd'.clean = rpcCmd.clean
    BY <2>1, <2>2, Goes DEF AtStep
  <2>4. "node" \notin rpcGood
    BY <2>2 DEF RPCCommandFits, AtStep
  <2> QED BY <2>1, <2>2, <2>3, <2>4 DEF AtStep
<1>31. CASE ReplayListed
  BY <1>31, <1>p, Writes, Goes, LocalEntry, ChangeParts, StepNames DEF ReplayListed, AtStep, Upsert
<1>32. CASE ReplayCustom
  <2>0. AtStep("upcustom") /\ UNCHANGED <<nodeVars, rpcCM, excused, rpcGood>> /\ rpcCmd.pc \in RPCSteps
    BY <1>32, <1>p, StepNames DEF ReplayCustom
  <2>1. CASE recCustom # NoDoc
    <3>1. PICK changes \in Changes : Upsert(changes, "upoverlay") /\ "local" \notin DOMAIN changes
      BY <1>32, <2>1, ChangeParts DEF ReplayCustom, RPCTypeOK
    <3> QED BY <2>0, <3>1, Writes, LocalEntry, StepNames DEF AtStep, Upsert
  <2>2. CASE recCustom = NoDoc
    <3>1. RPCGoto("upoverlay")
      BY <1>32, <2>2 DEF ReplayCustom
    <3> QED BY <2>0, <3>1, Goes, StepNames DEF AtStep
  <2> QED BY <2>1, <2>2
<1>33. CASE ReplayOverlay
  <2>1. CASE overlay # NoDoc
    <3>1. PICK conf : /\ Write(conf, NoChange, "upprune") /\ conf.local = rpcCM.local
                      /\ UNCHANGED <<nodeVars, rpcCM, rpcGood, excused>>
      BY <1>33, <2>1, <1>d, <1>k, LocalEntry DEF ReplayOverlay, ApplyOverlay, Retired
    <3> QED BY <1>33, <2>1, <3>1, <1>p, Writes, ChangeParts, StepNames DEF ReplayOverlay, AtStep
  <2> QED BY <1>33, <2>1, <1>p, Goes, StepNames DEF ReplayOverlay, AtStep
<1>34. CASE PruneReplayed
  BY <1>34, <1>p, Goes, StepNames DEF PruneReplayed, AtStep
<1>35. CASE StackUpDone
  <2>1. AtStep("updone") /\ rpcCmd' = RPCIdle /\ UNCHANGED <<nodeVars, rpcCM, excused>>
        /\ rpcGood' = rpcGood \cup (IF rpcCmd.clean THEN {"overlay", "node"} ELSE {})
    BY <1>35, <1>p, StepNames DEF StackUpDone, RPCEnds
  <2> QED BY <2>1, Ends, StepNames DEF AtStep
<1>36. CASE ClusterStops
  BY <1>36 DEF ClusterStops, Stage, Writing, Patching
<1>37. CASE RPCPodsRestart
  <2>1. UNCHANGED <<rpcCmd, nodeVars, rpcCM, rpcGood>> /\ ("unscaled" \in excused' <=> "unscaled" \in excused)
    BY <1>37 DEF RPCPodsRestart
  <2> QED BY <2>1 DEF Stage, Writing, Patching
<1> QED
  BY <1>0, <1>1, <1>2, <1>3, <1>4, <1>5, <1>6, <1>7, <1>8, <1>9, <1>10, <1>11, <1>12, <1>13,
     <1>14, <1>15, <1>16, <1>17, <1>18, <1>19, <1>20, <1>21, <1>22, <1>23, <1>24, <1>25, <1>26,
     <1>27, <1>28, <1>29, <1>30, <1>31, <1>32, <1>33, <1>34, <1>35, <1>36, <1>37 DEF RPCNext

-----------------------------------------------------------------------------
(* The RPC routes: what an overlay owns *)

\* What the operators on the record of origins leave tracked, and as what.
LEMMA OriginsTracked ==
    ASSUME NEW p \in OriginMaps, NEW doc \in SUBSET Overlaid
    PROVE  /\ Tracked(Untracked) = {}
           /\ Tracked(Prune(p, doc)) = Tracked(p) \cap doc
           /\ \A k \in Tracked(p) \cap doc : Prune(p, doc)[k] = p[k]
           /\ \A conf \in RPCConfigs :
                /\ Tracked(Capture(p, conf, doc)) = Tracked(p) \cup doc
                /\ \A k \in Tracked(p) : Capture(p, conf, doc)[k] = p[k]
                /\ \A k \in doc \ Tracked(p) : Capture(p, conf, doc)[k] = conf[k]
<1>1. NoDoc \notin Versions /\ Overlaid \subseteq RPCKeys
  BY RPCMarks DEF Overlaid, RPCKeys
<1>2. Tracked(Untracked) = {}
  BY DEF Tracked, Untracked
<1>3. Tracked(Prune(p, doc)) = Tracked(p) \cap doc /\ \A k \in Tracked(p) \cap doc : Prune(p, doc)[k] = p[k]
  BY DEF Tracked, Prune
<1>4. ASSUME NEW conf \in RPCConfigs
      PROVE  /\ Tracked(Capture(p, conf, doc)) = Tracked(p) \cup doc
             /\ \A k \in Tracked(p) : Capture(p, conf, doc)[k] = p[k]
             /\ \A k \in doc \ Tracked(p) : Capture(p, conf, doc)[k] = conf[k]
  <2>1. \A k \in Overlaid : conf[k] # NoDoc
    BY <1>1 DEF RPCConfigs
  <2> QED BY <2>1 DEF Tracked, Capture
<1> QED BY <1>2, <1>3, <1>4

LEMMA EnsuredTracked ==
    ASSUME NEW p \in OriginMaps, NEW doc, KeysOf(doc) \subseteq Overlaid
    PROVE  /\ Tracked(EnsureTracks(p, doc)) = Tracked(p) \cup KeysOf(doc)
           /\ \A k \in Tracked(p) : EnsureTracks(p, doc)[k] = p[k]
<1>1. 0 # NoDoc
  BY RPCMarks DEF Versions, OverlayVersion
<1> QED BY <1>1 DEF Tracked, EnsureTracks

\* Where nothing under the overlay moves, what holds of its entries goes on.
SameUnder == UNCHANGED under /\ RPCKeys \cap excused' = RPCKeys \cap excused

LEMMA OverlaysKept ==
    ASSUME SameUnder, NEW doc
    PROVE  /\ rpcCM' = rpcCM => (Overlays(rpcCM, doc) <=> \A k \in RPCKeys \ excused' :
                rpcCM'[k] = IF k \in KeysOf(doc) THEN OverlayVersion ELSE under'[k])
           /\ rpcCM' = rpcCM /\ UNCHANGED prov /\ OriginsKept => OriginsKept'
           /\ rpcCM' = rpcCM /\ overlay' = overlay /\ Overlays(rpcCM, overlay) => Overlays(rpcCM, overlay)'
           /\ rpcCM' = rpcCM /\ Overlays(rpcCM, NoDoc) => Overlays(rpcCM, NoDoc)'
           /\ rpcCmd'.conf = rpcCmd.conf /\ overlay' = overlay /\ Overlays(rpcCmd.conf, overlay) =>
                Overlays(rpcCmd.conf, overlay)'
           /\ rpcCmd'.conf = rpcCmd.conf /\ Overlays(rpcCmd.conf, NoDoc) => Overlays(rpcCmd.conf, NoDoc)'
<1>1. Overlaid \subseteq RPCKeys /\ \A p : Tracked(p) \subseteq Overlaid
  BY DEF Overlaid, RPCKeys, Tracked
<1>2. \A k \in RPCKeys : k \in excused' <=> k \in excused
  BY DEF SameUnder
<1>3. rpcCM' = rpcCM /\ UNCHANGED prov /\ OriginsKept => OriginsKept'
  BY <1>1, <1>2 DEF SameUnder, OriginsKept, Tracked
<1> QED BY <1>2, <1>3 DEF SameUnder, Overlays

\* An applied overlay has its entries, and gives back what the ones it dropped
\* had replaced; a removed one gives everything back.
LEMMA AppliedOverlays ==
    ASSUME RPCTypeOK, OriginsKept, NEW doc \in SUBSET Overlaid, doc # NoDoc
    PROVE  Overlays(MergeOverlay(StripKeys(rpcCM, Retired(prov, doc), prov), doc), doc)
<1> DEFINE base == StripKeys(rpcCM, Retired(prov, doc), prov)
<1>1. KeysOf(doc) = doc /\ Overlaid \subseteq RPCKeys /\ Tracked(prov) \subseteq Overlaid
  BY DEF KeysOf, Overlaid, RPCKeys, Tracked
<1>2. ASSUME NEW k \in RPCKeys \ excused, k \notin doc PROVE base[k] = under[k]
  <2>1. base[k] = IF k \notin Retired(prov, doc) \/ rpcCM[k] = 0 THEN rpcCM[k]
                  ELSE IF k \in Tracked(prov) THEN prov[k] ELSE 0
    BY DEF StripKeys
  <2>2. CASE k \in Tracked(prov)
    <3>1. k \in Retired(prov, doc) /\ prov[k] = under[k] /\ rpcCM[k] \in {OverlayVersion, under[k]}
      BY <1>2, <2>2 DEF Retired, OriginsKept
    <3>2. OverlayVersion # 0
      BY DEF OverlayVersion
    <3> QED BY <2>1, <2>2, <3>1, <3>2
  <2>3. CASE k \notin Tracked(prov)
    BY <2>1, <2>3 DEF Retired, OriginsKept
  <2> QED BY <2>2, <2>3
<1>3. ASSUME NEW k \in RPCKeys \ excused
      PROVE  MergeOverlay(base, doc)[k] = IF k \in doc THEN OverlayVersion ELSE under[k]
  BY <1>2 DEF MergeOverlay
<1> QED BY <1>1, <1>3 DEF Overlays

LEMMA StrippedOverlays ==
    ASSUME RPCTypeOK, OriginsKept, NEW keys \in SUBSET Overlaid, Tracked(prov) \subseteq keys,
           NEW k \in RPCKeys, k \notin excused \cup (keys \ Tracked(prov))
    PROVE  StripKeys(rpcCM, keys, prov)[k] = under[k]
<1>1. StripKeys(rpcCM, keys, prov)[k] = IF k \notin keys \/ rpcCM[k] = 0 THEN rpcCM[k]
                  ELSE IF k \in Tracked(prov) THEN prov[k] ELSE 0
  BY DEF StripKeys
<1>2. CASE k \in Tracked(prov)
  <2>1. prov[k] = under[k] /\ rpcCM[k] \in {OverlayVersion, under[k]}
    BY <1>2 DEF OriginsKept
  <2>2. OverlayVersion # 0
    BY DEF OverlayVersion
  <2> QED BY <1>1, <1>2, <2>1, <2>2
<1>3. CASE k \notin Tracked(prov)
  BY <1>1, <1>3 DEF OriginsKept
<1> QED BY <1>2, <1>3

\* Where an action leaves what is under the overlay.
LEMMA UnderKept ==
    ASSUME RPCTypeOK, RPCNext
    PROVE  SameUnder \/ PatchConfigMap \/ SetERPC \/ ResetERPC \/ HelmSync
<1>1. "unscaled" \notin RPCKeys /\ "skew" \notin RPCKeys
  BY DEF RPCKeys
<1> USE DEF SameUnder
<1>2. CASE Asked
  BY <1>1, <1>2 DEF Asked
<1>3. CASE PatchConfigMap
  BY <1>3
<1>4. CASE RollPods
  BY <1>1, <1>4 DEF RollPods, PatchHash
<1>5. CASE RPCCut
  BY <1>1, <1>5 DEF RPCCut
<1>6. CASE WriteWarned
  BY <1>1, <1>6 DEF WriteWarned
<1>7. CASE RPCRefused
  BY <1>1, <1>7 DEF RPCRefused
<1>8. CASE AddCustomRPC
  BY <1>1, <1>8 DEF AddCustomRPC
<1>9. CASE RecordCustomRPC
  BY <1>1, <1>9 DEF RecordCustomRPC
<1>10. CASE ListRPCs
  BY <1>1, <1>10 DEF ListRPCs
<1>11. CASE RecordListRPCs
  BY <1>1, <1>11 DEF RecordListRPCs
<1>12. CASE SetERPC
  BY <1>12
<1>13. CASE SaveOverlay
  BY <1>1, <1>13 DEF SaveOverlay
<1>14. CASE SetApply
  BY <1>1, <1>14 DEF SetApply
<1>15. CASE PruneOverlay
  BY <1>1, <1>15 DEF PruneOverlay
<1>16. CASE ResetERPC
  BY <1>16
<1>17. CASE NothingToReset
  BY <1>1, <1>17 DEF NothingToReset
<1>18. CASE RemoveOverlayFile
  BY <1>1, <1>18 DEF RemoveOverlayFile
<1>19. CASE RemoveProvenance
  BY <1>1, <1>19 DEF RemoveProvenance
<1>20. CASE InstallNode
  BY <1>1, <1>20 DEF InstallNode
<1>21. CASE DeployNode
  BY <1>1, <1>21 DEF DeployNode
<1>22. CASE RegisterNode
  BY <1>1, <1>22 DEF RegisterNode
<1>23. CASE NodeDone
  BY <1>1, <1>23 DEF NodeDone
<1>24. CASE SetStopped
  BY <1>1, <1>24 DEF SetStopped
<1>25. CASE StopOffline
  BY <1>1, <1>25 DEF StopOffline
<1>26. CASE ScaleNode
  BY <1>1, <1>26 DEF ScaleNode
<1>27. CASE DeregisterDeleted
  BY <1>1, <1>27 DEF DeregisterDeleted
<1>28. CASE DeleteNamespace
  BY <1>1, <1>28 DEF DeleteNamespace
<1>29. CASE DeleteDeployment
  BY <1>1, <1>29 DEF DeleteDeployment
<1>30. CASE HelmSync
  BY <1>30
<1>31. CASE ResumeInstalled
  BY <1>1, <1>31 DEF ResumeInstalled
<1>32. CASE ReplayListed
  BY <1>1, <1>32 DEF ReplayListed
<1>33. CASE ReplayCustom
  BY <1>1, <1>33 DEF ReplayCustom
<1>34. CASE ReplayOverlay
  BY <1>1, <1>34 DEF ReplayOverlay
<1>35. CASE PruneReplayed
  BY <1>1, <1>35 DEF PruneReplayed
<1>36. CASE StackUpDone
  BY <1>1, <1>36 DEF StackUpDone
<1>37. CASE ClusterStops
  BY <1>1, <1>37 DEF ClusterStops
<1>38. CASE RPCPodsRestart
  BY <1>1, <1>38 DEF RPCPodsRestart
<1> QED
  BY <1>2, <1>3, <1>4, <1>5, <1>6, <1>7, <1>8, <1>9, <1>10, <1>11, <1>12, <1>13, <1>14, <1>15,
     <1>16, <1>17, <1>18, <1>19, <1>20, <1>21, <1>22, <1>23, <1>24, <1>25, <1>26, <1>27, <1>28,
     <1>29, <1>30, <1>31, <1>32, <1>33, <1>34, <1>35, <1>36, <1>37, <1>38 DEF RPCNext

LEMMA OriginsStep ==
    ASSUME RPCTypeOK, RPCCommandFits, OriginsKept, OverlayKept, [RPCNext]_rpcVars
    PROVE  OriginsKept'
<1>t. /\ prov \in OriginMaps /\ rpcCM \in RPCConfigs /\ under \in RPCConfigs
      /\ (overlay # NoDoc => overlay \in SUBSET Overlaid) /\ KeysOf(overlay) \subseteq Overlaid
  BY RPCMarks DEF RPCTypeOK, OriginMaps, KeysOf
<1>k. Overlaid \subseteq RPCKeys /\ \A p : Tracked(p) \subseteq Overlaid
  BY DEF Overlaid, RPCKeys, Tracked
<1>p. \A p \in RPCSteps : rpcCmd.pc = p => AtStep(p)
  BY StepsApart
<1>0. CASE UNCHANGED rpcVars
  BY <1>0 DEF rpcVars, OriginsKept, Tracked
<1>1. CASE rpcCM' = rpcCM /\ prov' = prov /\ SameUnder
  BY <1>1, OverlaysKept
<1>2. CASE PatchConfigMap
  <2>1. Patching /\ Writing /\ rpcCmd.changes \in Changes /\ rpcCmd.next \in RPCSteps
    BY <1>2, RPCShape DEF PatchConfigMap, Patching, Writing
  <2>2. Stage = rpcCmd.next
    BY <2>1, StepsApart
  <2>3. /\ rpcCM' = rpcCmd.conf /\ under' = With(under, rpcCmd.changes) /\ prov' = prov
        /\ excused' = (excused \ DOMAIN rpcCmd.changes) \cup
             {k \in DOMAIN rpcCmd.changes \cap Tracked(prov) : prov[k] # rpcCmd.changes[k] \/ ~rpcCmd.up}
    BY <1>2 DEF PatchConfigMap, Undercuts
  <2>4. \A k \in RPCKeys :
          under'[k] = IF k \in DOMAIN rpcCmd.changes THEN rpcCmd.changes[k] ELSE under[k]
    BY <2>3 DEF With
  <2>5. CASE rpcCmd.next \in UpsertSteps
    <3>1. \A k \in RPCKeys :
            rpcCM'[k] = IF k \in DOMAIN rpcCmd.changes THEN rpcCmd.changes[k] ELSE rpcCM[k]
      BY <2>1, <2>3, <2>5 DEF RPCCommandFits, With
    <3>2. ASSUME NEW k \in RPCKeys \ excused'
          PROVE  /\ k \in Tracked(prov) => prov[k] = under'[k] /\ rpcCM'[k] \in {OverlayVersion, under'[k]}
                 /\ k \notin Tracked(prov) => rpcCM'[k] = under'[k]
      <4>1. CASE k \in DOMAIN rpcCmd.changes
        BY <2>3, <2>4, <3>1, <3>2, <4>1
      <4>2. CASE k \notin DOMAIN rpcCmd.changes
        BY <2>3, <2>4, <3>1, <3>2, <4>2 DEF OriginsKept
      <4> QED BY <4>1, <4>2
    <3> QED BY <1>k, <2>3, <3>2 DEF OriginsKept
  <2>6. CASE rpcCmd.next \in OverlaySteps
    <3>1. rpcCmd.changes = NoChange /\ DOMAIN NoChange = {}
      BY <2>1, <2>6, ChangeParts DEF RPCCommandFits
    <3>2. excused' = excused /\ \A k \in RPCKeys : under'[k] = under[k]
      BY <2>3, <2>4, <3>1
    <3>3. PICK doc : Overlays(rpcCmd.conf, doc) /\ KeysOf(doc) \subseteq Tracked(prov)
      <4>1. CASE rpcCmd.next \in {"setprune", "upprune"}
        BY <2>1, <2>2, <4>1 DEF OverlayKept
      <4>2. CASE rpcCmd.next = "resetdoc"
        <5>1. KeysOf(NoDoc) = {}
          BY DEF KeysOf
        <5> QED BY <2>1, <2>2, <4>2, <5>1 DEF OverlayKept
      <4> QED BY <2>6, <4>1, <4>2 DEF OverlaySteps
    <3>4. \A k \in RPCKeys \ excused : rpcCM'[k] = IF k \in KeysOf(doc) THEN OverlayVersion ELSE under[k]
      BY <2>3, <3>3 DEF Overlays
    <3> QED BY <1>k, <2>3, <3>2, <3>3, <3>4 DEF OriginsKept
  <2> QED BY <2>1, <2>5, <2>6 DEF RPCCommandFits
<1>3. CASE SetERPC
  <2>1. /\ prov' = EnsureTracks(prov, overlay) /\ excused' = excused \cup (KeysOf(overlay) \ Tracked(prov))
        /\ UNCHANGED <<rpcCM, under>>
    BY <1>3 DEF SetERPC
  <2>2. /\ Tracked(prov') = Tracked(prov) \cup KeysOf(overlay)
        /\ \A k \in Tracked(prov) : prov'[k] = prov[k]
    BY <1>t, <2>1, EnsuredTracked
  <2> QED BY <2>1, <2>2 DEF OriginsKept
<1>4. CASE SetApply \/ (ReplayOverlay /\ overlay # NoDoc)
  <2>1. PICK next : ApplyOverlay(next) /\ UNCHANGED <<rpcCM, under, excused, overlay>>
    BY <1>4 DEF SetApply, ReplayOverlay
  <2>2. overlay \in SUBSET Overlaid
    <3>1. CASE SetApply
      <4>1. Stage = "setapply"
        BY <3>1, <1>p, StepNames DEF SetApply, AtStep
      <4> QED BY <1>t, <4>1 DEF RPCCommandFits
    <3> QED BY <1>4, <3>1, <1>t
  <2> DEFINE base == StripKeys(rpcCM, Retired(prov, overlay), prov)
  <2>3. base \in RPCConfigs
    BY <1>t, ConfigsKept DEF OriginMaps
  <2>4. prov' = Capture(prov, base, overlay)
    BY <2>1 DEF ApplyOverlay
  <2>5. \A k \in overlay \ Tracked(prov) : base[k] = rpcCM[k]
    BY <1>k, <2>2 DEF StripKeys, Retired
  <2> HIDE DEF base
  <2>6. /\ Tracked(prov') = Tracked(prov) \cup overlay
        /\ \A k \in Tracked(prov) : prov'[k] = prov[k]
        /\ \A k \in overlay \ Tracked(prov) : prov'[k] = base[k]
    BY <1>t, <2>2, <2>3, <2>4, OriginsTracked
  <2> QED BY <1>k, <2>1, <2>2, <2>5, <2>6 DEF OriginsKept
<1>5. CASE PruneOverlay \/ PruneReplayed
  <2>1. /\ prov' = Prune(prov, overlay) /\ UNCHANGED <<rpcCM, under, excused, overlay>>
        /\ rpcCmd.pc \in {"setprune", "upprune"}
    BY <1>5 DEF PruneOverlay, PruneReplayed
  <2>2. Stage \in {"setprune", "upprune"} /\ ~Patching
    BY <1>p, <2>1, StepNames DEF AtStep
  <2>3. overlay # NoDoc /\ Overlays(rpcCM, overlay)
    BY <2>2 DEF RPCCommandFits, OverlayKept
  <2>4. KeysOf(overlay) = overlay /\ overlay \in SUBSET Overlaid
    BY <1>t, <2>3 DEF KeysOf
  <2>5. Tracked(prov') = Tracked(prov) \cap overlay /\ \A k \in Tracked(prov) \cap overlay : prov'[k] = prov[k]
    BY <1>t, <2>1, <2>4, OriginsTracked
  <2>6. \A k \in RPCKeys \ excused : rpcCM[k] = IF k \in overlay THEN OverlayVersion ELSE under[k]
    BY <2>3, <2>4 DEF Overlays
  <2>7. ASSUME NEW k \in RPCKeys \ (Tracked(prov') \cup excused) PROVE rpcCM[k] = under[k]
    BY <2>5, <2>6, <2>7 DEF OriginsKept
  <2>8. ASSUME NEW k \in Tracked(prov') \ excused
        PROVE  prov'[k] = under[k] /\ rpcCM[k] \in {OverlayVersion, under[k]}
    BY <2>5, <2>8 DEF OriginsKept
  <2> QED BY <2>1, <2>7, <2>8 DEF OriginsKept
<1>6. CASE ResetERPC
  <2>1. excused \subseteq excused' /\ UNCHANGED <<rpcCM, under, prov>>
    BY <1>6 DEF ResetERPC
  <2> QED BY <2>1 DEF OriginsKept, Tracked
<1>7. CASE RemoveProvenance
  <2>1. /\ prov' = Untracked /\ UNCHANGED <<rpcCM, under, excused>> /\ rpcCmd.pc = "resetprov"
    BY <1>7 DEF RemoveProvenance
  <2>2. Stage = "resetprov" /\ ~Patching
    BY <1>p, <2>1, StepNames DEF AtStep
  <2>3. Overlays(rpcCM, NoDoc) /\ KeysOf(NoDoc) = {}
    BY <2>2 DEF OverlayKept, KeysOf
  <2>4. Tracked(prov') = {}
    BY <1>t, <2>1, OriginsTracked
  <2> QED BY <2>1, <2>3, <2>4 DEF OriginsKept, Overlays
<1>8. CASE HelmSync
  <2>1. /\ rpcCM' = under' /\ under' = ChartRPC /\ prov' = prov
        /\ {k \in Tracked(prov) : prov[k] # ChartRPC[k]} \subseteq excused'
    BY <1>8 DEF HelmSync
  <2> QED BY <2>1 DEF OriginsKept
<1>9. ASSUME RPCNext, ~PatchConfigMap, ~SetERPC, ~SetApply, ~PruneOverlay, ~PruneReplayed, ~ResetERPC, ~RemoveProvenance, ~HelmSync,
             ~(ReplayOverlay /\ overlay # NoDoc)
      PROVE  rpcCM' = rpcCM /\ prov' = prov
  <2>1. CASE Asked
    BY <2>1 DEF Asked
  <2>2. CASE RollPods
    BY <2>2 DEF RollPods
  <2>3. CASE RPCCut
    BY <2>3 DEF RPCCut
  <2>4. CASE WriteWarned
    BY <2>4 DEF WriteWarned
  <2>5. CASE RPCRefused
    BY <2>5 DEF RPCRefused
  <2>6. CASE AddCustomRPC
    BY <2>6 DEF AddCustomRPC
  <2>7. CASE RecordCustomRPC
    BY <2>7 DEF RecordCustomRPC
  <2>8. CASE ListRPCs
    BY <2>8 DEF ListRPCs
  <2>9. CASE RecordListRPCs
    BY <2>9 DEF RecordListRPCs
  <2>10. CASE SaveOverlay
    BY <2>10 DEF SaveOverlay
  <2>11. CASE NothingToReset
    BY <2>11 DEF NothingToReset
  <2>12. CASE RemoveOverlayFile
    BY <2>12 DEF RemoveOverlayFile
  <2>13. CASE InstallNode
    BY <2>13 DEF InstallNode
  <2>14. CASE DeployNode
    BY <2>14 DEF DeployNode
  <2>15. CASE RegisterNode
    BY <2>15 DEF RegisterNode
  <2>16. CASE NodeDone
    BY <2>16 DEF NodeDone
  <2>17. CASE SetStopped
    BY <2>17 DEF SetStopped
  <2>18. CASE StopOffline
    BY <2>18 DEF StopOffline
  <2>19. CASE ScaleNode
    BY <2>19 DEF ScaleNode
  <2>20. CASE DeregisterDeleted
    BY <2>20 DEF DeregisterDeleted
  <2>21. CASE DeleteNamespace
    BY <2>21 DEF DeleteNamespace
  <2>22. CASE DeleteDeployment
    BY <2>22 DEF DeleteDeployment
  <2>23. CASE ResumeInstalled
    BY <2>23 DEF ResumeInstalled
  <2>24. CASE ReplayListed
    BY <2>24 DEF ReplayListed
  <2>25. CASE ReplayCustom
    BY <2>25 DEF ReplayCustom
  <2>26. CASE StackUpDone
    BY <2>26 DEF StackUpDone
  <2>27. CASE ClusterStops
    BY <2>27 DEF ClusterStops
  <2>28. CASE RPCPodsRestart
    BY <2>28 DEF RPCPodsRestart
  <2>29. CASE ReplayOverlay
    BY <1>9, <2>29 DEF ReplayOverlay
  <2> QED
    BY <1>9, <2>1, <2>2, <2>3, <2>4, <2>5, <2>6, <2>7, <2>8, <2>9, <2>10, <2>11, <2>12, <2>13, <2>14,
       <2>15, <2>16, <2>17, <2>18, <2>19, <2>20, <2>21, <2>22, <2>23, <2>24, <2>25, <2>26, <2>27,
       <2>28, <2>29 DEF RPCNext
<1>10. CASE RPCNext
  <2>1. SameUnder \/ PatchConfigMap \/ SetERPC \/ ResetERPC \/ HelmSync
    BY <1>10, UnderKept
  <2>2. CASE /\ ~PatchConfigMap /\ ~SetERPC /\ ~SetApply /\ ~PruneOverlay /\ ~PruneReplayed
             /\ ~ResetERPC /\ ~RemoveProvenance /\ ~HelmSync /\ ~(ReplayOverlay /\ overlay # NoDoc)
    <3>1. rpcCM' = rpcCM /\ prov' = prov
      BY <1>9, <1>10, <2>2
    <3> QED BY <1>1, <2>1, <2>2, <3>1
  <2> QED BY <1>2, <1>3, <1>4, <1>5, <1>6, <1>7, <1>8, <2>2
<1> QED BY <1>0, <1>10

LEMMA OverlayStep ==
    ASSUME RPCTypeOK, RPCCommandFits, OriginsKept, OverlayKept, [RPCNext]_rpcVars
    PROVE  OverlayKept'
<1>t. /\ prov \in OriginMaps /\ rpcCM \in RPCConfigs /\ under \in RPCConfigs
      /\ (overlay # NoDoc => overlay \in SUBSET Overlaid) /\ KeysOf(overlay) \subseteq Overlaid
  BY RPCMarks DEF RPCTypeOK, OriginMaps, KeysOf
<1>k. Overlaid \subseteq RPCKeys /\ \A p : Tracked(p) \subseteq Overlaid
  BY DEF Overlaid, RPCKeys, Tracked
<1>p. \A p \in RPCSteps : rpcCmd.pc = p => AtStep(p)
  BY StepsApart
<1>n. KeysOf(NoDoc) = {}
  BY DEF KeysOf
<1>s. "unscaled" \notin RPCKeys /\ "skew" \notin RPCKeys
  BY DEF RPCKeys
<1> DEFINE Resetting == {"resetdoc", "resetprov"}
<1>q. ASSUME SameUnder, rpcCM' = rpcCM, overlay' = overlay
      PROVE  /\ Overlays(rpcCM, overlay) => Overlays(rpcCM, overlay)'
             /\ Overlays(rpcCM, NoDoc) => Overlays(rpcCM, NoDoc)'
             /\ rpcCmd'.conf = rpcCmd.conf /\ Overlays(rpcCmd.conf, overlay) => Overlays(rpcCmd.conf, overlay)'
             /\ rpcCmd'.conf = rpcCmd.conf /\ Overlays(rpcCmd.conf, NoDoc) => Overlays(rpcCmd.conf, NoDoc)'
             /\ UNCHANGED <<under, rpcCM>> /\ KeysOf(overlay)' = KeysOf(overlay)
  <2>1. UNCHANGED <<under, rpcCM>> /\ KeysOf(overlay)' = KeysOf(overlay)
    BY <1>q DEF SameUnder, KeysOf
  <2> QED BY <1>q, <2>1, OverlaysKept
<1>f. prov' = prov => Tracked(prov)' = Tracked(prov)
  BY DEF Tracked
\* A command that is over, or at its next step, with nothing moved.
<1>i. ASSUME rpcCmd' = RPCIdle, rpcCM' = rpcCM, overlay' = overlay, prov' = prov, SameUnder,
             "overlay" \in rpcGood' => "overlay" \in rpcGood /\ Stage \notin Resetting
      PROVE  OverlayKept'
  <2>1. Stage' = "idle" /\ ~Patching'
    BY <1>i, Ends
  <2> QED BY <1>i, <1>q, <1>f, <2>1 DEF OverlayKept
<1>g. ASSUME rpcCM' = rpcCM, overlay' = overlay, prov' = prov, SameUnder,
             rpcCmd'.up => rpcCmd # RPCIdle /\ rpcCmd.up,
             "overlay" \in rpcGood' => "overlay" \in rpcGood,
             Stage \notin Resetting \cup {"upprune", "updone"},
             Stage' \notin Resetting \cup {"setprune", "upprune", "updone"}
      PROVE  OverlayKept'
  BY <1>q, <1>f, <1>g DEF OverlayKept
<1>0. CASE UNCHANGED rpcVars
  <2>1. UNCHANGED <<rpcCmd, rpcCM, overlay, prov, under, excused, rpcGood>>
    BY <1>0 DEF rpcVars
  <2>2. SameUnder /\ UNCHANGED <<Stage, Patching>>
    BY <2>1 DEF SameUnder, Stage, Writing, Patching
  <2> QED BY <1>q, <1>f, <2>1, <2>2 DEF OverlayKept
<1>1. CASE Asked
  <2>1. PICK p \in {"addcustom", "list", "set", "reset", "install", "stackup", "sync", "stop", "start", "delete"} :
          \E a : RPCBegin(p, a)
    BY <1>1 DEF Asked
  <2>2. p \in RPCSteps
    BY StepNames
  <2>3. AtStep(p)' /\ rpcCmd'.up = FALSE /\ rpcCmd = RPCIdle
    BY <2>1, <2>2, Begins
  <2>4. Stage = "idle"
    BY <2>3, StepsApart
  <2>5. rpcCM' = rpcCM /\ overlay' = overlay /\ prov' = prov /\ SameUnder /\ rpcGood' = rpcGood
    BY <1>1 DEF Asked, SameUnder
  <2> QED BY <1>g, <2>1, <2>3, <2>4, <2>5 DEF AtStep
<1>2. CASE PatchConfigMap
  <2>1. Patching /\ Writing /\ rpcCmd.changes \in Changes /\ rpcCmd.next \in RPCSteps
    BY <1>2, RPCShape DEF PatchConfigMap, Patching, Writing
  <2>2. Stage = rpcCmd.next /\ rpcCmd # RPCIdle /\ rpcCmd.up \in BOOLEAN
    BY <2>1, StepsApart
  <2>3. /\ rpcCM' = rpcCmd.conf /\ under' = With(under, rpcCmd.changes) /\ prov' = prov /\ overlay' = overlay
        /\ excused' = (excused \ DOMAIN rpcCmd.changes) \cup
             {k \in DOMAIN rpcCmd.changes \cap Tracked(prov) : prov[k] # rpcCmd.changes[k] \/ ~rpcCmd.up}
        /\ ("overlay" \in rpcGood' <=> "overlay" \in rpcGood)
    BY <1>2 DEF PatchConfigMap, Undercuts
  <2>4. ~Patching' /\ Stage' = Stage /\ rpcCmd'.up = rpcCmd.up /\ rpcCmd'.clean = rpcCmd.clean
    BY <1>2, <2>1, <2>2, Patches DEF PatchConfigMap
  <2>5. \A k \in RPCKeys :
          under'[k] = IF k \in DOMAIN rpcCmd.changes THEN rpcCmd.changes[k] ELSE under[k]
    BY <2>3 DEF With
  <2>6. CASE rpcCmd.next \in UpsertSteps
    <3>1. rpcCM' = With(rpcCM, rpcCmd.changes)
      BY <2>1, <2>3, <2>6 DEF RPCCommandFits
    <3>2. \A k \in RPCKeys :
            rpcCM'[k] = IF k \in DOMAIN rpcCmd.changes THEN rpcCmd.changes[k] ELSE rpcCM[k]
      BY <3>1 DEF With
    <3>3. Stage \notin {"setprune", "upprune", "updone"} \cup Resetting
      BY <2>2, <2>6 DEF UpsertSteps
    <3>4. rpcCM = under => rpcCM' = under'
      BY <2>3, <3>1
    <3>5. ASSUME "overlay" \in rpcGood PROVE Overlays(rpcCM, overlay)' /\ KeysOf(overlay) \subseteq Tracked(prov)
      <4>1. Overlays(rpcCM, overlay) /\ KeysOf(overlay) \subseteq Tracked(prov) /\ ~rpcCmd.up
        BY <2>2, <3>3, <3>5 DEF OverlayKept, RPCCommandFits
      <4>2. \A k \in RPCKeys \ excused : rpcCM[k] = IF k \in KeysOf(overlay) THEN OverlayVersion ELSE under[k]
        BY <4>1 DEF Overlays
      <4>3. ASSUME NEW k \in RPCKeys \ excused'
            PROVE  rpcCM'[k] = IF k \in KeysOf(overlay) THEN OverlayVersion ELSE under'[k]
        BY <2>3, <2>5, <3>2, <4>1, <4>2, <4>3
      <4> QED BY <2>3, <4>1, <4>3 DEF Overlays, KeysOf
    <3>6. KeysOf(overlay)' = KeysOf(overlay) /\ Tracked(prov)' = Tracked(prov)
      BY <2>3 DEF KeysOf, Tracked
    <3> QED BY <2>2, <2>3, <2>4, <3>3, <3>4, <3>5, <3>6 DEF OverlayKept
  <2>7. CASE rpcCmd.next \in OverlaySteps
    <3>1. rpcCmd.changes = NoChange /\ DOMAIN NoChange = {}
      BY <2>1, <2>7, ChangeParts DEF RPCCommandFits
    <3>2. excused' = excused /\ \A k \in RPCKeys : under'[k] = under[k]
      BY <2>3, <2>5, <3>1
    <3>3. Overlays(rpcCmd.conf, overlay) => Overlays(rpcCM, overlay)'
      BY <2>3, <3>2 DEF Overlays, KeysOf
    <3>4. Overlays(rpcCmd.conf, NoDoc) => Overlays(rpcCM, NoDoc)'
      BY <2>3, <3>2 DEF Overlays
    <3>5. KeysOf(overlay)' = KeysOf(overlay) /\ Tracked(prov)' = Tracked(prov)
      BY <2>3 DEF KeysOf, Tracked
    <3>6. CASE rpcCmd.next = "setprune"
      <4>1. "overlay" \notin rpcGood /\ ~rpcCmd.up
        BY <2>2, <3>6 DEF RPCCommandFits, SetSteps, ReplaySteps
      <4> QED BY <2>1, <2>2, <2>3, <2>4, <3>3, <3>5, <3>6, <4>1 DEF OverlayKept
    <3>7. CASE rpcCmd.next = "upprune"
      <4>1. "overlay" \notin rpcGood
        BY <2>2, <3>7 DEF RPCCommandFits, ReplaySteps
      <4> QED BY <2>1, <2>2, <2>3, <2>4, <3>3, <3>5, <3>7, <4>1 DEF OverlayKept
    <3>8. CASE rpcCmd.next = "resetdoc"
      <4>1. ~rpcCmd.up
        BY <2>2, <3>8 DEF RPCCommandFits, ReplaySteps
      <4> QED BY <2>1, <2>2, <2>3, <2>4, <3>4, <3>5, <3>8, <4>1 DEF OverlayKept
    <3> QED BY <2>7, <3>6, <3>7, <3>8 DEF OverlaySteps
  <2> QED BY <2>1, <2>6, <2>7 DEF RPCCommandFits
<1>3. CASE RollPods
  <2>1. Writing /\ ~Patching /\ rpcCmd.next \in RPCSteps /\ rpcCmd.clean \in BOOLEAN
    BY <1>3, RPCShape DEF RollPods, Writing, Patching
  <2>2. Stage = rpcCmd.next /\ rpcCmd # RPCIdle
    BY <2>1, StepsApart
  <2>3. PICK p \in RPCSteps : p = rpcCmd.next
    BY <2>1
  <2>4. AtStep(p)' /\ rpcCmd'.up = rpcCmd.up /\ rpcCmd'.clean = rpcCmd.clean
    BY <1>3, <2>1, <2>3, GoesOn DEF RollPods
  <2>5. rpcCM' = rpcCM /\ overlay' = overlay /\ prov' = prov /\ SameUnder /\ ("overlay" \in rpcGood' <=> "overlay" \in rpcGood)
    BY <1>3, <1>s DEF RollPods, PatchHash, SameUnder
  <2> QED BY <1>q, <1>f, <2>1, <2>2, <2>3, <2>4, <2>5 DEF OverlayKept, AtStep
<1>4. CASE RPCCut
  <2>1. rpcCM' = rpcCM /\ overlay' = overlay /\ prov' = prov /\ SameUnder /\ rpcCmd' = RPCIdle /\ rpcGood' = {}
    BY <1>4 DEF RPCCut, SameUnder
  <2> QED BY <1>i, <2>1
<1>5. CASE WriteWarned
  <2>1. Writing /\ rpcCmd.next \in RPCSteps
    BY <1>5, RPCShape DEF WriteWarned, Writing
  <2>2. Stage = rpcCmd.next /\ rpcCmd # RPCIdle
    BY <2>1, StepsApart
  <2>3. PICK p \in RPCSteps : p = IF rpcCmd.next = "upprune" THEN "updone" ELSE rpcCmd.next
    BY <2>1, StepNames
  <2>4. Written(p, FALSE) /\ rpcCM' = rpcCM /\ overlay' = overlay /\ prov' = prov /\ SameUnder /\ rpcGood' = rpcGood
    BY <1>5, <2>3 DEF WriteWarned, SameUnder
  <2>5. AtStep(p)' /\ rpcCmd'.up = rpcCmd.up /\ rpcCmd'.clean = FALSE
    BY <2>1, <2>3, <2>4, GoesOn
  <2>6. Stage \in {"uplist", "upcustom", "upoverlay", "upprune", "delns"}
    BY <1>5, <2>1, <2>2 DEF WriteWarned, RPCCommandFits, UpsertSteps, OverlaySteps, ReplaySteps
  <2>7. Stage # "delns" => "overlay" \notin rpcGood
    BY <2>2, <2>6 DEF RPCCommandFits, ReplaySteps
  <2> QED BY <1>q, <1>f, <2>2, <2>3, <2>4, <2>5, <2>6, <2>7 DEF OverlayKept, AtStep
<1>6. CASE RPCRefused
  <2>1. rpcCM' = rpcCM /\ overlay' = overlay /\ prov' = prov /\ SameUnder /\ rpcCmd' = RPCIdle /\ rpcGood' = rpcGood
        /\ rpcCmd.pc \in {"addcustom", "list", "setapply", "reset", "startcluster", "sync"}
    BY <1>6 DEF RPCRefused, SameUnder, RPCEnds
  <2>2. PICK p \in {"addcustom", "list", "setapply", "reset", "startcluster", "sync"} : AtStep(p)
    BY <1>p, <2>1, StepNames
  <2> QED BY <1>i, <2>1, <2>2 DEF AtStep
<1>7. CASE AddCustomRPC
  <2>1. rpcCM' = rpcCM /\ overlay' = overlay /\ prov' = prov /\ SameUnder /\ rpcCmd.pc = "addcustom" /\ rpcGood' \subseteq rpcGood
    BY <1>7, <1>s DEF AddCustomRPC, SameUnder
  <2>2. AtStep("addcustom") /\ "addcustom" \in RPCSteps
    BY <1>p, <2>1, StepNames
  <2>3. \/ \E changes, q : q \in {"reccustom"} /\ Upsert(changes, q)
        \/ \E q \in {"reccustom"} : RPCGoto(q)
    BY <1>7 DEF AddCustomRPC
  <2>4. CASE \E changes, q : q \in {"reccustom"} /\ Upsert(changes, q)
    <3>1. PICK changes, q : q \in {"reccustom"} /\ Upsert(changes, q)
      BY <2>4
    <3>2. q \in RPCSteps
      BY <3>1, StepNames
    <3>3. Stage' = q /\ rpcCmd'.up = rpcCmd.up
      BY <2>1, <2>2, <3>1, <3>2, Writes DEF Upsert
    <3> QED BY <1>g, <2>1, <2>2, <3>1, <3>3 DEF AtStep
  <2>5. CASE \E q \in {"reccustom"} : RPCGoto(q)
    <3>1. PICK q \in {"reccustom"} : RPCGoto(q)
      BY <2>5
    <3>2. q \in RPCSteps
      BY <3>1, StepNames
    <3>3. AtStep(q)' /\ rpcCmd'.up = rpcCmd.up
      BY <2>1, <2>2, <3>1, <3>2, Goes
    <3> QED BY <1>g, <2>1, <2>2, <3>1, <3>3 DEF AtStep
  <2> QED BY <2>3, <2>4, <2>5
<1>8. CASE RecordCustomRPC
  <2>1. rpcCM' = rpcCM /\ overlay' = overlay /\ prov' = prov /\ SameUnder /\ rpcCmd' = RPCIdle /\ rpcCmd.pc = "reccustom" /\ rpcGood' \subseteq rpcGood \cup {}
    BY <1>8, <1>s DEF RecordCustomRPC, SameUnder, RPCEnds
  <2>2. AtStep("reccustom")
    BY <1>p, <2>1, StepNames
  <2> QED BY <1>i, <2>1, <2>2 DEF AtStep
<1>9. CASE ListRPCs
  <2>1. rpcCM' = rpcCM /\ overlay' = overlay /\ prov' = prov /\ SameUnder /\ rpcCmd.pc = "list" /\ rpcGood' \subseteq rpcGood
    BY <1>9, <1>s DEF ListRPCs, SameUnder
  <2>2. AtStep("list") /\ "list" \in RPCSteps
    BY <1>p, <2>1, StepNames
  <2>3. \/ \E changes, q : q \in {"reclist"} /\ Upsert(changes, q)
        \/ \E q \in {"reclist"} : RPCGoto(q)
    BY <1>9 DEF ListRPCs
  <2>4. CASE \E changes, q : q \in {"reclist"} /\ Upsert(changes, q)
    <3>1. PICK changes, q : q \in {"reclist"} /\ Upsert(changes, q)
      BY <2>4
    <3>2. q \in RPCSteps
      BY <3>1, StepNames
    <3>3. Stage' = q /\ rpcCmd'.up = rpcCmd.up
      BY <2>1, <2>2, <3>1, <3>2, Writes DEF Upsert
    <3> QED BY <1>g, <2>1, <2>2, <3>1, <3>3 DEF AtStep
  <2>5. CASE \E q \in {"reclist"} : RPCGoto(q)
    <3>1. PICK q \in {"reclist"} : RPCGoto(q)
      BY <2>5
    <3>2. q \in RPCSteps
      BY <3>1, StepNames
    <3>3. AtStep(q)' /\ rpcCmd'.up = rpcCmd.up
      BY <2>1, <2>2, <3>1, <3>2, Goes
    <3> QED BY <1>g, <2>1, <2>2, <3>1, <3>3 DEF AtStep
  <2> QED BY <2>3, <2>4, <2>5
<1>10. CASE RecordListRPCs
  <2>1. rpcCM' = rpcCM /\ overlay' = overlay /\ prov' = prov /\ SameUnder /\ rpcCmd' = RPCIdle /\ rpcCmd.pc = "reclist" /\ rpcGood' \subseteq rpcGood \cup {}
    BY <1>10, <1>s DEF RecordListRPCs, SameUnder, RPCEnds
  <2>2. AtStep("reclist")
    BY <1>p, <2>1, StepNames
  <2> QED BY <1>i, <2>1, <2>2 DEF AtStep
<1>11. CASE SetERPC
  <2>1. rpcCmd.pc = "set" /\ RPCGoto("setsave") /\ rpcGood' = rpcGood \ {"overlay"}
    BY <1>11 DEF SetERPC
  <2>2. AtStep("set") /\ "set" \in RPCSteps /\ "setsave" \in RPCSteps
    BY <1>p, <2>1, StepNames
  <2>3. AtStep("setsave")' /\ rpcCmd'.up = rpcCmd.up
    BY <2>1, <2>2, Goes
  <2>4. ~rpcCmd.up
    BY <2>2, StepsApart DEF RPCCommandFits, AtStep, ReplaySteps
  <2> QED BY <2>1, <2>3, <2>4 DEF OverlayKept, AtStep
<1>12. CASE SaveOverlay
  <2>1. rpcCmd.pc = "setsave" /\ RPCGoto("setapply") /\ rpcGood' = rpcGood
    BY <1>12 DEF SaveOverlay
  <2>2. AtStep("setsave") /\ "setsave" \in RPCSteps /\ "setapply" \in RPCSteps
    BY <1>p, <2>1, StepNames
  <2>3. AtStep("setapply")' /\ rpcCmd'.up = rpcCmd.up
    BY <2>1, <2>2, Goes
  <2>4. ~rpcCmd.up /\ "overlay" \notin rpcGood
    BY <2>2, StepsApart DEF RPCCommandFits, AtStep, ReplaySteps, SetSteps
  <2> QED BY <2>1, <2>3, <2>4 DEF OverlayKept, AtStep
<1>13. CASE SetApply
  <2> DEFINE c == MergeOverlay(StripKeys(rpcCM, Retired(prov, overlay), prov), overlay)
  <2>2. /\ Write(c, NoChange, "setprune") /\ prov' = Capture(prov, StripKeys(rpcCM, Retired(prov, overlay), prov), overlay)
        /\ UNCHANGED <<rpcCM, overlay, under, excused, rpcGood>> /\ rpcCmd.pc = "setapply"
    BY <1>13 DEF SetApply, ApplyOverlay
  <2>3. AtStep("setapply") /\ "setapply" \in RPCSteps /\ "setprune" \in RPCSteps
    BY <1>p, <2>2, StepNames
  <2>4. overlay # NoDoc /\ overlay \in SUBSET Overlaid /\ KeysOf(overlay) = overlay
    BY <1>t, <2>3 DEF RPCCommandFits, AtStep, KeysOf
  <2>5. Overlays(c, overlay)
    BY <2>4, AppliedOverlays
  <2>6. StripKeys(rpcCM, Retired(prov, overlay), prov) \in RPCConfigs
    BY <1>t, ConfigsKept DEF OriginMaps
  <2>7. overlay \subseteq Tracked(prov')
    <3>1. PICK b \in RPCConfigs : prov' = Capture(prov, b, overlay)
      BY <2>2, <2>6
    <3>2. Tracked(Capture(prov, b, overlay)) = Tracked(prov) \cup overlay
      BY <1>t, <2>4, OriginsTracked
    <3> QED BY <3>1, <3>2
  <2> HIDE DEF c
  <2>8. Writing' /\ Patching' /\ Stage' = "setprune" /\ rpcCmd'.conf = c /\ rpcCmd'.up = rpcCmd.up
    BY <2>2, <2>3, Writes
  <2>9. Overlays(rpcCmd.conf, overlay)' /\ KeysOf(overlay)' \subseteq Tracked(prov)'
    BY <2>2, <2>4, <2>5, <2>7, <2>8 DEF Overlays, KeysOf
  <2>10. ~rpcCmd.up /\ "overlay" \notin rpcGood
    BY <2>3, StepsApart DEF RPCCommandFits, AtStep, ReplaySteps, SetSteps
  <2> QED BY <2>2, <2>8, <2>9, <2>10 DEF OverlayKept
<1>14. CASE PruneOverlay
  <2>1. /\ prov' = Prune(prov, overlay) /\ rpcCM' = rpcCM /\ overlay' = overlay /\ SameUnder
        /\ rpcCmd.pc = "setprune"
    BY <1>14 DEF PruneOverlay, SameUnder
  <2>2. AtStep("setprune") /\ "setprune" \in RPCSteps
    BY <1>p, <2>1, StepNames
  <2>3. overlay # NoDoc /\ Overlays(rpcCM, overlay) /\ KeysOf(overlay) \subseteq Tracked(prov)
    BY <2>2 DEF RPCCommandFits, OverlayKept, AtStep
  <2>4. KeysOf(overlay) = overlay /\ overlay \in SUBSET Overlaid
    BY <1>t, <2>3 DEF KeysOf
  <2>5. Tracked(prov') = Tracked(prov) \cap overlay
    BY <1>t, <2>1, <2>4, OriginsTracked
  <2>6. Overlays(rpcCM, overlay)' /\ KeysOf(overlay)' \subseteq Tracked(prov)'
    BY <1>q, <2>1, <2>3, <2>4, <2>5
  <2>7. Stage' = "idle" /\ ~Patching' /\ rpcCmd' = RPCIdle
    BY <1>14, Ends DEF PruneOverlay, RPCEnds
  <2> QED BY <2>6, <2>7 DEF OverlayKept
<1>15. CASE ResetERPC
  <2> DEFINE keys == IF Tracked(prov) # {} THEN Tracked(prov) ELSE overlay
  <2> DEFINE c == StripKeys(rpcCM, keys, prov)
  <2>1. /\ Write(c, NoChange, "resetdoc") /\ UNCHANGED <<rpcCM, overlay, prov, under, rpcGood>> /\ rpcCmd.pc = "reset"
        /\ overlay # NoDoc /\ excused' = excused \cup (keys \ Tracked(prov))
    BY <1>15 DEF ResetERPC
  <2>2. AtStep("reset") /\ "reset" \in RPCSteps /\ "resetdoc" \in RPCSteps
    BY <2>1, <1>p, StepNames
  <2>3. keys \in SUBSET Overlaid /\ Tracked(prov) \subseteq keys
    BY <2>1, <1>t, <1>k
  <2> HIDE DEF keys
  <2>4. \A k \in RPCKeys \ excused' : c[k] = under[k]
    BY <2>1, <2>3, StrippedOverlays
  <2> HIDE DEF c
  <2>5. Patching' /\ Stage' = "resetdoc" /\ rpcCmd'.conf = c /\ rpcCmd'.up = rpcCmd.up
    BY <2>1, <2>2, Writes
  <2>6. Overlays(rpcCmd.conf, NoDoc)'
    BY <1>n, <2>1, <2>4, <2>5 DEF Overlays
  <2>7. ~rpcCmd.up
    BY <2>2, StepsApart DEF RPCCommandFits, AtStep, ReplaySteps
  <2> QED BY <2>5, <2>6, <2>7 DEF OverlayKept
<1>16. CASE NothingToReset
  <2>1. rpcCM' = rpcCM /\ overlay' = overlay /\ prov' = prov /\ SameUnder /\ rpcCmd' = RPCIdle /\ rpcCmd.pc = "reset" /\ rpcGood' \subseteq rpcGood \cup {}
    BY <1>16, <1>s DEF NothingToReset, SameUnder, RPCEnds
  <2>2. AtStep("reset")
    BY <1>p, <2>1, StepNames
  <2> QED BY <1>i, <2>1, <2>2 DEF AtStep
<1>17. CASE RemoveOverlayFile
  <2>1. rpcCmd.pc = "resetdoc" /\ RPCGoto("resetprov") /\ rpcCM' = rpcCM /\ SameUnder
    BY <1>17 DEF RemoveOverlayFile, SameUnder
  <2>2. AtStep("resetdoc") /\ "resetdoc" \in RPCSteps /\ "resetprov" \in RPCSteps
    BY <1>p, <2>1, StepNames
  <2>3. AtStep("resetprov")' /\ rpcCmd'.up = rpcCmd.up
    BY <2>1, <2>2, Goes
  <2>4. ~rpcCmd.up
    BY <2>2, StepsApart DEF RPCCommandFits, AtStep, ReplaySteps
  <2>5. Overlays(rpcCM, NoDoc)
    BY <2>2 DEF OverlayKept, AtStep
  <2>6. Overlays(rpcCM, NoDoc)'
    BY <2>1, <2>5, OverlaysKept
  <2> QED BY <2>3, <2>4, <2>6 DEF OverlayKept, AtStep
<1>18. CASE RemoveProvenance
  <2>1. rpcCmd.pc = "resetprov" /\ rpcCmd' = RPCIdle /\ rpcCM' = rpcCM /\ overlay' = overlay /\ SameUnder
    BY <1>18 DEF RemoveProvenance, SameUnder, RPCEnds
  <2>2. AtStep("resetprov")
    BY <1>p, <2>1, StepNames
  <2>3. Overlays(rpcCM, NoDoc) /\ overlay = NoDoc
    BY <2>2 DEF OverlayKept, AtStep, RPCCommandFits
  <2>4. Overlays(rpcCM, overlay)' /\ KeysOf(overlay)' = {}
    BY <1>n, <1>q, <2>1, <2>3
  <2>5. Stage' = "idle" /\ ~Patching'
    BY <2>1, Ends
  <2> QED BY <2>1, <2>4, <2>5 DEF OverlayKept
<1>19. CASE InstallNode
  <2>1. rpcCM' = rpcCM /\ overlay' = overlay /\ prov' = prov /\ SameUnder /\ rpcCmd' = RPCIdle /\ rpcCmd.pc = "install" /\ rpcGood' \subseteq rpcGood \cup {}
    BY <1>19, <1>s DEF InstallNode, SameUnder, RPCEnds
  <2>2. AtStep("install")
    BY <1>p, <2>1, StepNames
  <2> QED BY <1>i, <2>1, <2>2 DEF AtStep
<1>20. CASE DeployNode
  <2>1. rpcCM' = rpcCM /\ overlay' = overlay /\ prov' = prov /\ SameUnder /\ rpcCmd.pc \in {"sync"} /\ rpcGood' \subseteq rpcGood
    BY <1>20, <1>s DEF DeployNode, SameUnder
  <2>2. PICK p \in {"sync"}, q \in {"register"} : rpcCmd.pc = p /\ RPCGoto(q)
    BY <1>20, <2>1 DEF DeployNode
  <2>3. AtStep(p) /\ p \in RPCSteps /\ q \in RPCSteps
    BY <1>p, <2>2, StepNames
  <2>4. AtStep(q)' /\ rpcCmd'.up = rpcCmd.up
    BY <2>2, <2>3, Goes
  <2> QED BY <1>g, <2>1, <2>2, <2>3, <2>4 DEF AtStep
<1>21. CASE RegisterNode
  <2>1. rpcCM' = rpcCM /\ overlay' = overlay /\ prov' = prov /\ SameUnder /\ rpcCmd.pc = "register" /\ rpcGood' \subseteq rpcGood
    BY <1>21, <1>s DEF RegisterNode, SameUnder
  <2>2. AtStep("register") /\ "register" \in RPCSteps
    BY <1>p, <2>1, StepNames
  <2>3. \/ \E changes, q : q \in {"uplist", "nodedone"} /\ Upsert(changes, q)
        \/ \E q \in {"uplist", "nodedone"} : RPCGoto(q)
    BY <1>21 DEF RegisterNode
  <2>4. CASE \E changes, q : q \in {"uplist", "nodedone"} /\ Upsert(changes, q)
    <3>1. PICK changes, q : q \in {"uplist", "nodedone"} /\ Upsert(changes, q)
      BY <2>4
    <3>2. q \in RPCSteps
      BY <3>1, StepNames
    <3>3. Stage' = q /\ rpcCmd'.up = rpcCmd.up
      BY <2>1, <2>2, <3>1, <3>2, Writes DEF Upsert
    <3> QED BY <1>g, <2>1, <2>2, <3>1, <3>3 DEF AtStep
  <2>5. CASE \E q \in {"uplist", "nodedone"} : RPCGoto(q)
    <3>1. PICK q \in {"uplist", "nodedone"} : RPCGoto(q)
      BY <2>5
    <3>2. q \in RPCSteps
      BY <3>1, StepNames
    <3>3. AtStep(q)' /\ rpcCmd'.up = rpcCmd.up
      BY <2>1, <2>2, <3>1, <3>2, Goes
    <3> QED BY <1>g, <2>1, <2>2, <3>1, <3>3 DEF AtStep
  <2> QED BY <2>3, <2>4, <2>5
<1>22. CASE NodeDone
  <2>1. rpcCM' = rpcCM /\ overlay' = overlay /\ prov' = prov /\ SameUnder /\ rpcCmd' = RPCIdle /\ rpcCmd.pc = "nodedone" /\ rpcGood' \subseteq rpcGood \cup {"node"}
    BY <1>22, <1>s DEF NodeDone, SameUnder, RPCEnds
  <2>2. AtStep("nodedone")
    BY <1>p, <2>1, StepNames
  <2> QED BY <1>i, <2>1, <2>2 DEF AtStep
<1>23. CASE SetStopped
  <2>1. rpcCM' = rpcCM /\ overlay' = overlay /\ prov' = prov /\ SameUnder /\ rpcCmd.pc \in {"stop", "start"} /\ rpcGood' \subseteq rpcGood
    BY <1>23, <1>s DEF SetStopped, SameUnder
  <2>2. PICK p \in {"stop", "start"}, q \in {"stopcluster", "startcluster"} : rpcCmd.pc = p /\ RPCGoto(q)
    BY <1>23, <2>1 DEF SetStopped
  <2>3. AtStep(p) /\ p \in RPCSteps /\ q \in RPCSteps
    BY <1>p, <2>2, StepNames
  <2>4. AtStep(q)' /\ rpcCmd'.up = rpcCmd.up
    BY <2>2, <2>3, Goes
  <2> QED BY <1>g, <2>1, <2>2, <2>3, <2>4 DEF AtStep
<1>24. CASE StopOffline
  <2>1. rpcCM' = rpcCM /\ overlay' = overlay /\ prov' = prov /\ SameUnder /\ rpcCmd' = RPCIdle /\ rpcCmd.pc = "stopcluster" /\ rpcGood' \subseteq rpcGood \cup {}
    BY <1>24, <1>s DEF StopOffline, SameUnder, RPCEnds
  <2>2. AtStep("stopcluster")
    BY <1>p, <2>1, StepNames
  <2> QED BY <1>i, <2>1, <2>2 DEF AtStep
<1>25. CASE ScaleNode
  <2>1. rpcCM' = rpcCM /\ overlay' = overlay /\ prov' = prov /\ SameUnder /\ rpcCmd.pc \in {"stopcluster", "startcluster"} /\ rpcGood' \subseteq rpcGood
    BY <1>25, <1>s DEF ScaleNode, SameUnder
  <2>2. PICK p \in {"stopcluster", "startcluster"}, q \in {"sync", "register"} : rpcCmd.pc = p /\ RPCGoto(q)
    BY <1>25, <2>1 DEF ScaleNode
  <2>3. AtStep(p) /\ p \in RPCSteps /\ q \in RPCSteps
    BY <1>p, <2>2, StepNames
  <2>4. AtStep(q)' /\ rpcCmd'.up = rpcCmd.up
    BY <2>2, <2>3, Goes
  <2> QED BY <1>g, <2>1, <2>2, <2>3, <2>4 DEF AtStep
<1>26. CASE DeregisterDeleted
  <2>1. rpcCM' = rpcCM /\ overlay' = overlay /\ prov' = prov /\ SameUnder /\ rpcCmd.pc = "delete" /\ rpcGood' \subseteq rpcGood
    BY <1>26, <1>s DEF DeregisterDeleted, SameUnder
  <2>2. AtStep("delete") /\ "delete" \in RPCSteps
    BY <1>p, <2>1, StepNames
  <2>3. \/ \E changes, q : q \in {"delns", "deldir"} /\ Upsert(changes, q)
        \/ \E q \in {"delns", "deldir"} : RPCGoto(q)
    BY <1>26 DEF DeregisterDeleted
  <2>4. CASE \E changes, q : q \in {"delns", "deldir"} /\ Upsert(changes, q)
    <3>1. PICK changes, q : q \in {"delns", "deldir"} /\ Upsert(changes, q)
      BY <2>4
    <3>2. q \in RPCSteps
      BY <3>1, StepNames
    <3>3. Stage' = q /\ rpcCmd'.up = rpcCmd.up
      BY <2>1, <2>2, <3>1, <3>2, Writes DEF Upsert
    <3> QED BY <1>g, <2>1, <2>2, <3>1, <3>3 DEF AtStep
  <2>5. CASE \E q \in {"delns", "deldir"} : RPCGoto(q)
    <3>1. PICK q \in {"delns", "deldir"} : RPCGoto(q)
      BY <2>5
    <3>2. q \in RPCSteps
      BY <3>1, StepNames
    <3>3. AtStep(q)' /\ rpcCmd'.up = rpcCmd.up
      BY <2>1, <2>2, <3>1, <3>2, Goes
    <3> QED BY <1>g, <2>1, <2>2, <3>1, <3>3 DEF AtStep
  <2> QED BY <2>3, <2>4, <2>5
<1>27. CASE DeleteNamespace
  <2>1. rpcCM' = rpcCM /\ overlay' = overlay /\ prov' = prov /\ SameUnder /\ rpcCmd.pc \in {"delns"} /\ rpcGood' \subseteq rpcGood
    BY <1>27, <1>s DEF DeleteNamespace, SameUnder
  <2>2. PICK p \in {"delns"}, q \in {"deldir"} : rpcCmd.pc = p /\ RPCGoto(q)
    BY <1>27, <2>1 DEF DeleteNamespace
  <2>3. AtStep(p) /\ p \in RPCSteps /\ q \in RPCSteps
    BY <1>p, <2>2, StepNames
  <2>4. AtStep(q)' /\ rpcCmd'.up = rpcCmd.up
    BY <2>2, <2>3, Goes
  <2> QED BY <1>g, <2>1, <2>2, <2>3, <2>4 DEF AtStep
<1>28. CASE DeleteDeployment
  <2>1. rpcCM' = rpcCM /\ overlay' = overlay /\ prov' = prov /\ SameUnder /\ rpcCmd' = RPCIdle /\ rpcCmd.pc = "deldir" /\ rpcGood' \subseteq rpcGood \cup {"node"}
    BY <1>28, <1>s DEF DeleteDeployment, SameUnder, RPCEnds
  <2>2. AtStep("deldir")
    BY <1>p, <2>1, StepNames
  <2> QED BY <1>i, <2>1, <2>2 DEF AtStep
<1>29. CASE HelmSync
  <2>1. rpcCmd \in [pc : RPCSteps, arg : {NoDoc}, up : BOOLEAN, clean : BOOLEAN]
    BY <1>29, RPCShape, SameArgument, StepNames DEF HelmSync
  <2>2. rpcCmd' = [rpcCmd EXCEPT !.pc = "upnode", !.up = TRUE] /\ rpcGood' = {} /\ rpcCM' = under'
    BY <1>29 DEF HelmSync
  <2>3. rpcCmd'.pc = "upnode"
    BY <2>1, <2>2
  <2>4. Stage' = "upnode" /\ ~Patching'
    BY <2>3 DEF Stage, Writing, Patching
  <2> QED BY <2>2, <2>4 DEF OverlayKept
<1>30. CASE ResumeInstalled
  <2>1. rpcCM' = rpcCM /\ overlay' = overlay /\ prov' = prov /\ SameUnder /\ rpcCmd.pc \in {"upnode"} /\ rpcGood' \subseteq rpcGood
    BY <1>30, <1>s DEF ResumeInstalled, SameUnder
  <2>2. PICK p \in {"upnode"}, q \in {"register", "sync", "uplist"} : rpcCmd.pc = p /\ RPCGoto(q)
    BY <1>30, <2>1 DEF ResumeInstalled, Resumed
  <2>3. AtStep(p) /\ p \in RPCSteps /\ q \in RPCSteps
    BY <1>p, <2>2, StepNames
  <2>4. AtStep(q)' /\ rpcCmd'.up = rpcCmd.up
    BY <2>2, <2>3, Goes
  <2> QED BY <1>g, <2>1, <2>2, <2>3, <2>4 DEF AtStep
<1>31. CASE ReplayListed
  <2>1. rpcCM' = rpcCM /\ overlay' = overlay /\ prov' = prov /\ SameUnder /\ rpcCmd.pc = "uplist" /\ rpcGood' \subseteq rpcGood
    BY <1>31, <1>s DEF ReplayListed, SameUnder
  <2>2. AtStep("uplist") /\ "uplist" \in RPCSteps
    BY <1>p, <2>1, StepNames
  <2>3. \/ \E changes, q : q \in {"upcustom"} /\ Upsert(changes, q)
        \/ \E q \in {"upcustom"} : RPCGoto(q)
    BY <1>31 DEF ReplayListed
  <2>4. CASE \E changes, q : q \in {"upcustom"} /\ Upsert(changes, q)
    <3>1. PICK changes, q : q \in {"upcustom"} /\ Upsert(changes, q)
      BY <2>4
    <3>2. q \in RPCSteps
      BY <3>1, StepNames
    <3>3. Stage' = q /\ rpcCmd'.up = rpcCmd.up
      BY <2>1, <2>2, <3>1, <3>2, Writes DEF Upsert
    <3> QED BY <1>g, <2>1, <2>2, <3>1, <3>3 DEF AtStep
  <2>5. CASE \E q \in {"upcustom"} : RPCGoto(q)
    <3>1. PICK q \in {"upcustom"} : RPCGoto(q)
      BY <2>5
    <3>2. q \in RPCSteps
      BY <3>1, StepNames
    <3>3. AtStep(q)' /\ rpcCmd'.up = rpcCmd.up
      BY <2>1, <2>2, <3>1, <3>2, Goes
    <3> QED BY <1>g, <2>1, <2>2, <3>1, <3>3 DEF AtStep
  <2> QED BY <2>3, <2>4, <2>5
<1>32. CASE ReplayCustom
  <2>1. rpcCM' = rpcCM /\ overlay' = overlay /\ prov' = prov /\ SameUnder /\ rpcCmd.pc = "upcustom" /\ rpcGood' \subseteq rpcGood
    BY <1>32, <1>s DEF ReplayCustom, SameUnder
  <2>2. AtStep("upcustom") /\ "upcustom" \in RPCSteps
    BY <1>p, <2>1, StepNames
  <2>3. \/ \E changes, q : q \in {"upoverlay"} /\ Upsert(changes, q)
        \/ \E q \in {"upoverlay"} : RPCGoto(q)
    BY <1>32 DEF ReplayCustom
  <2>4. CASE \E changes, q : q \in {"upoverlay"} /\ Upsert(changes, q)
    <3>1. PICK changes, q : q \in {"upoverlay"} /\ Upsert(changes, q)
      BY <2>4
    <3>2. q \in RPCSteps
      BY <3>1, StepNames
    <3>3. Stage' = q /\ rpcCmd'.up = rpcCmd.up
      BY <2>1, <2>2, <3>1, <3>2, Writes DEF Upsert
    <3> QED BY <1>g, <2>1, <2>2, <3>1, <3>3 DEF AtStep
  <2>5. CASE \E q \in {"upoverlay"} : RPCGoto(q)
    <3>1. PICK q \in {"upoverlay"} : RPCGoto(q)
      BY <2>5
    <3>2. q \in RPCSteps
      BY <3>1, StepNames
    <3>3. AtStep(q)' /\ rpcCmd'.up = rpcCmd.up
      BY <2>1, <2>2, <3>1, <3>2, Goes
    <3> QED BY <1>g, <2>1, <2>2, <3>1, <3>3 DEF AtStep
  <2> QED BY <2>3, <2>4, <2>5
<1>33. CASE ReplayOverlay
  <2>1. CASE overlay # NoDoc
    <3> DEFINE c == MergeOverlay(StripKeys(rpcCM, Retired(prov, overlay), prov), overlay)
    <3>2. /\ Write(c, NoChange, "upprune") /\ prov' = Capture(prov, StripKeys(rpcCM, Retired(prov, overlay), prov), overlay)
          /\ UNCHANGED <<rpcCM, overlay, under, excused, rpcGood>> /\ rpcCmd.pc = "upoverlay"
      BY <1>33, <2>1 DEF ReplayOverlay, ApplyOverlay
    <3>3. AtStep("upoverlay") /\ "upoverlay" \in RPCSteps /\ "upprune" \in RPCSteps
      BY <1>p, <3>2, StepNames
    <3>4. overlay # NoDoc /\ overlay \in SUBSET Overlaid /\ KeysOf(overlay) = overlay
      BY <1>t, <2>1, <3>3 DEF RPCCommandFits, AtStep, KeysOf
    <3>5. Overlays(c, overlay)
      BY <3>4, AppliedOverlays
    <3>6. StripKeys(rpcCM, Retired(prov, overlay), prov) \in RPCConfigs
      BY <1>t, ConfigsKept DEF OriginMaps
    <3>7. overlay \subseteq Tracked(prov')
      <4>1. PICK b \in RPCConfigs : prov' = Capture(prov, b, overlay)
        BY <3>2, <3>6
      <4>2. Tracked(Capture(prov, b, overlay)) = Tracked(prov) \cup overlay
        BY <1>t, <3>4, OriginsTracked
      <4> QED BY <4>1, <4>2
    <3> HIDE DEF c
    <3>8. Writing' /\ Patching' /\ Stage' = "upprune" /\ rpcCmd'.conf = c /\ rpcCmd'.up = rpcCmd.up
      BY <3>2, <3>3, Writes
    <3>9. Overlays(rpcCmd.conf, overlay)' /\ KeysOf(overlay)' \subseteq Tracked(prov)'
      BY <3>2, <3>4, <3>5, <3>7, <3>8 DEF Overlays, KeysOf
    <3>10. rpcCmd.up /\ "overlay" \notin rpcGood
      BY <3>3, StepsApart DEF RPCCommandFits, AtStep, ReplaySteps
    <3>11. rpcCM = under
      BY <3>3, <3>10 DEF OverlayKept, AtStep
    <3> QED BY <3>2, <3>8, <3>9, <3>10, <3>11 DEF OverlayKept
  <2>2. CASE overlay = NoDoc
    <3>1. rpcCM' = rpcCM /\ overlay' = overlay /\ prov' = prov /\ SameUnder /\ rpcGood' = rpcGood /\ RPCGoto("updone") /\ rpcCmd.pc = "upoverlay"
      BY <1>33, <2>2 DEF ReplayOverlay, SameUnder
    <3>2. AtStep("upoverlay") /\ "upoverlay" \in RPCSteps /\ "updone" \in RPCSteps
      BY <1>p, <3>1, StepNames
    <3>3. AtStep("updone")' /\ rpcCmd'.up = rpcCmd.up
      BY <3>1, <3>2, Goes
    <3>4. rpcCmd.up /\ "overlay" \notin rpcGood
      BY <3>2, StepsApart DEF RPCCommandFits, AtStep, ReplaySteps
    <3>5. rpcCM = under
      BY <3>2, <3>4 DEF OverlayKept, AtStep
    <3>6. Overlays(rpcCM, overlay)
      BY <1>n, <2>2, <3>5 DEF Overlays
    <3> QED BY <1>n, <1>q, <2>2, <3>1, <3>3, <3>4, <3>6 DEF OverlayKept, AtStep
  <2> QED BY <2>1, <2>2
<1>34. CASE PruneReplayed
  <2>1. /\ prov' = Prune(prov, overlay) /\ rpcCM' = rpcCM /\ overlay' = overlay /\ SameUnder
        /\ rpcCmd.pc = "upprune"
    BY <1>34 DEF PruneReplayed, SameUnder
  <2>2. AtStep("upprune") /\ "upprune" \in RPCSteps
    BY <1>p, <2>1, StepNames
  <2>3. overlay # NoDoc /\ Overlays(rpcCM, overlay) /\ KeysOf(overlay) \subseteq Tracked(prov)
    BY <2>2 DEF RPCCommandFits, OverlayKept, AtStep
  <2>4. KeysOf(overlay) = overlay /\ overlay \in SUBSET Overlaid
    BY <1>t, <2>3 DEF KeysOf
  <2>5. Tracked(prov') = Tracked(prov) \cap overlay
    BY <1>t, <2>1, <2>4, OriginsTracked
  <2>6. Overlays(rpcCM, overlay)' /\ KeysOf(overlay)' \subseteq Tracked(prov)'
    BY <1>q, <2>1, <2>3, <2>4, <2>5
  <2>7. "updone" \in RPCSteps /\ RPCGoto("updone")
    BY <1>34, StepNames DEF PruneReplayed
  <2>8. AtStep("updone")'
    BY <2>1, <2>2, <2>7, Goes
  <2> QED BY <2>6, <2>8 DEF OverlayKept, AtStep
<1>35. CASE StackUpDone
  <2>1. rpcCM' = rpcCM /\ overlay' = overlay /\ prov' = prov /\ SameUnder /\ rpcCmd' = RPCIdle /\ rpcCmd.pc = "updone"
        /\ rpcGood' = rpcGood \cup (IF rpcCmd.clean THEN {"overlay", "node"} ELSE {})
    BY <1>35 DEF StackUpDone, SameUnder, RPCEnds
  <2>2. AtStep("updone")
    BY <1>p, <2>1, StepNames
  <2>3. Stage' = "idle" /\ ~Patching'
    BY <2>1, Ends
  <2>4. "overlay" \in rpcGood' => Overlays(rpcCM, overlay) /\ KeysOf(overlay) \subseteq Tracked(prov)
    BY <2>1, <2>2 DEF OverlayKept, AtStep
  <2> QED BY <1>q, <1>f, <2>1, <2>3, <2>4 DEF OverlayKept
<1>36. CASE ClusterStops
  <2>1. rpcCM' = rpcCM /\ overlay' = overlay /\ prov' = prov /\ SameUnder /\ rpcGood' = rpcGood /\ rpcCmd' = rpcCmd
    BY <1>36, <1>s DEF ClusterStops, SameUnder
  <2>2. UNCHANGED <<Stage, Patching>>
    BY <2>1 DEF Stage, Writing, Patching
  <2> QED BY <1>q, <1>f, <2>1, <2>2 DEF OverlayKept
<1>37. CASE RPCPodsRestart
  <2>1. rpcCM' = rpcCM /\ overlay' = overlay /\ prov' = prov /\ SameUnder /\ rpcGood' = rpcGood /\ rpcCmd' = rpcCmd
    BY <1>37, <1>s DEF RPCPodsRestart, SameUnder
  <2>2. UNCHANGED <<Stage, Patching>>
    BY <2>1 DEF Stage, Writing, Patching
  <2> QED BY <1>q, <1>f, <2>1, <2>2 DEF OverlayKept
<1> QED
  BY <1>0, <1>1, <1>2, <1>3, <1>4, <1>5, <1>6, <1>7, <1>8, <1>9, <1>10, <1>11, <1>12, <1>13,
     <1>14, <1>15, <1>16, <1>17, <1>18, <1>19, <1>20, <1>21, <1>22, <1>23, <1>24, <1>25, <1>26,
     <1>27, <1>28, <1>29, <1>30, <1>31, <1>32, <1>33, <1>34, <1>35, <1>36, <1>37 DEF RPCNext

-----------------------------------------------------------------------------
(* The RPC routes: the invariant *)

LEMMA RPCInitial == RPCInit => RPCIInv
<1> SUFFICES ASSUME RPCInit PROVE RPCIInv
  OBVIOUS
<1> USE DEF RPCInit
<1>1. rpcCmd.pc = "idle" /\ Stage = "idle" /\ ~Writing /\ ~Patching
  BY DEF Stage, Writing, Patching, RPCIdle
<1>2. Untracked \in OriginMaps /\ Tracked(Untracked) = {} /\ ChartRPC \in RPCConfigs
  BY OriginsTyped, OriginsTracked, ConfigsKept
<1>3. RPCTypeOK
  <2>1. 0 \in 0 .. MaxRPCFaults /\ 0 \in 0 .. MaxRPCCmds
    BY RPCMarks
  <2>2. RPCCommand(rpcCmd)
    BY DEF RPCCommand
  <2> QED BY <1>2, <2>1, <2>2 DEF RPCTypeOK, OriginMaps
<1>4. RPCCommandFits /\ PodsKept
  BY <1>1 DEF RPCCommandFits, PodsKept, UpsertSteps, OverlaySteps, ReplaySteps, SetSteps
<1>5. NodeKept
  BY <1>1 DEF NodeKept, ReplaySteps, On
<1>6. OriginsKept /\ OverlayKept
  BY <1>1, <1>2 DEF OriginsKept, OverlayKept
<1> QED BY <1>3, <1>4, <1>5, <1>6 DEF RPCIInv

LEMMA RPCImplied == RPCIInv => RPCInv
<1> SUFFICES ASSUME RPCIInv PROVE RPCInv
  OBVIOUS
<1> USE DEF RPCIInv
<1>1. rpcCmd = RPCIdle => Stage = "idle" /\ ~Writing /\ ~Patching
  BY StepsApart
<1>2. OverlayOwnsOnlyItsOwn
  BY <1>1 DEF OverlayOwnsOnlyItsOwn, OverlayKept, Overlays
<1>3. NodeFollowsItsRecord
  <2>1. nodeFile \in {"none", "on", "stopped"} /\ nodeRelease \in BOOLEAN
    BY DEF RPCTypeOK
  <2> QED BY <1>1, <2>1 DEF NodeFollowsItsRecord, NodeKept, On
<1>4. PodsServeConfig
  BY DEF PodsServeConfig, PodsKept
<1> QED BY <1>2, <1>3, <1>4 DEF RPCInv

\* What is checked of eRPC: after set, reset or a clean stack up it has the
\* overlay's entries and what is configured without one everywhere else, the
\* local upstream and the node follow the record, and the pods run what was
\* last written, for every set of documents and any number of commands and
\* failures (overlay.go, rpc.go, network.go).
THEOREM RPCHolds == RPCSpec => []RPCInv
<1>1. RPCInit => RPCIInv
  BY RPCInitial
<1>2. RPCIInv /\ [RPCNext]_rpcVars => RPCIInv'
  <2> SUFFICES ASSUME RPCIInv, [RPCNext]_rpcVars PROVE RPCIInv'
    OBVIOUS
  <2>1. RPCTypeOK /\ RPCCommandFits /\ PodsKept /\ NodeKept /\ OriginsKept /\ OverlayKept
    BY DEF RPCIInv
  <2>2. RPCTypeOK'
    BY <2>1, RPCTypeStep
  <2>3. RPCCommandFits'
    BY <2>1, RPCFitsStep
  <2>4. PodsKept'
    BY <2>1, PodsStep
  <2>5. NodeKept'
    BY <2>1, <2>2, NodeStep
  <2>6. OriginsKept' /\ OverlayKept'
    BY <2>1, OriginsStep, OverlayStep
  <2> QED BY <2>2, <2>3, <2>4, <2>5, <2>6 DEF RPCIInv
<1>3. RPCIInv => RPCInv
  BY RPCImplied
<1> QED BY <1>1, <1>2, <1>3, PTL DEF RPCSpec
-----------------------------------------------------------------------------
(* The public tunnel: the inductive invariant *)

\* A list of hostnames names each once, and has one.
HostLists == {s \in Seq(Hosts) : s # <<>> /\ \A i, j \in DOMAIN s : s[i] = s[j] => i = j}

\* The commands, each at the steps it takes, with what was asked.
WaitSteps == {"wait", "agent", "configmap", "storefront"}
RestoreSteps == {"restore", "secret", "helm"}
SetupCommands ==
    [pc : {"token", "secret", "helm", "state", "agent", "configmap", "storefront"}, name : {"setup"},
     host : Hosts, tun : Tokens]
RestartCommands == [pc : RestoreSteps \cup {"rollout"} \cup WaitSteps, name : {"restart"}]
DeleteCommands == [pc : {"unstate", "helm", "end"}, name : {"delete"}]
AddCommands == [pc : {"add", "added"}, name : {"add"}, host : Hosts]
RemoveCommands == [pc : {"removed"}, name : {"remove"}, host : Hosts]
TunnelSales == [pc : WaitSteps \cup {"bind", "refresh"}, name : {"sell"}, host : Hosts \cup {0}, reg : BOOLEAN]
TunnelUps == [pc : {"version", "replay"} \cup RestoreSteps \cup WaitSteps, name : {"up"}, was : Nat]
TunnelCommands ==
    SetupCommands \cup RestartCommands \cup DeleteCommands \cup AddCommands \cup RemoveCommands
        \cup TunnelSales \cup TunnelUps

Kinds == {"none", "quick", "remote", "local"}
TunnelFits ==
    /\ tnl \in {NoTunnel} \cup [hosts : HostLists, kind : {"remote", "local"}, tun : Tokens \cup {0}]
    /\ tokFile \in Tokens \cup {0} /\ token \in Tokens \cup {0}
    /\ pod \in {NoTunnel} \cup Connectors
    /\ chart \in Kinds /\ mgmt \in Kinds
    /\ claimed \subseteq Hosts /\ ledgerHosts \subseteq Hosts
    /\ urls \in Nat /\ gaps \subseteq {"cut", "replayed", "url"}
    /\ ncmd \in {NIdle} \cup TunnelCommands

\* A pod that runs a quick tunnel has a URL, which is no one's hostname.
PodFits == pod # NoTunnel => /\ pod.url \notin Hosts
                             /\ pod.kind = "quick" => pod.url # 0

At(name) == ncmd # NIdle /\ ncmd.name = name

\* The steps at which the tunnel is persistent or is not, and what a command
\* counts on meanwhile.
StateKept ==
    /\ At("setup") /\ ncmd.pc \in {"agent", "configmap", "storefront"} => IsPersistent
    /\ At("restart") /\ ncmd.pc \in RestoreSteps => IsPersistent
    /\ At("up") /\ ncmd.pc \in RestoreSteps \cup WaitSteps => IsPersistent
    /\ At("delete") => (ncmd.pc = "unstate" <=> IsPersistent)
    /\ At("add") \/ At("remove") => IsPersistent
    /\ At("remove") => ncmd.host \in HostnameSet /\ HostnameSet \ {ncmd.host} # {}
    /\ ncmd.pc = "refresh" => ncmd.host # 0

\* The storefront is on tracked hosts only, but where a command is about to
\* list or to render it again.
FrontTracked ==
    /\ ~IsPersistent => front \cap Hosts = {}
    /\ ncmd.pc = "unstate" => front = {}
    /\ "cut" \notin gaps =>
         \/ At("setup") /\ ncmd.pc \in {"agent", "configmap", "storefront"}
         \/ ncmd.pc = "added" /\ front \cap Hosts \subseteq HostnameSet \cup {ncmd.host}
         \/ front \cap Hosts \subseteq HostnameSet \ (IF ncmd.pc = "removed" THEN {ncmd.host} ELSE {})

\* ... and on none that an offer claims, but where the command that bound the
\* offer has not rendered it yet.
FrontYields ==
    gaps \cap {"cut", "replayed"} = {} /\ ncmd.pc \notin {"add", "refresh"} => front \cap claimed = {}

\* The frontend has the URL of a quick tunnel's pod, but while a command waits
\* for the pod, tells its URL or renders the chart.
URLKept ==
    "url" \notin gaps =>
        /\ (/\ ~IsPersistent /\ pod # NoTunnel /\ pod.kind = "quick"
            /\ ncmd.pc \notin {"rollout", "wait", "agent", "configmap", "helm"})
             => cmURL = pod.url
        /\ At("up") /\ ncmd.was # 0 =>
             /\ ~IsPersistent /\ pod # NoTunnel /\ pod.kind = "quick"
             /\ pod.url = ncmd.was /\ cmURL = ncmd.was

TunnelIInv == TunnelFits /\ PodFits /\ StateKept /\ FrontTracked /\ FrontYields /\ URLKept

-----------------------------------------------------------------------------
(* The public tunnel: lemmas about lists of hostnames, pods and commands *)

USE DEF clusterTnlVars, publishVars, offerHostVars, fileVars, nCountVars

LEMMA HostListed ==
    ASSUME NEW s \in HostLists
    PROVE  /\ s \in Seq(Hosts) /\ Len(s) \in Nat \ {0} /\ DOMAIN s = 1 .. Len(s)
           /\ ToSet(s) # {} /\ ToSet(s) \subseteq Hosts /\ s[1] \in ToSet(s)
  BY DEF HostLists, ToSet

\* A list of one, one with a host more, and one with a host less.
LEMMA OneHost ==
    ASSUME NEW h \in Hosts
    PROVE  <<h>> \in HostLists /\ ToSet(<<h>>) = {h}
  BY DEF HostLists, ToSet

LEMMA OneHostMore ==
    ASSUME NEW s \in HostLists, NEW h \in Hosts \ ToSet(s)
    PROVE  Append(s, h) \in HostLists /\ ToSet(Append(s, h)) = ToSet(s) \cup {h}
<1>1. /\ s \in Seq(Hosts) /\ Len(s) \in Nat /\ Append(s, h) \in Seq(Hosts)
      /\ Len(Append(s, h)) = Len(s) + 1 /\ DOMAIN Append(s, h) = 1 .. Len(s) + 1
      /\ \A i \in 1 .. Len(s) : Append(s, h)[i] = s[i] /\ s[i] # h
      /\ Append(s, h)[Len(s) + 1] = h /\ Append(s, h) # <<>>
  <2>1. s \in Seq(Hosts) /\ Len(s) \in Nat /\ \A i \in 1 .. Len(s) : s[i] # h
    BY HostListed DEF ToSet
  <2> QED BY <2>1, AppendProperties, LenProperties
<1>2. ToSet(Append(s, h)) = ToSet(s) \cup {h}
  BY <1>1 DEF ToSet
<1>3. \A i, j \in 1 .. Len(s) : s[i] = s[j] => i = j
  BY DEF HostLists
<1>4. \A i \in 1 .. Len(s) + 1 : i \in 1 .. Len(s) \/ i = Len(s) + 1
  BY <1>1
<1>5. \A i, j \in DOMAIN Append(s, h) : Append(s, h)[i] = Append(s, h)[j] => i = j
  BY <1>1, <1>3, <1>4
<1> QED BY <1>1, <1>2, <1>5 DEF HostLists

LEMMA OneHostLess ==
    ASSUME NEW s \in HostLists, NEW h \in ToSet(s), ToSet(s) \ {h} # {}
    PROVE  WithoutHost(s, h) \in HostLists /\ ToSet(WithoutHost(s, h)) = ToSet(s) \ {h}
<1> DEFINE at == CHOOSE i \in DOMAIN s : s[i] = h
           front_ == SubSeq(s, 1, at - 1)
           rest == SubSeq(s, at + 1, Len(s))
           w == front_ \o rest
<1>1. s \in Seq(Hosts) /\ Len(s) \in Nat /\ DOMAIN s = 1 .. Len(s)
  BY HostListed
<1>2. at \in 1 .. Len(s) /\ s[at] = h
  BY <1>1 DEF ToSet
<1>3. \A i, j \in 1 .. Len(s) : s[i] = s[j] => i = j
  BY DEF HostLists
<1>w. WithoutHost(s, h) = w
  BY DEF WithoutHost, RemoveAt
<1> HIDE DEF at
<1>4. /\ front_ \in Seq(Hosts) /\ Len(front_) = at - 1
      /\ \A i \in 1 .. at - 1 : front_[i] = s[i]
  <2>1. \A i \in 1 .. at - 1 : s[i] \in Hosts
    BY <1>1, <1>2
  <2> QED BY <1>1, <1>2, <2>1, SubSeqProperties
<1>5. /\ rest \in Seq(Hosts) /\ Len(rest) = Len(s) - at
      /\ \A i \in 1 .. Len(s) - at : rest[i] = s[at + i]
  <2>1. at \in Nat /\ Len(s) \in Nat /\ at >= 1 /\ at <= Len(s) /\ \A i \in 1 .. Len(s) : s[i] \in Hosts
    BY <1>1, <1>2
  <2>2. \A i \in at + 1 .. Len(s) : s[i] \in Hosts
    BY <2>1
  <2>3. /\ rest \in Seq(Hosts) /\ Len(rest) = IF at + 1 <= Len(s) THEN Len(s) - (at + 1) + 1 ELSE 0
        /\ \A i \in 1 .. Len(s) - (at + 1) + 1 : rest[i] = s[at + 1 + i - 1]
    BY <2>1, <2>2, SubSeqProperties
  <2> HIDE DEF rest
  <2>4. Len(rest) = Len(s) - at
    BY <2>1, <2>3
  <2>5. ASSUME NEW i \in 1 .. Len(s) - at  PROVE rest[i] = s[at + i]
    <3>1. i \in 1 .. Len(s) - (at + 1) + 1 /\ at + 1 + i - 1 = at + i
      BY <2>1
    <3> QED BY <2>3, <3>1
  <2> QED BY <2>3, <2>4, <2>5
<1> HIDE DEF front_, rest
<1>6. /\ w \in Seq(Hosts) /\ Len(w) = Len(s) - 1 /\ DOMAIN w = 1 .. Len(s) - 1
      /\ \A i \in 1 .. Len(s) - 1 : w[i] = IF i <= at - 1 THEN front_[i] ELSE rest[i - (at - 1)]
  <2>1. /\ w \in Seq(Hosts) /\ Len(w) = Len(front_) + Len(rest)
        /\ \A i \in 1 .. Len(front_) + Len(rest) : w[i] = IF i <= Len(front_) THEN front_[i] ELSE rest[i - Len(front_)]
    BY <1>4, <1>5, ConcatProperties
  <2>2. Len(front_) + Len(rest) = Len(s) - 1
    BY <1>1, <1>2, <1>4, <1>5
  <2> QED BY <1>4, <2>1, <2>2, LenProperties
<1>7. \A i \in 1 .. Len(s) - 1 : w[i] = IF i < at THEN s[i] ELSE s[i + 1]
  <2> TAKE i \in 1 .. Len(s) - 1
  <2>1. CASE i < at
    <3>1. i \in 1 .. at - 1 /\ i <= at - 1
      BY <1>1, <1>2, <2>1
    <3> QED BY <1>4, <1>6, <2>1, <3>1
  <2>2. CASE ~(i < at)
    <3>1. i - (at - 1) \in 1 .. Len(s) - at /\ ~(i <= at - 1) /\ at + (i - (at - 1)) = i + 1
      BY <1>1, <1>2, <2>2
    <3> QED BY <1>5, <1>6, <2>2, <3>1
  <2> QED BY <2>1, <2>2
<1> HIDE DEF w
<1>8. ToSet(w) = ToSet(s) \ {h}
  <2>1. ASSUME NEW i \in 1 .. Len(s) - 1  PROVE w[i] \in ToSet(s) \ {h}
    <3>1. PICK j \in 1 .. Len(s) : j # at /\ w[i] = s[j]
      BY <1>1, <1>2, <1>7
    <3>2. s[j] # h
      BY <1>2, <1>3, <3>1
    <3> QED BY <3>1, <3>2 DEF ToSet
  <2>2. ASSUME NEW i \in 1 .. Len(s), s[i] # h  PROVE \E j \in 1 .. Len(s) - 1 : w[j] = s[i]
    <3>1. CASE i < at
      BY <1>1, <1>2, <1>7, <3>1
    <3>2. CASE i > at
      <4>1. i - 1 \in 1 .. Len(s) - 1 /\ ~(i - 1 < at) /\ (i - 1) + 1 = i
        BY <1>1, <1>2, <3>2
      <4>2. w[i - 1] = s[(i - 1) + 1]
        BY <1>7, <4>1
      <4> QED BY <4>1, <4>2
    <3> QED BY <1>1, <1>2, <2>2, <3>1, <3>2
  <2>3. ToSet(w) = {w[i] : i \in 1 .. Len(s) - 1}
    BY <1>6 DEF ToSet
  <2>4. ToSet(s) = {s[i] : i \in 1 .. Len(s)}
    BY <1>1 DEF ToSet
  <2>5. \A x \in ToSet(s) \ {h} : \E j \in 1 .. Len(s) - 1 : w[j] = x
    BY <2>2, <2>4
  <2> QED BY <2>1, <2>3, <2>5
<1>9. \A i, j \in 1 .. Len(s) - 1 : w[i] = w[j] => i = j
  BY <1>1, <1>2, <1>3, <1>7
<1>10. w # <<>>
  BY <1>8 DEF ToSet
<1> QED BY <1>w, <1>6, <1>8, <1>9, <1>10 DEF HostLists

LEMMA TunnelHosts ==
    0 \notin Hosts /\ (\A n \in Nat \ {0} : 10 + n \notin Hosts) /\ 0 \notin Tokens
  BY TunnelAssumption

\* What is tracked is a hostname, and the URL of a quick tunnel is not.
LEMMA TunnelTracks ==
    ASSUME TunnelFits, PodFits
    PROVE  /\ HostnameSet \subseteq Hosts /\ (IsPersistent <=> HostnameSet # {})
           /\ IsPersistent => /\ tnl.hosts \in HostLists /\ tnl.kind \in {"remote", "local"}
                              /\ CurrentURL(pod) # 0 /\ Primary(tnl) \in HostnameSet
           /\ ~IsPersistent /\ CurrentURL(pod) # 0 =>
                pod # NoTunnel /\ pod.kind = "quick" /\ CurrentURL(pod) = pod.url /\ pod.url \notin Hosts
           /\ ~IsPersistent /\ pod # NoTunnel /\ pod.kind = "quick" => CurrentURL(pod) = pod.url /\ pod.url # 0
           /\ CurrentURL(pod) \in Nat
<1>1. CASE IsPersistent
  <2>1. tnl.hosts \in HostLists /\ tnl.kind \in {"remote", "local"}
    BY <1>1 DEF TunnelFits, IsPersistent
  <2>2. HostnameSet = ToSet(tnl.hosts) /\ CurrentURL(pod) = tnl.hosts[1] /\ Primary(tnl) = tnl.hosts[1]
    BY <1>1 DEF HostnameSet, CurrentURL, Primary
  <2>3. /\ ToSet(tnl.hosts) # {} /\ ToSet(tnl.hosts) \subseteq Hosts /\ tnl.hosts[1] \in ToSet(tnl.hosts)
        /\ Hosts \subseteq Nat \ {0}
    BY <2>1, HostListed, TunnelAssumption
  <2>4. tnl.hosts[1] \in Nat \ {0}
    BY <2>3
  <2> QED BY <1>1, <2>1, <2>2, <2>3, <2>4
<1>2. CASE ~IsPersistent
  BY <1>2 DEF TunnelFits, PodFits, HostnameSet, CurrentURL, Connectors
<1> QED BY <1>1, <1>2

\* The commands are told apart by their names, and none is the idle one.
LEMMA TunnelNames ==
    ASSUME ncmd \in {NIdle} \cup TunnelCommands
    PROVE  /\ ncmd = NIdle <=> ncmd.pc = "idle"
           /\ ncmd # NIdle => ncmd \in TunnelCommands
           /\ At("setup") => ncmd \in SetupCommands
           /\ At("restart") => ncmd \in RestartCommands
           /\ At("delete") => ncmd \in DeleteCommands
           /\ At("add") => ncmd \in AddCommands
           /\ At("remove") => ncmd \in RemoveCommands
           /\ At("sell") => ncmd \in TunnelSales
           /\ At("up") => ncmd \in TunnelUps
           /\ ncmd # NIdle => ncmd.name \in {"setup", "restart", "delete", "add", "remove", "sell", "up"}
<1>1. /\ \A c \in SetupCommands : c.pc # "idle" /\ c.name = "setup"
      /\ \A c \in RestartCommands : c.pc # "idle" /\ c.name = "restart"
      /\ \A c \in DeleteCommands : c.pc # "idle" /\ c.name = "delete"
      /\ \A c \in AddCommands : c.pc # "idle" /\ c.name = "add"
      /\ \A c \in RemoveCommands : c.pc # "idle" /\ c.name = "remove"
      /\ \A c \in TunnelSales : c.pc # "idle" /\ c.name = "sell"
      /\ \A c \in TunnelUps : c.pc # "idle" /\ c.name = "up"
  BY DEF SetupCommands, RestartCommands, DeleteCommands, AddCommands, RemoveCommands, TunnelSales, TunnelUps,
         RestoreSteps, WaitSteps
<1>2. NIdle.pc = "idle"
  BY DEF NIdle
<1> QED BY <1>1, <1>2 DEF TunnelCommands, At

\* The steps of each command.
LEMMA TunnelSteps ==
    ASSUME ncmd \in {NIdle} \cup TunnelCommands
    PROVE  /\ At("setup") => ncmd.pc \in {"token", "secret", "helm", "state", "agent", "configmap", "storefront"}
                             /\ ncmd.host \in Hosts /\ ncmd.tun \in Tokens
           /\ At("restart") => ncmd.pc \in RestoreSteps \cup {"rollout"} \cup WaitSteps
           /\ At("delete") => ncmd.pc \in {"unstate", "helm", "end"}
           /\ At("add") => ncmd.pc \in {"add", "added"} /\ ncmd.host \in Hosts
           /\ At("remove") => ncmd.pc = "removed" /\ ncmd.host \in Hosts
           /\ At("sell") => ncmd.pc \in WaitSteps \cup {"bind", "refresh"} /\ ncmd.host \in Hosts \cup {0}
                            /\ ncmd.reg \in BOOLEAN
           /\ At("up") => ncmd.pc \in {"version", "replay"} \cup RestoreSteps \cup WaitSteps /\ ncmd.was \in Nat
           /\ ncmd.pc \in {"token", "state"} => At("setup")
           /\ ncmd.pc = "secret" => At("setup") \/ At("restart") \/ At("up")
           /\ ncmd.pc = "helm" => At("setup") \/ At("restart") \/ At("up") \/ At("delete")
           /\ ncmd.pc \in {"agent", "configmap", "storefront"} =>
                At("setup") \/ At("restart") \/ At("sell") \/ At("up")
           /\ ncmd.pc = "wait" => At("restart") \/ At("sell") \/ At("up")
           /\ ncmd.pc = "restore" => At("restart") \/ At("up")
           /\ ncmd.pc = "rollout" => At("restart")
           /\ ncmd.pc \in {"unstate", "end"} => At("delete")
           /\ ncmd.pc \in {"add", "added"} => At("add")
           /\ ncmd.pc = "removed" => At("remove")
           /\ ncmd.pc \in {"bind", "refresh"} => At("sell")
           /\ ncmd.pc \in {"version", "replay"} => At("up")
<1>1. /\ At("setup") => ncmd.pc \in {"token", "secret", "helm", "state", "agent", "configmap", "storefront"}
                        /\ ncmd.host \in Hosts /\ ncmd.tun \in Tokens
      /\ At("restart") => ncmd.pc \in RestoreSteps \cup {"rollout"} \cup WaitSteps
      /\ At("delete") => ncmd.pc \in {"unstate", "helm", "end"}
      /\ At("add") => ncmd.pc \in {"add", "added"} /\ ncmd.host \in Hosts
      /\ At("remove") => ncmd.pc = "removed" /\ ncmd.host \in Hosts
      /\ At("sell") => ncmd.pc \in WaitSteps \cup {"bind", "refresh"} /\ ncmd.host \in Hosts \cup {0}
                       /\ ncmd.reg \in BOOLEAN
      /\ At("up") => ncmd.pc \in {"version", "replay"} \cup RestoreSteps \cup WaitSteps /\ ncmd.was \in Nat
  BY TunnelNames
     DEF SetupCommands, RestartCommands, DeleteCommands, AddCommands, RemoveCommands, TunnelSales, TunnelUps
<1>2. ncmd.pc # "idle" => \E n \in {"setup", "restart", "delete", "add", "remove", "sell", "up"} : At(n)
  BY TunnelNames DEF At
<1> QED BY <1>1, <1>2 DEF RestoreSteps, WaitSteps

\* A command keeps what it was asked.
SameCommand ==
    /\ ncmd' # NIdle /\ ncmd'.name = ncmd.name
    /\ At("setup") => ncmd'.host = ncmd.host /\ ncmd'.tun = ncmd.tun
    /\ At("add") \/ At("remove") \/ At("sell") => ncmd'.host = ncmd.host
    /\ At("sell") => ncmd'.reg = ncmd.reg
    /\ At("up") => ncmd'.was = ncmd.was

LEMMA TunnelGoes ==
    ASSUME ncmd \in TunnelCommands, NEW p, NGoto(p), p # "idle",
           ncmd.name = "setup" => p \in {"secret", "helm", "state", "agent", "configmap", "storefront"},
           ncmd.name = "restart" => p \in RestoreSteps \cup {"rollout"} \cup WaitSteps,
           ncmd.name = "delete" => p \in {"helm", "end"},
           ncmd.name = "add" => p = "added",
           ncmd.name # "remove",
           ncmd.name = "sell" => p \in WaitSteps \cup {"bind", "refresh"},
           ncmd.name = "up" => p \in {"replay"} \cup RestoreSteps \cup WaitSteps
    PROVE  ncmd' \in TunnelCommands /\ ncmd'.pc = p /\ SameCommand
<1>0. ncmd # NIdle /\ NIdle.pc = "idle"
  <2>1. NIdle.pc = "idle"
    BY DEF NIdle
  <2>2. \A c \in TunnelCommands : c.pc # "idle"
    BY DEF TunnelCommands, SetupCommands, RestartCommands, DeleteCommands, AddCommands, RemoveCommands,
           TunnelSales, TunnelUps, RestoreSteps, WaitSteps
  <2> QED BY <2>1, <2>2
<1>1. ncmd' = [ncmd EXCEPT !.pc = p]
  BY DEF NGoto
<1>2. CASE At("setup")
  <2>1. ncmd \in SetupCommands
    BY <1>2, TunnelNames
  <2>2. ncmd' \in SetupCommands /\ ncmd'.pc = p /\ ncmd'.name = ncmd.name /\ ncmd'.host = ncmd.host /\ ncmd'.tun = ncmd.tun
    BY <1>1, <1>2, <2>1 DEF SetupCommands, At
  <2> QED BY <1>0, <1>2, <2>2 DEF TunnelCommands, SameCommand, At
<1>3. CASE At("restart")
  <2>1. ncmd \in RestartCommands
    BY <1>3, TunnelNames
  <2>2. ncmd' \in RestartCommands /\ ncmd'.pc = p /\ ncmd'.name = ncmd.name
    BY <1>1, <1>3, <2>1 DEF RestartCommands, At
  <2> QED BY <1>0, <1>3, <2>2 DEF TunnelCommands, SameCommand, At
<1>4. CASE At("delete")
  <2>1. ncmd \in DeleteCommands
    BY <1>4, TunnelNames
  <2>2. ncmd' \in DeleteCommands /\ ncmd'.pc = p /\ ncmd'.name = ncmd.name
    BY <1>1, <1>4, <2>1 DEF DeleteCommands, At
  <2> QED BY <1>0, <1>4, <2>2 DEF TunnelCommands, SameCommand, At
<1>5. CASE At("add")
  <2>1. ncmd \in AddCommands
    BY <1>5, TunnelNames
  <2>2. ncmd' \in AddCommands /\ ncmd'.pc = p /\ ncmd'.name = ncmd.name /\ ncmd'.host = ncmd.host
    BY <1>1, <1>5, <2>1 DEF AddCommands, At
  <2> QED BY <1>0, <1>5, <2>2 DEF TunnelCommands, SameCommand, At
<1>6. CASE At("sell")
  <2>1. ncmd \in TunnelSales
    BY <1>6, TunnelNames
  <2>2. ncmd' \in TunnelSales /\ ncmd'.pc = p /\ ncmd'.name = ncmd.name /\ ncmd'.host = ncmd.host /\ ncmd'.reg = ncmd.reg
    BY <1>1, <1>6, <2>1 DEF TunnelSales, At
  <2> QED BY <1>0, <1>6, <2>2 DEF TunnelCommands, SameCommand, At
<1>7. CASE At("up")
  <2>1. ncmd \in TunnelUps
    BY <1>7, TunnelNames
  <2>2. ncmd' \in TunnelUps /\ ncmd'.pc = p /\ ncmd'.name = ncmd.name /\ ncmd'.was = ncmd.was
    BY <1>1, <1>7, <2>1 DEF TunnelUps, At
  <2> QED BY <1>0, <1>7, <2>2 DEF TunnelCommands, SameCommand, At
<1> QED BY <1>0, <1>2, <1>3, <1>4, <1>5, <1>6, <1>7, TunnelNames DEF At


\* How a command begins, goes on and ends.
Begun(name, p) == ncmd = NIdle /\ ncmd' \in TunnelCommands /\ ncmd'.name = name /\ ncmd'.pc = p
OnTo(p) == ncmd # NIdle /\ ncmd' \in TunnelCommands /\ ncmd'.pc = p /\ SameCommand
Over == ncmd' = NIdle

LEMMA TunnelAfter ==
    ASSUME TunnelFits, AfterTunnel, ncmd.pc \in {"wait", "storefront"}
    PROVE  \/ At("sell") /\ ncmd.reg /\ OnTo("bind")
           \/ At("up") /\ OnTo("replay")
           \/ ~At("up") /\ (At("sell") => ~ncmd.reg) /\ Over
<1>0. ncmd # NIdle /\ ncmd \in TunnelCommands
  BY TunnelNames DEF TunnelFits
<1>1. CASE ncmd.name = "sell" /\ ncmd.reg
  <2>1. NGoto("bind")
    BY <1>1 DEF AfterTunnel
  <2> QED BY <1>0, <1>1, <2>1, TunnelGoes DEF At, OnTo
<1>2. CASE ncmd.name = "up"
  <2>1. NGoto("replay")
    BY <1>2 DEF AfterTunnel
  <2> QED BY <1>0, <1>2, <2>1, TunnelGoes DEF At, OnTo
<1>3. CASE ~(ncmd.name = "sell" /\ ncmd.reg) /\ ncmd.name # "up"
  BY <1>3 DEF AfterTunnel, At, Over
<1> QED BY <1>1, <1>2, <1>3

LEMMA TunnelMoves ==
    ASSUME TunnelFits, PodFits
    PROVE  /\ Setup => Begun("setup", "token")
           /\ SaveRemoteTunnelToken => ncmd.pc = "token" /\ OnTo("secret")
           /\ ApplyRemote => ncmd.pc = "secret" /\ OnTo("helm")
           /\ HelmUpgradeCloudflared =>
                ncmd.pc = "helm" /\ (\/ At("setup") /\ OnTo("state")
                                     \/ At("restart") /\ OnTo("rollout")
                                     \/ At("up") /\ OnTo("wait")
                                     \/ At("delete") /\ OnTo("end"))
           /\ SaveTunnelState => ncmd.pc = "state" /\ OnTo("agent")
           /\ WaitReady =>
                ncmd.pc = "wait" /\ (IF CurrentURL(pod') = 0 THEN AfterTunnel ELSE OnTo("agent"))
           /\ InjectBaseURL => ncmd.pc = "agent" /\ OnTo("configmap")
           /\ SyncTunnelConfigMap => ncmd.pc = "configmap" /\ OnTo("storefront")
           /\ SyncStorefront => ncmd.pc = "storefront" /\ AfterTunnel
           /\ Restart => (Begun("restart", "restore") \/ Begun("restart", "rollout"))
           /\ RestorePersistentResources =>
                ncmd.pc = "restore" /\ (\/ OnTo("helm")
                                        \/ OnTo("secret")
                                        \/ At("up") /\ OnTo("replay")
                                        \/ At("restart") /\ Over)
           /\ RolloutRestart => ncmd.pc = "rollout" /\ OnTo("wait")
           /\ Stop => ncmd = NIdle /\ Over
           /\ DeleteTunnel => Begun("delete", "unstate")
           /\ DeleteTunnelState => ncmd.pc = "unstate" /\ OnTo("helm")
           /\ DeleteEnds => ncmd.pc = "end" /\ Over
           /\ AddHostname =>
                \/ Begun("add", "add") /\ IsPersistent
                \/ ncmd = NIdle /\ Over /\ ~IsPersistent
                \/ ncmd = NIdle /\ Over /\ \E h \in Hosts \ HostnameSet : claimed' \subseteq claimed \cup {h}
           /\ AddedStorefront => ncmd.pc = "add" /\ OnTo("added")
           /\ AddedState => ncmd.pc = "added" /\ Over
           /\ RemoveHostname => Begun("remove", "removed")
           /\ RemovedState => ncmd.pc = "removed" /\ Over
           /\ SellHTTP => (Begun("sell", "wait") \/ Begun("sell", "bind"))
           /\ ApplyOffer =>
                ncmd.pc = "bind" /\ (\/ ncmd.host # 0 /\ OnTo("refresh")
                                     \/ ncmd.host = 0 /\ OnTo("wait")
                                     \/ ncmd.host = 0 /\ Over)
           /\ RefreshStorefront => (ncmd.pc = "refresh" /\ (OnTo("wait") \/ Over))
           /\ SellDeleteEndsTunnel => ncmd = NIdle /\ Over
           /\ StackUp => Begun("up", "version")
           /\ SyncStackConfigVersion =>
                ncmd.pc = "version" /\ (IF IsPersistent THEN OnTo("restore") ELSE OnTo("replay"))
           /\ ReplayOffers => ncmd.pc = "replay" /\ Over
           /\ TunnelCrash => ncmd # NIdle /\ Over
<1>0. ncmd \in {NIdle} \cup TunnelCommands /\ NIdle.pc = "idle" /\ (ncmd.pc # "idle" => ncmd # NIdle /\ ncmd \in TunnelCommands)
  BY TunnelNames DEF TunnelFits, NIdle
<1>1. ASSUME Setup  PROVE Begun("setup", "token")
  BY <1>1, TunnelTracks DEF Setup, NBegin, Begun, TunnelCommands, SetupCommands, RestoreSteps, WaitSteps
<1>2. ASSUME SaveRemoteTunnelToken  PROVE ncmd.pc = "token" /\ OnTo("secret")
  <2>1. ncmd.pc = "token" /\ NGoto("secret")
    BY <1>2 DEF SaveRemoteTunnelToken, NGoto
  <2> QED BY <1>0, <2>1, TunnelSteps, TunnelGoes DEF At, OnTo, WaitSteps, RestoreSteps
<1>3. ASSUME ApplyRemote  PROVE ncmd.pc = "secret" /\ OnTo("helm")
  <2>1. ncmd.pc = "secret" /\ NGoto("helm")
    BY <1>3 DEF ApplyRemote, NGoto
  <2> QED BY <1>0, <2>1, TunnelSteps, TunnelGoes DEF At, OnTo, WaitSteps, RestoreSteps
<1>4. ASSUME HelmUpgradeCloudflared  PROVE
        ncmd.pc = "helm" /\ (\/ At("setup") /\ OnTo("state")
                             \/ At("restart") /\ OnTo("rollout")
                             \/ At("up") /\ OnTo("wait")
                             \/ At("delete") /\ OnTo("end"))
  <2>1. ncmd.pc = "helm" /\ NGoto(AfterHelm)
    BY <1>4 DEF HelmUpgradeCloudflared
  <2>2. At("setup") \/ At("restart") \/ At("up") \/ At("delete")
    BY <1>0, <2>1, TunnelSteps
  <2>3. /\ At("setup") => AfterHelm = "state"
        /\ At("restart") => AfterHelm = "rollout"
        /\ At("up") => AfterHelm = "wait"
        /\ At("delete") => AfterHelm = "end"
    BY DEF At, AfterHelm
  <2>4. CASE At("setup")
    <3>1. NGoto("state")
      BY <2>1, <2>3, <2>4
    <3> QED BY <1>0, <2>1, <2>4, <3>1, TunnelGoes DEF At, OnTo
  <2>5. CASE At("restart")
    <3>1. NGoto("rollout")
      BY <2>1, <2>3, <2>5
    <3> QED BY <1>0, <2>1, <2>5, <3>1, TunnelGoes DEF At, OnTo
  <2>6. CASE At("up")
    <3>1. NGoto("wait")
      BY <2>1, <2>3, <2>6
    <3> QED BY <1>0, <2>1, <2>6, <3>1, TunnelGoes DEF At, OnTo, WaitSteps
  <2>7. CASE At("delete")
    <3>1. NGoto("end")
      BY <2>1, <2>3, <2>7
    <3> QED BY <1>0, <2>1, <2>7, <3>1, TunnelGoes DEF At, OnTo
  <2> QED BY <2>1, <2>2, <2>4, <2>5, <2>6, <2>7
<1>5. ASSUME SaveTunnelState  PROVE ncmd.pc = "state" /\ OnTo("agent")
  <2>1. ncmd.pc = "state" /\ NGoto("agent")
    BY <1>5 DEF SaveTunnelState, NGoto
  <2> QED BY <1>0, <2>1, TunnelSteps, TunnelGoes DEF At, OnTo, WaitSteps, RestoreSteps
<1>6. ASSUME WaitReady  PROVE
        ncmd.pc = "wait" /\ (IF CurrentURL(pod') = 0 THEN AfterTunnel ELSE OnTo("agent"))
  <2>1. ncmd.pc = "wait" /\ (IF CurrentURL(pod') = 0 THEN AfterTunnel ELSE NGoto("agent"))
    BY <1>6 DEF WaitReady
  <2> QED BY <1>0, <2>1, TunnelSteps, TunnelGoes DEF At, OnTo, WaitSteps, RestoreSteps
<1>7. ASSUME InjectBaseURL  PROVE ncmd.pc = "agent" /\ OnTo("configmap")
  <2>1. ncmd.pc = "agent" /\ NGoto("configmap")
    BY <1>7 DEF InjectBaseURL, NGoto
  <2> QED BY <1>0, <2>1, TunnelSteps, TunnelGoes DEF At, OnTo, WaitSteps, RestoreSteps
<1>8. ASSUME SyncTunnelConfigMap  PROVE ncmd.pc = "configmap" /\ OnTo("storefront")
  <2>1. ncmd.pc = "configmap" /\ NGoto("storefront")
    BY <1>8 DEF SyncTunnelConfigMap, NGoto
  <2> QED BY <1>0, <2>1, TunnelSteps, TunnelGoes DEF At, OnTo, WaitSteps, RestoreSteps
<1>9. ASSUME SyncStorefront  PROVE ncmd.pc = "storefront" /\ AfterTunnel
  BY <1>9 DEF SyncStorefront
<1>10. ASSUME Restart  PROVE Begun("restart", "restore") \/ Begun("restart", "rollout")
  BY <1>10, TunnelTracks DEF Restart, NBegin, Begun, TunnelCommands, RestartCommands, RestoreSteps, WaitSteps
<1>11. ASSUME RestorePersistentResources  PROVE
        ncmd.pc = "restore" /\ (\/ OnTo("helm")
                                \/ OnTo("secret")
                                \/ At("up") /\ OnTo("replay")
                                \/ At("restart") /\ Over)
  <2>1. ncmd.pc = "restore" /\ (NGoto("helm") \/ NGoto("secret") \/ RestoreFails)
    BY <1>11 DEF RestorePersistentResources
  <2>2. RestoreFails => (At("up") /\ NGoto("replay")) \/ (~At("up") /\ Over)
    <3>1. ncmd # NIdle
      BY <1>0, <2>1
    <3> QED BY <3>1 DEF RestoreFails, At, Over
  <2>3. At("restart") \/ At("up")
    BY <1>0, <2>1, TunnelSteps
  <2>4. NGoto("helm") => OnTo("helm")
    BY <1>0, <2>1, <2>3, TunnelGoes DEF At, OnTo, RestoreSteps
  <2>5. NGoto("secret") => OnTo("secret")
    BY <1>0, <2>1, <2>3, TunnelGoes DEF At, OnTo, RestoreSteps
  <2>6. At("up") /\ NGoto("replay") => OnTo("replay")
    BY <1>0, <2>1, TunnelGoes DEF At, OnTo
  <2> QED BY <2>1, <2>2, <2>3, <2>4, <2>5, <2>6
<1>12. ASSUME RolloutRestart  PROVE ncmd.pc = "rollout" /\ OnTo("wait")
  <2>1. ncmd.pc = "rollout" /\ NGoto("wait")
    BY <1>12 DEF RolloutRestart, NGoto
  <2> QED BY <1>0, <2>1, TunnelSteps, TunnelGoes DEF At, OnTo, WaitSteps, RestoreSteps
<1>13. ASSUME Stop  PROVE ncmd = NIdle /\ Over
  BY <1>13 DEF Stop, NBegin, Over
<1>14. ASSUME DeleteTunnel  PROVE Begun("delete", "unstate")
  BY <1>14, TunnelTracks DEF DeleteTunnel, NBegin, Begun, TunnelCommands, DeleteCommands, RestoreSteps, WaitSteps
<1>15. ASSUME DeleteTunnelState  PROVE ncmd.pc = "unstate" /\ OnTo("helm")
  <2>1. ncmd.pc = "unstate" /\ NGoto("helm")
    BY <1>15 DEF DeleteTunnelState, NGoto
  <2> QED BY <1>0, <2>1, TunnelSteps, TunnelGoes DEF At, OnTo, WaitSteps, RestoreSteps
<1>16. ASSUME DeleteEnds  PROVE ncmd.pc = "end" /\ Over
  BY <1>16 DEF DeleteEnds, Over
<1>17. ASSUME AddHostname  PROVE
        \/ Begun("add", "add") /\ IsPersistent
        \/ ncmd = NIdle /\ Over /\ ~IsPersistent
        \/ ncmd = NIdle /\ Over /\ \E h \in Hosts \ HostnameSet : claimed' \subseteq claimed \cup {h}
  <2>1. PICK h \in Hosts, bind \in BOOLEAN :
          /\ claimed' \subseteq claimed \cup {h}
          /\ IF ~IsPersistent \/ (tnl.kind = "local" /\ h \notin HostnameSet)
             THEN NBegin(NIdle) ELSE NBegin([pc |-> "add", name |-> "add", host |-> h])
    BY <1>17 DEF AddHostname
  <2>2. NBegin([pc |-> "add", name |-> "add", host |-> h]) => Begun("add", "add")
    BY DEF NBegin, Begun, TunnelCommands, AddCommands
  <2>3. NBegin(NIdle) => ncmd = NIdle /\ Over
    BY DEF NBegin, Over
  <2>4. CASE ~IsPersistent
    BY <2>1, <2>3, <2>4
  <2>5. CASE IsPersistent /\ tnl.kind = "local" /\ h \notin HostnameSet
    <3>1. h \in Hosts \ HostnameSet /\ claimed' \subseteq claimed \cup {h}
      BY <2>1, <2>5
    <3> QED BY <2>1, <2>3, <2>5, <3>1
  <2>6. CASE IsPersistent /\ ~(tnl.kind = "local" /\ h \notin HostnameSet)
    BY <2>1, <2>2, <2>6
  <2> QED BY <2>4, <2>5, <2>6
<1>18. ASSUME AddedStorefront  PROVE ncmd.pc = "add" /\ OnTo("added")
  <2>1. ncmd.pc = "add" /\ NGoto("added")
    BY <1>18 DEF AddedStorefront, NGoto
  <2> QED BY <1>0, <2>1, TunnelSteps, TunnelGoes DEF At, OnTo, WaitSteps, RestoreSteps
<1>19. ASSUME AddedState  PROVE ncmd.pc = "added" /\ Over
  BY <1>19 DEF AddedState, Over
<1>20. ASSUME RemoveHostname  PROVE Begun("remove", "removed")
  BY <1>20, TunnelTracks DEF RemoveHostname, NBegin, Begun, TunnelCommands, RemoveCommands, RestoreSteps, WaitSteps
<1>21. ASSUME RemovedState  PROVE ncmd.pc = "removed" /\ Over
  BY <1>21 DEF RemovedState, Over
<1>22. ASSUME SellHTTP  PROVE Begun("sell", "wait") \/ Begun("sell", "bind")
  BY <1>22, TunnelTracks DEF SellHTTP, NBegin, Begun, TunnelCommands, TunnelSales, RestoreSteps, WaitSteps
<1>23. ASSUME ApplyOffer  PROVE
        ncmd.pc = "bind" /\ (\/ ncmd.host # 0 /\ OnTo("refresh")
                             \/ ncmd.host = 0 /\ OnTo("wait")
                             \/ ncmd.host = 0 /\ Over)
  <2>1. /\ ncmd.pc = "bind"
        /\ \/ ncmd.host # 0 /\ NGoto("refresh")
           \/ ncmd.host = 0 /\ NGoto("wait")
           \/ ncmd.host = 0 /\ Over
    BY <1>23 DEF ApplyOffer, Over
  <2> QED BY <1>0, <2>1, TunnelSteps, TunnelGoes DEF At, OnTo, WaitSteps, RestoreSteps
<1>24. ASSUME RefreshStorefront  PROVE ncmd.pc = "refresh" /\ (OnTo("wait") \/ Over)
  <2>1. ncmd.pc = "refresh" /\ (NGoto("wait") \/ Over)
    BY <1>24 DEF RefreshStorefront, Over
  <2> QED BY <1>0, <2>1, TunnelSteps, TunnelGoes DEF At, OnTo, WaitSteps, RestoreSteps
<1>25. ASSUME SellDeleteEndsTunnel  PROVE ncmd = NIdle /\ Over
  BY <1>25 DEF SellDeleteEndsTunnel, NBegin, Over
<1>26. ASSUME StackUp  PROVE Begun("up", "version")
  BY <1>26, TunnelTracks DEF StackUp, NBegin, Begun, TunnelCommands, TunnelUps, RestoreSteps, WaitSteps
<1>27. ASSUME SyncStackConfigVersion  PROVE
        ncmd.pc = "version" /\ (IF IsPersistent THEN OnTo("restore") ELSE OnTo("replay"))
  <2>1. ncmd.pc = "version" /\ NGoto(IF IsPersistent THEN "restore" ELSE "replay")
    BY <1>27 DEF SyncStackConfigVersion
  <2> QED BY <1>0, <2>1, TunnelSteps, TunnelGoes DEF At, OnTo, WaitSteps, RestoreSteps
<1>28. ASSUME ReplayOffers  PROVE ncmd.pc = "replay" /\ Over
  BY <1>28 DEF ReplayOffers, Over
<1>29. ASSUME TunnelCrash  PROVE ncmd # NIdle /\ Over
  BY <1>29 DEF TunnelCrash, Over
<1> QED
  BY <1>1, <1>2, <1>3, <1>4, <1>5, <1>6, <1>7, <1>8, <1>9, <1>10, <1>11, <1>12,
     <1>13, <1>14, <1>15, <1>16, <1>17, <1>18, <1>19, <1>20, <1>21, <1>22, <1>23, <1>24,
     <1>25, <1>26, <1>27, <1>28, <1>29

LEMMA TunnelCommandStep ==
    ASSUME TunnelFits, PodFits, [TunnelNext]_tunnelVars
    PROVE  ncmd' \in {NIdle} \cup TunnelCommands
<1>0. CASE UNCHANGED tunnelVars
  BY <1>0 DEF tunnelVars, TunnelFits
<1>1. CASE Setup
  BY <1>1, TunnelMoves DEF Begun, OnTo, Over
<1>2. CASE SaveRemoteTunnelToken
  BY <1>2, TunnelMoves DEF Begun, OnTo, Over
<1>3. CASE ApplyRemote
  BY <1>3, TunnelMoves DEF Begun, OnTo, Over
<1>4. CASE HelmUpgradeCloudflared
  BY <1>4, TunnelMoves DEF Begun, OnTo, Over
<1>5. CASE SaveTunnelState
  BY <1>5, TunnelMoves DEF Begun, OnTo, Over
<1>6. CASE WaitReady
  BY <1>6, TunnelMoves, TunnelAfter DEF OnTo, Over
<1>7. CASE InjectBaseURL
  BY <1>7, TunnelMoves DEF Begun, OnTo, Over
<1>8. CASE SyncTunnelConfigMap
  BY <1>8, TunnelMoves DEF Begun, OnTo, Over
<1>9. CASE SyncStorefront
  BY <1>9, TunnelMoves, TunnelAfter DEF OnTo, Over
<1>10. CASE Restart
  BY <1>10, TunnelMoves DEF Begun, OnTo, Over
<1>11. CASE RestorePersistentResources
  BY <1>11, TunnelMoves DEF Begun, OnTo, Over
<1>12. CASE RolloutRestart
  BY <1>12, TunnelMoves DEF Begun, OnTo, Over
<1>13. CASE Stop
  BY <1>13, TunnelMoves DEF Begun, OnTo, Over
<1>14. CASE DeleteTunnel
  BY <1>14, TunnelMoves DEF Begun, OnTo, Over
<1>15. CASE DeleteTunnelState
  BY <1>15, TunnelMoves DEF Begun, OnTo, Over
<1>16. CASE DeleteEnds
  BY <1>16, TunnelMoves DEF Begun, OnTo, Over
<1>17. CASE AddHostname
  BY <1>17, TunnelMoves DEF Begun, OnTo, Over
<1>18. CASE AddedStorefront
  BY <1>18, TunnelMoves DEF Begun, OnTo, Over
<1>19. CASE AddedState
  BY <1>19, TunnelMoves DEF Begun, OnTo, Over
<1>20. CASE RemoveHostname
  BY <1>20, TunnelMoves DEF Begun, OnTo, Over
<1>21. CASE RemovedState
  BY <1>21, TunnelMoves DEF Begun, OnTo, Over
<1>22. CASE SellHTTP
  BY <1>22, TunnelMoves DEF Begun, OnTo, Over
<1>23. CASE ApplyOffer
  BY <1>23, TunnelMoves DEF Begun, OnTo, Over
<1>24. CASE RefreshStorefront
  BY <1>24, TunnelMoves DEF Begun, OnTo, Over
<1>25. CASE SellDeleteEndsTunnel
  BY <1>25, TunnelMoves DEF Begun, OnTo, Over
<1>26. CASE StackUp
  BY <1>26, TunnelMoves DEF Begun, OnTo, Over
<1>27. CASE SyncStackConfigVersion
  BY <1>27, TunnelMoves DEF Begun, OnTo, Over
<1>28. CASE ReplayOffers
  BY <1>28, TunnelMoves DEF Begun, OnTo, Over
<1>29. CASE RecreateCluster
  BY <1>29 DEF RecreateCluster, TunnelFits
<1>30. CASE TunnelCrash
  BY <1>30, TunnelMoves DEF Begun, OnTo, Over
<1>31. CASE ConnectorRestarts
  BY <1>31 DEF ConnectorRestarts, TunnelFits
<1> QED
  BY <1>0, <1>1, <1>2, <1>3, <1>4, <1>5, <1>6, <1>7, <1>8, <1>9, <1>10, <1>11, <1>12, <1>13,
     <1>14, <1>15, <1>16, <1>17, <1>18, <1>19, <1>20, <1>21, <1>22, <1>23, <1>24, <1>25, <1>26,
     <1>27, <1>28, <1>29, <1>30, <1>31 DEF TunnelNext

\* Pods as the chart renders and the commands start them.
LEMMA PodStarts ==
    ASSUME TunnelFits, NEW kind \in Kinds, NEW n \in Nat
    PROVE  /\ StartPod(kind, n) \in Connectors /\ StartPod(kind, n) # NoTunnel
           /\ StartPod(kind, n).kind = kind
           /\ StartPod(kind, n).url = IF kind = "quick" THEN 10 + n ELSE 0
  BY TunnelAssumption DEF StartPod, Connectors, Kinds, TunnelFits

LEMMA PodRolls ==
    ASSUME TunnelFits, PodFits
    PROVE  /\ RenderedKind \in Kinds
           /\ RolledPod \in {NoTunnel} \cup Connectors
           /\ RolledPod # NoTunnel => RolledPod.kind # "quick" /\ RolledPod.url \notin Hosts
<1>1. RenderedKind \in Kinds /\ urls \in Nat /\ pod \in {NoTunnel} \cup Connectors
  BY DEF RenderedKind, TunnelFits, Kinds
<1>2. RenderedKind # "quick" => /\ StartPod(RenderedKind, urls) \in Connectors
                               /\ StartPod(RenderedKind, urls).kind = RenderedKind
                               /\ StartPod(RenderedKind, urls).url = 0
  BY <1>1, PodStarts
<1>3. CASE RenderedKind = "quick"
  <2>1. RolledPod = NoTunnel
    BY <1>3 DEF RolledPod
  <2> QED BY <2>1, <1>1
<1>4. CASE RenderedKind # "quick" /\ pod # NoTunnel /\ pod.kind = RenderedKind
  <2>1. RolledPod = pod
    BY <1>4 DEF RolledPod
  <2> QED BY <1>1, <1>4, <2>1 DEF PodFits
<1>5. CASE RenderedKind # "quick" /\ ~(pod # NoTunnel /\ pod.kind = RenderedKind)
  <2>1. RolledPod = StartPod(RenderedKind, urls)
    BY <1>5 DEF RolledPod
  <2> QED BY <1>1, <1>2, <1>5, <2>1, TunnelHosts
<1> QED BY <1>1, <1>3, <1>4, <1>5

LEMMA PodFresh ==
    ASSUME TunnelFits, NEW kind \in Kinds
    PROVE  /\ StartPod(kind, urls + 1) \in Connectors /\ StartPod(kind, urls + 1) # NoTunnel
           /\ StartPod(kind, urls + 1).kind = kind
           /\ StartPod(kind, urls + 1).url \notin Hosts /\ urls + 1 \in Nat
           /\ kind = "quick" => StartPod(kind, urls + 1).url # 0
<1>1. urls \in Nat /\ urls + 1 \in Nat \ {0} /\ 10 + (urls + 1) # 0
  BY DEF TunnelFits
<1> QED BY <1>1, PodStarts, TunnelHosts

LEMMA TunnelFitsStep ==
    ASSUME TunnelFits, PodFits, StateKept, [TunnelNext]_tunnelVars
    PROVE  TunnelFits' /\ PodFits'
<1> DEFINE Rest == /\ tnl' \in {NoTunnel} \cup [hosts : HostLists, kind : {"remote", "local"}, tun : Tokens \cup {0}]
                   /\ tokFile' \in Tokens \cup {0} /\ token' \in Tokens \cup {0}
                   /\ pod' \in {NoTunnel} \cup Connectors
                   /\ chart' \in Kinds /\ mgmt' \in Kinds
                   /\ claimed' \subseteq Hosts /\ ledgerHosts' \subseteq Hosts
                   /\ urls' \in Nat /\ gaps' \subseteq {"cut", "replayed", "url"}
                   /\ PodFits'
<1>s. SUFFICES Rest
  BY TunnelCommandStep DEF TunnelFits
<1>0. CASE UNCHANGED tunnelVars
  BY <1>0 DEF tunnelVars, TunnelFits, PodFits
<1>1. CASE Setup
  BY <1>1 DEF Setup, TunnelFits, PodFits, Kinds
<1>2. CASE SaveRemoteTunnelToken
  BY <1>2, TunnelSteps DEF SaveRemoteTunnelToken, TunnelFits, PodFits, Kinds
<1>3. CASE ApplyRemote
  BY <1>3 DEF ApplyRemote, TunnelFits, PodFits, Kinds
<1>4. CASE HelmUpgradeCloudflared
  BY <1>4, PodRolls DEF HelmUpgradeCloudflared, HelmUpgrade, TunnelFits, PodFits, Kinds
<1>5. CASE SaveTunnelState
  <2>1. ncmd.host \in Hosts /\ ncmd.tun \in Tokens
    BY <1>5, TunnelSteps DEF SaveTunnelState, TunnelFits
  <2>2. tnl' \in [hosts : HostLists, kind : {"remote", "local"}, tun : Tokens \cup {0}]
    BY <1>5, <2>1, OneHost DEF SaveTunnelState
  <2> QED BY <1>5, <2>2 DEF SaveTunnelState, TunnelFits, PodFits
<1>6. CASE WaitReady
  <2>1. chart \in Kinds /\ urls \in Nat /\ pod \in {NoTunnel} \cup Connectors
    BY DEF TunnelFits
  <2>2. pod' \in {pod, StartPod(chart, urls + 1)} /\ urls' \in {urls, urls + 1}
    BY <1>6 DEF WaitReady
  <2>3. pod' \in {NoTunnel} \cup Connectors /\ PodFits' /\ urls' \in Nat
    BY <2>1, <2>2, PodFresh DEF PodFits
  <2> QED BY <1>6, <2>3 DEF WaitReady, TunnelFits
<1>7. CASE InjectBaseURL
  BY <1>7 DEF InjectBaseURL, TunnelFits, PodFits, Kinds
<1>8. CASE SyncTunnelConfigMap
  BY <1>8 DEF SyncTunnelConfigMap, TunnelFits, PodFits, Kinds
<1>9. CASE SyncStorefront
  BY <1>9 DEF SyncStorefront, TunnelFits, PodFits, Kinds
<1>10. CASE Restart
  BY <1>10 DEF Restart, TunnelFits, PodFits, Kinds
<1>11. CASE RestorePersistentResources
  BY <1>11 DEF RestorePersistentResources, TunnelFits, PodFits, Kinds
<1>12. CASE RolloutRestart
  <2>1. chart \in Kinds /\ urls \in Nat /\ pod \in {NoTunnel} \cup Connectors
    BY DEF TunnelFits
  <2>2. pod' \in {NoTunnel, StartPod(chart, urls + 1)} /\ urls' \in {urls, urls + 1}
    BY <1>12 DEF RolloutRestart
  <2>3. pod' \in {NoTunnel} \cup Connectors /\ PodFits' /\ urls' \in Nat
    BY <2>1, <2>2, PodFresh DEF PodFits
  <2> QED BY <1>12, <2>3 DEF RolloutRestart, TunnelFits
<1>13. CASE Stop
  BY <1>13 DEF Stop, TunnelFits, PodFits, Kinds
<1>14. CASE DeleteTunnel
  BY <1>14 DEF DeleteTunnel, TunnelFits, PodFits, Kinds
<1>15. CASE DeleteTunnelState
  BY <1>15 DEF DeleteTunnelState, TunnelFits, PodFits, Kinds
<1>16. CASE DeleteEnds
  BY <1>16 DEF DeleteEnds, TunnelFits, PodFits, Kinds
<1>17. CASE AddHostname
  BY <1>17, TunnelSteps DEF AddHostname, TunnelFits, PodFits, Kinds
<1>18. CASE AddedStorefront
  BY <1>18 DEF AddedStorefront, TunnelFits, PodFits, Kinds
<1>19. CASE AddedState
  <2>1. At("add") /\ ncmd.host \in Hosts /\ IsPersistent
    BY <1>19, TunnelSteps DEF AddedState, TunnelFits, StateKept
  <2>2. tnl.hosts \in HostLists /\ HostnameSet = ToSet(tnl.hosts)
    BY <2>1, TunnelTracks DEF HostnameSet
  <2>3. tnl' \in [hosts : HostLists, kind : {"remote", "local"}, tun : Tokens \cup {0}]
    <3>1. CASE ncmd.host \in HostnameSet
      BY <1>19, <2>1, <3>1 DEF AddedState, TunnelFits, IsPersistent
    <3>2. CASE ncmd.host \notin HostnameSet
      <4>1. Append(tnl.hosts, ncmd.host) \in HostLists
        BY <2>1, <2>2, <3>2, OneHostMore
      <4> QED BY <1>19, <2>1, <3>2, <4>1 DEF AddedState, TunnelFits, IsPersistent
    <3> QED BY <3>1, <3>2
  <2> QED BY <1>19, <2>3 DEF AddedState, TunnelFits, PodFits
<1>20. CASE RemoveHostname
  BY <1>20 DEF RemoveHostname, TunnelFits, PodFits, Kinds
<1>21. CASE RemovedState
  <2>1. At("remove") /\ ncmd.host \in HostnameSet /\ IsPersistent /\ HostnameSet \ {ncmd.host} # {}
    BY <1>21, TunnelSteps DEF RemovedState, TunnelFits, StateKept
  <2>2. tnl.hosts \in HostLists /\ HostnameSet = ToSet(tnl.hosts)
    BY <2>1, TunnelTracks DEF HostnameSet
  <2>3. WithoutHost(tnl.hosts, ncmd.host) \in HostLists
    BY <2>1, <2>2, OneHostLess
  <2>4. tnl' \in [hosts : HostLists, kind : {"remote", "local"}, tun : Tokens \cup {0}]
    BY <1>21, <2>1, <2>3 DEF RemovedState, TunnelFits, IsPersistent
  <2> QED BY <1>21, <2>4 DEF RemovedState, TunnelFits, PodFits
<1>22. CASE SellHTTP
  BY <1>22 DEF SellHTTP, TunnelFits, PodFits, Kinds
<1>23. CASE ApplyOffer
  BY <1>23, TunnelSteps DEF ApplyOffer, TunnelFits, PodFits, Kinds
<1>24. CASE RefreshStorefront
  BY <1>24 DEF RefreshStorefront, TunnelFits, PodFits, Kinds
<1>25. CASE SellDeleteEndsTunnel
  BY <1>25 DEF SellDeleteEndsTunnel, TunnelFits, PodFits, Kinds
<1>26. CASE StackUp
  BY <1>26, PodRolls DEF StackUp, HelmUpgrade, TunnelFits, PodFits, Kinds
<1>27. CASE SyncStackConfigVersion
  BY <1>27 DEF SyncStackConfigVersion, TunnelFits, PodFits, Kinds
<1>28. CASE ReplayOffers
  BY <1>28 DEF ReplayOffers, TunnelFits, PodFits, Kinds
<1>29. CASE RecreateCluster
  BY <1>29 DEF RecreateCluster, TunnelFits, PodFits, Kinds
<1>30. CASE TunnelCrash
  BY <1>30 DEF TunnelCrash, TunnelFits, PodFits, Kinds
<1>31. CASE ConnectorRestarts
  <2>1. pod.kind \in Kinds /\ urls \in Nat
    BY <1>31 DEF ConnectorRestarts, TunnelFits, Connectors, Kinds
  <2>2. pod' = StartPod(pod.kind, urls + 1) /\ urls' = urls + 1
    BY <1>31 DEF ConnectorRestarts
  <2>3. pod' \in {NoTunnel} \cup Connectors /\ PodFits' /\ urls' \in Nat
    BY <2>1, <2>2, PodFresh DEF PodFits
  <2> QED BY <1>31, <2>3 DEF ConnectorRestarts, TunnelFits
<1> QED
  BY <1>0, <1>1, <1>2, <1>3, <1>4, <1>5, <1>6, <1>7, <1>8, <1>9, <1>10, <1>11, <1>12, <1>13,
     <1>14, <1>15, <1>16, <1>17, <1>18, <1>19, <1>20, <1>21, <1>22, <1>23, <1>24, <1>25, <1>26,
     <1>27, <1>28, <1>29, <1>30, <1>31 DEF TunnelNext

LEMMA StateStep ==
    ASSUME TunnelFits, PodFits, StateKept, [TunnelNext]_tunnelVars
    PROVE  StateKept'
<1>t. tnl' = tnl => HostnameSet' = HostnameSet /\ IsPersistent' = IsPersistent
  BY DEF HostnameSet, IsPersistent
<1>n. NIdle.pc = "idle" /\ ncmd \in {NIdle} \cup TunnelCommands
  BY DEF NIdle, TunnelFits
<1>0. CASE UNCHANGED tunnelVars
  BY <1>0, <1>t DEF tunnelVars, StateKept, At
<1>1. CASE Setup
  <2>1. Begun("setup", "token")
    BY <1>1, TunnelMoves
  <2>2. tnl' = tnl
    BY <1>1 DEF Setup
  <2> QED BY <1>t, <1>n, <2>1, <2>2, TunnelSteps DEF StateKept, At, Begun, OnTo, Over, SameCommand, RestoreSteps, WaitSteps
<1>2. CASE SaveRemoteTunnelToken
  <2>1. ncmd.pc = "token" /\ OnTo("secret")
    BY <1>2, TunnelMoves
  <2>2. tnl' = tnl
    BY <1>2 DEF SaveRemoteTunnelToken
  <2> QED BY <1>t, <1>n, <2>1, <2>2, TunnelSteps DEF StateKept, At, Begun, OnTo, Over, SameCommand, RestoreSteps, WaitSteps
<1>3. CASE ApplyRemote
  <2>1. ncmd.pc = "secret" /\ OnTo("helm")
    BY <1>3, TunnelMoves
  <2>2. tnl' = tnl
    BY <1>3 DEF ApplyRemote
  <2> QED BY <1>t, <1>n, <2>1, <2>2, TunnelSteps DEF StateKept, At, Begun, OnTo, Over, SameCommand, RestoreSteps, WaitSteps
<1>4. CASE HelmUpgradeCloudflared
  <2>1. ncmd.pc = "helm" /\ (\/ At("setup") /\ OnTo("state")
                             \/ At("restart") /\ OnTo("rollout")
                             \/ At("up") /\ OnTo("wait")
                             \/ At("delete") /\ OnTo("end"))
    BY <1>4, TunnelMoves
  <2>2. tnl' = tnl
    BY <1>4 DEF HelmUpgradeCloudflared
  <2> QED BY <1>t, <1>n, <2>1, <2>2, TunnelSteps DEF StateKept, At, Begun, OnTo, Over, SameCommand, RestoreSteps, WaitSteps
<1>5. CASE SaveTunnelState
  <2>1. ncmd.pc = "state" /\ OnTo("agent")
    BY <1>5, TunnelMoves
  <2>2. ncmd.host \in Hosts /\ ncmd.tun \in Tokens /\ At("setup")
    BY <1>n, <2>1, TunnelSteps
  <2>3. IsPersistent'
    <3>1. <<ncmd.host>> \in Seq(Hosts)
      BY <2>2
    <3>2. tnl' = [hosts |-> <<ncmd.host>>, kind |-> "remote", tun |-> ncmd.tun]
      BY <1>5 DEF SaveTunnelState
    <3>3. tnl' \in TunnelStates
      BY <2>2, <3>1, <3>2 DEF TunnelStates
    <3> QED BY <3>3, TunnelAssumption DEF IsPersistent
  <2> QED BY <2>1, <2>2, <2>3 DEF StateKept, At, OnTo, SameCommand, RestoreSteps, WaitSteps
<1>6. CASE WaitReady
  <2>1. ncmd.pc \in {"wait", "storefront"} /\ ((OnTo("agent") /\ ncmd.pc = "wait") \/ AfterTunnel)
    BY <1>6, TunnelMoves
  <2>2. tnl' = tnl
    BY <1>6 DEF WaitReady
  <2>3. ncmd # NIdle
    BY <1>n, <2>1
  <2>4. CASE AfterTunnel
    <3>1. (At("sell") /\ OnTo("bind")) \/ (At("up") /\ OnTo("replay")) \/ Over
      BY <2>1, <2>4, TunnelAfter
    <3> QED BY <1>t, <1>n, <2>2, <3>1, TunnelSteps DEF StateKept, At, OnTo, Over, SameCommand, RestoreSteps, WaitSteps
  <2>5. CASE OnTo("agent") /\ ncmd.pc = "wait"
    BY <1>t, <1>n, <2>2, <2>5, TunnelSteps DEF StateKept, At, OnTo, SameCommand, RestoreSteps, WaitSteps
  <2> QED BY <2>1, <2>4, <2>5
<1>7. CASE InjectBaseURL
  <2>1. ncmd.pc = "agent" /\ OnTo("configmap")
    BY <1>7, TunnelMoves
  <2>2. tnl' = tnl
    BY <1>7 DEF InjectBaseURL
  <2> QED BY <1>t, <1>n, <2>1, <2>2, TunnelSteps DEF StateKept, At, Begun, OnTo, Over, SameCommand, RestoreSteps, WaitSteps
<1>8. CASE SyncTunnelConfigMap
  <2>1. ncmd.pc = "configmap" /\ OnTo("storefront")
    BY <1>8, TunnelMoves
  <2>2. tnl' = tnl
    BY <1>8 DEF SyncTunnelConfigMap
  <2> QED BY <1>t, <1>n, <2>1, <2>2, TunnelSteps DEF StateKept, At, Begun, OnTo, Over, SameCommand, RestoreSteps, WaitSteps
<1>9. CASE SyncStorefront
  <2>1. ncmd.pc \in {"wait", "storefront"} /\ ((OnTo("agent") /\ ncmd.pc = "wait") \/ AfterTunnel)
    BY <1>9, TunnelMoves
  <2>2. tnl' = tnl
    BY <1>9 DEF SyncStorefront
  <2>3. ncmd # NIdle
    BY <1>n, <2>1
  <2>4. CASE AfterTunnel
    <3>1. (At("sell") /\ OnTo("bind")) \/ (At("up") /\ OnTo("replay")) \/ Over
      BY <2>1, <2>4, TunnelAfter
    <3> QED BY <1>t, <1>n, <2>2, <3>1, TunnelSteps DEF StateKept, At, OnTo, Over, SameCommand, RestoreSteps, WaitSteps
  <2>5. CASE OnTo("agent") /\ ncmd.pc = "wait"
    BY <1>t, <1>n, <2>2, <2>5, TunnelSteps DEF StateKept, At, OnTo, SameCommand, RestoreSteps, WaitSteps
  <2> QED BY <2>1, <2>4, <2>5
<1>10. CASE Restart
  <2>1. /\ ncmd = NIdle /\ tnl' = tnl
        /\ ncmd' = [pc |-> IF IsPersistent THEN "restore" ELSE "rollout", name |-> "restart"]
    BY <1>10 DEF Restart, NBegin
  <2> QED BY <1>t, <1>n, <2>1 DEF StateKept, At, RestoreSteps, WaitSteps
<1>11. CASE RestorePersistentResources
  <2>1. ncmd.pc = "restore" /\ (\/ OnTo("helm")
                                \/ OnTo("secret")
                                \/ At("up") /\ OnTo("replay")
                                \/ At("restart") /\ Over)
    BY <1>11, TunnelMoves
  <2>2. tnl' = tnl
    BY <1>11 DEF RestorePersistentResources
  <2> QED BY <1>t, <1>n, <2>1, <2>2, TunnelSteps DEF StateKept, At, Begun, OnTo, Over, SameCommand, RestoreSteps, WaitSteps
<1>12. CASE RolloutRestart
  <2>1. ncmd.pc = "rollout" /\ OnTo("wait")
    BY <1>12, TunnelMoves
  <2>2. tnl' = tnl
    BY <1>12 DEF RolloutRestart
  <2> QED BY <1>t, <1>n, <2>1, <2>2, TunnelSteps DEF StateKept, At, Begun, OnTo, Over, SameCommand, RestoreSteps, WaitSteps
<1>13. CASE Stop
  <2>1. ncmd = NIdle /\ Over
    BY <1>13, TunnelMoves
  <2>2. tnl' = tnl
    BY <1>13 DEF Stop
  <2> QED BY <1>t, <1>n, <2>1, <2>2, TunnelSteps DEF StateKept, At, Begun, OnTo, Over, SameCommand, RestoreSteps, WaitSteps
<1>14. CASE DeleteTunnel
  <2>1. /\ ncmd = NIdle /\ tnl' = tnl /\ IsPersistent
        /\ ncmd' = [pc |-> "unstate", name |-> "delete"]
    BY <1>14 DEF DeleteTunnel, NBegin
  <2> QED BY <1>t, <1>n, <2>1 DEF StateKept, At, RestoreSteps, WaitSteps
<1>15. CASE DeleteTunnelState
  <2>1. ncmd.pc = "unstate" /\ OnTo("helm")
    BY <1>15, TunnelMoves
  <2> QED BY <1>15, <1>n, <2>1, TunnelSteps DEF StateKept, At, Begun, OnTo, Over, SameCommand, RestoreSteps, WaitSteps, DeleteTunnelState, IsPersistent
<1>16. CASE DeleteEnds
  <2>1. ncmd.pc = "end" /\ Over
    BY <1>16, TunnelMoves
  <2>2. tnl' = tnl
    BY <1>16 DEF DeleteEnds
  <2> QED BY <1>t, <1>n, <2>1, <2>2, TunnelSteps DEF StateKept, At, Begun, OnTo, Over, SameCommand, RestoreSteps, WaitSteps
<1>17. CASE AddHostname
  <2>1. \/ Begun("add", "add") /\ IsPersistent
        \/ ncmd = NIdle /\ Over /\ ~IsPersistent
        \/ ncmd = NIdle /\ Over /\ \E h \in Hosts \ HostnameSet : claimed' \subseteq claimed \cup {h}
    BY <1>17, TunnelMoves
  <2>2. tnl' = tnl
    BY <1>17 DEF AddHostname
  <2> QED BY <1>t, <1>n, <2>1, <2>2, TunnelSteps DEF StateKept, At, Begun, OnTo, Over, SameCommand, RestoreSteps, WaitSteps
<1>18. CASE AddedStorefront
  <2>1. ncmd.pc = "add" /\ OnTo("added")
    BY <1>18, TunnelMoves
  <2>2. tnl' = tnl
    BY <1>18 DEF AddedStorefront
  <2> QED BY <1>t, <1>n, <2>1, <2>2, TunnelSteps DEF StateKept, At, Begun, OnTo, Over, SameCommand, RestoreSteps, WaitSteps
<1>19. CASE AddedState
  <2>1. ncmd.pc = "added" /\ Over
    BY <1>19, TunnelMoves
  <2> QED BY <1>19, <1>n, <2>1, TunnelSteps DEF StateKept, At, Begun, OnTo, Over, SameCommand, RestoreSteps, WaitSteps, AddedState, IsPersistent
<1>20. CASE RemoveHostname
  <2>1. PICK h \in HostnameSet :
          /\ ncmd = NIdle /\ tnl' = tnl /\ HostnameSet \ {h} # {}
          /\ ncmd' = [pc |-> "removed", name |-> "remove", host |-> h]
    BY <1>20 DEF RemoveHostname, NBegin
  <2>2. IsPersistent
    BY <2>1, TunnelTracks
  <2> QED BY <1>t, <1>n, <2>1, <2>2 DEF StateKept, At, RestoreSteps, WaitSteps
<1>21. CASE RemovedState
  <2>1. ncmd.pc = "removed" /\ Over
    BY <1>21, TunnelMoves
  <2> QED BY <1>21, <1>n, <2>1, TunnelSteps DEF StateKept, At, Begun, OnTo, Over, SameCommand, RestoreSteps, WaitSteps, RemovedState, IsPersistent
<1>22. CASE SellHTTP
  <2>1. Begun("sell", "wait") \/ Begun("sell", "bind")
    BY <1>22, TunnelMoves
  <2>2. tnl' = tnl
    BY <1>22 DEF SellHTTP
  <2> QED BY <1>t, <1>n, <2>1, <2>2, TunnelSteps DEF StateKept, At, Begun, OnTo, Over, SameCommand, RestoreSteps, WaitSteps
<1>23. CASE ApplyOffer
  <2>1. ncmd.pc = "bind" /\ (\/ ncmd.host # 0 /\ OnTo("refresh")
                             \/ ncmd.host = 0 /\ OnTo("wait")
                             \/ ncmd.host = 0 /\ Over)
    BY <1>23, TunnelMoves
  <2>2. tnl' = tnl
    BY <1>23 DEF ApplyOffer
  <2> QED BY <1>t, <1>n, <2>1, <2>2, TunnelSteps DEF StateKept, At, Begun, OnTo, Over, SameCommand, RestoreSteps, WaitSteps
<1>24. CASE RefreshStorefront
  <2>1. ncmd.pc = "refresh" /\ (OnTo("wait") \/ Over)
    BY <1>24, TunnelMoves
  <2>2. tnl' = tnl
    BY <1>24 DEF RefreshStorefront
  <2> QED BY <1>t, <1>n, <2>1, <2>2, TunnelSteps DEF StateKept, At, Begun, OnTo, Over, SameCommand, RestoreSteps, WaitSteps
<1>25. CASE SellDeleteEndsTunnel
  <2>1. ncmd = NIdle /\ Over
    BY <1>25, TunnelMoves
  <2>2. tnl' = tnl
    BY <1>25 DEF SellDeleteEndsTunnel
  <2> QED BY <1>t, <1>n, <2>1, <2>2, TunnelSteps DEF StateKept, At, Begun, OnTo, Over, SameCommand, RestoreSteps, WaitSteps
<1>26. CASE StackUp
  <2>1. Begun("up", "version")
    BY <1>26, TunnelMoves
  <2>2. tnl' = tnl
    BY <1>26 DEF StackUp
  <2> QED BY <1>t, <1>n, <2>1, <2>2, TunnelSteps DEF StateKept, At, Begun, OnTo, Over, SameCommand, RestoreSteps, WaitSteps
<1>27. CASE SyncStackConfigVersion
  <2>1. ncmd.pc = "version" /\ (IF IsPersistent THEN OnTo("restore") ELSE OnTo("replay"))
    BY <1>27, TunnelMoves
  <2>2. tnl' = tnl
    BY <1>27 DEF SyncStackConfigVersion
  <2> QED BY <1>t, <1>n, <2>1, <2>2, TunnelSteps DEF StateKept, At, Begun, OnTo, Over, SameCommand, RestoreSteps, WaitSteps
<1>28. CASE ReplayOffers
  <2>1. ncmd.pc = "replay" /\ Over
    BY <1>28, TunnelMoves
  <2>2. tnl' = tnl
    BY <1>28 DEF ReplayOffers
  <2> QED BY <1>t, <1>n, <2>1, <2>2, TunnelSteps DEF StateKept, At, Begun, OnTo, Over, SameCommand, RestoreSteps, WaitSteps
<1>29. CASE RecreateCluster
  <2>1. ncmd' = ncmd
    BY <1>29 DEF RecreateCluster
  <2>2. tnl' = tnl
    BY <1>29 DEF RecreateCluster
  <2> QED BY <1>t, <1>n, <2>1, <2>2, TunnelSteps DEF StateKept, At, Begun, OnTo, Over, SameCommand, RestoreSteps, WaitSteps
<1>30. CASE TunnelCrash
  <2>1. ncmd # NIdle /\ Over
    BY <1>30, TunnelMoves
  <2>2. tnl' = tnl
    BY <1>30 DEF TunnelCrash
  <2> QED BY <1>t, <1>n, <2>1, <2>2, TunnelSteps DEF StateKept, At, Begun, OnTo, Over, SameCommand, RestoreSteps, WaitSteps
<1>31. CASE ConnectorRestarts
  <2>1. ncmd' = ncmd
    BY <1>31 DEF ConnectorRestarts
  <2>2. tnl' = tnl
    BY <1>31 DEF ConnectorRestarts
  <2> QED BY <1>t, <1>n, <2>1, <2>2, TunnelSteps DEF StateKept, At, Begun, OnTo, Over, SameCommand, RestoreSteps, WaitSteps
<1> QED
  BY <1>0, <1>1, <1>2, <1>3, <1>4, <1>5, <1>6, <1>7, <1>8, <1>9, <1>10, <1>11, <1>12, <1>13,
     <1>14, <1>15, <1>16, <1>17, <1>18, <1>19, <1>20, <1>21, <1>22, <1>23, <1>24, <1>25, <1>26,
     <1>27, <1>28, <1>29, <1>30, <1>31 DEF TunnelNext

\* A host that is added or removed, once the state is saved.
LEMMA HostsGrow ==
    ASSUME TunnelFits, PodFits, AddedState, IsPersistent, ncmd.host \in Hosts
    PROVE  HostnameSet' = HostnameSet \cup {ncmd.host} /\ IsPersistent'
<1>1. tnl \in [hosts : HostLists, kind : {"remote", "local"}, tun : Tokens \cup {0}]
  BY DEF TunnelFits, IsPersistent
<1>2. tnl.hosts \in HostLists /\ HostnameSet = ToSet(tnl.hosts)
  BY <1>1 DEF HostnameSet, IsPersistent
<1>3. CASE ncmd.host \in HostnameSet
  <2>1. tnl' = tnl
    BY <1>3 DEF AddedState
  <2> QED BY <1>3, <2>1 DEF HostnameSet, IsPersistent
<1>4. CASE ncmd.host \notin HostnameSet
  <2>1. tnl' = [tnl EXCEPT !.hosts = Append(tnl.hosts, ncmd.host)]
    BY <1>4 DEF AddedState
  <2>2. Append(tnl.hosts, ncmd.host) \in HostLists /\ ToSet(Append(tnl.hosts, ncmd.host)) = HostnameSet \cup {ncmd.host}
    BY <1>2, <1>4, OneHostMore
  <2>3. tnl' \in TunnelStates /\ tnl'.hosts = Append(tnl.hosts, ncmd.host)
    BY <1>1, <2>1, <2>2 DEF TunnelStates, HostLists
  <2>4. IsPersistent'
    BY <2>3, TunnelAssumption DEF IsPersistent
  <2> QED BY <2>2, <2>3, <2>4 DEF HostnameSet
<1> QED BY <1>3, <1>4

LEMMA HostsShrink ==
    ASSUME TunnelFits, PodFits, StateKept, RemovedState, At("remove")
    PROVE  HostnameSet' = HostnameSet \ {ncmd.host} /\ IsPersistent'
<1>0. IsPersistent /\ ncmd.host \in HostnameSet /\ HostnameSet \ {ncmd.host} # {}
  BY DEF StateKept
<1>1. tnl \in [hosts : HostLists, kind : {"remote", "local"}, tun : Tokens \cup {0}]
  BY <1>0 DEF TunnelFits, IsPersistent
<1>2. tnl.hosts \in HostLists /\ HostnameSet = ToSet(tnl.hosts)
  BY <1>0, <1>1 DEF HostnameSet
<1>3. tnl' = [tnl EXCEPT !.hosts = WithoutHost(tnl.hosts, ncmd.host)]
  BY DEF RemovedState
<1>4. /\ WithoutHost(tnl.hosts, ncmd.host) \in HostLists
      /\ ToSet(WithoutHost(tnl.hosts, ncmd.host)) = HostnameSet \ {ncmd.host}
  BY <1>0, <1>2, OneHostLess
<1>5. tnl' \in TunnelStates /\ tnl'.hosts = WithoutHost(tnl.hosts, ncmd.host)
  BY <1>1, <1>3, <1>4 DEF TunnelStates, HostLists
<1>6. IsPersistent'
  BY <1>5, TunnelAssumption DEF IsPersistent
<1> QED BY <1>4, <1>5, <1>6 DEF HostnameSet

\* What a storefront is rendered on.
LEMMA Renders ==
    /\ \A hosts : CreateStorefront(hosts) = IF hosts = {} THEN front ELSE hosts \ claimed
    /\ \A url : StorefrontHostnames(url) = IF IsPersistent THEN HostnameSet ELSE {url} \ {0}
    /\ DeleteStorefront = {}
  BY DEF CreateStorefront, EnsureStorefrontRenderer, OfferBoundHostnames, StorefrontHostnames, DeleteStorefront

LEMMA FrontTrackedStep ==
    ASSUME TunnelFits, PodFits, StateKept, FrontTracked, [TunnelNext]_tunnelVars
    PROVE  FrontTracked'
<1>t. tnl' = tnl => HostnameSet' = HostnameSet /\ IsPersistent' = IsPersistent
  BY DEF HostnameSet, IsPersistent
<1>n. NIdle.pc = "idle" /\ ncmd \in {NIdle} \cup TunnelCommands
  BY DEF NIdle, TunnelFits
<1>0. CASE UNCHANGED tunnelVars
  BY <1>0, <1>t DEF tunnelVars, FrontTracked, At
<1>1. CASE Setup
  <2>1. Begun("setup", "token")
    BY <1>1, TunnelMoves
  <2>2. tnl' = tnl /\ front' = front /\ ("cut" \notin gaps' => "cut" \notin gaps)
    BY <1>1 DEF Setup
  <2> QED BY <1>t, <1>n, <2>1, <2>2, TunnelSteps DEF FrontTracked, At, Begun, OnTo, Over, SameCommand
<1>2. CASE SaveRemoteTunnelToken
  <2>1. ncmd.pc = "token" /\ OnTo("secret")
    BY <1>2, TunnelMoves
  <2>2. tnl' = tnl /\ front' = front /\ ("cut" \notin gaps' => "cut" \notin gaps)
    BY <1>2 DEF SaveRemoteTunnelToken
  <2> QED BY <1>t, <1>n, <2>1, <2>2, TunnelSteps DEF FrontTracked, At, Begun, OnTo, Over, SameCommand
<1>3. CASE ApplyRemote
  <2>1. ncmd.pc = "secret" /\ OnTo("helm")
    BY <1>3, TunnelMoves
  <2>2. tnl' = tnl /\ front' = front /\ ("cut" \notin gaps' => "cut" \notin gaps)
    BY <1>3 DEF ApplyRemote
  <2> QED BY <1>t, <1>n, <2>1, <2>2, TunnelSteps DEF FrontTracked, At, Begun, OnTo, Over, SameCommand
<1>4. CASE HelmUpgradeCloudflared
  <2>1. ncmd.pc = "helm" /\ (\/ At("setup") /\ OnTo("state")
                             \/ At("restart") /\ OnTo("rollout")
                             \/ At("up") /\ OnTo("wait")
                             \/ At("delete") /\ OnTo("end"))
    BY <1>4, TunnelMoves
  <2>2. tnl' = tnl /\ front' = front /\ ("cut" \notin gaps' => "cut" \notin gaps)
    BY <1>4 DEF HelmUpgradeCloudflared
  <2> QED BY <1>t, <1>n, <2>1, <2>2, TunnelSteps DEF FrontTracked, At, Begun, OnTo, Over, SameCommand
<1>5. CASE SaveTunnelState
  <2>1. ncmd.pc = "state" /\ OnTo("agent")
    BY <1>5, TunnelMoves
  <2>2. At("setup")
    BY <1>n, <2>1, TunnelSteps
  <2>3. IsPersistent'
    BY <2>1, <2>2, StateStep DEF StateKept, At, OnTo, SameCommand
  <2> QED BY <2>1, <2>2, <2>3 DEF FrontTracked, At, OnTo, SameCommand
<1>6. CASE WaitReady
  <2>1. ncmd.pc = "wait" /\ (OnTo("agent") \/ AfterTunnel)
    BY <1>6, TunnelMoves
  <2>2. tnl' = tnl /\ front' = front /\ gaps' = gaps
    BY <1>6 DEF WaitReady
  <2>3. ncmd'.pc \notin {"unstate", "added", "removed"}
    BY <1>n, <2>1, TunnelAfter DEF OnTo, Over
  <2>4. ~At("setup") /\ ncmd.pc \notin {"unstate", "added", "removed"}
    BY <1>n, <2>1, TunnelSteps
  <2> QED BY <1>t, <2>2, <2>3, <2>4 DEF FrontTracked
<1>7. CASE InjectBaseURL
  <2>1. ncmd.pc = "agent" /\ OnTo("configmap")
    BY <1>7, TunnelMoves
  <2>2. tnl' = tnl /\ front' = front /\ ("cut" \notin gaps' => "cut" \notin gaps)
    BY <1>7 DEF InjectBaseURL
  <2> QED BY <1>t, <1>n, <2>1, <2>2, TunnelSteps DEF FrontTracked, At, Begun, OnTo, Over, SameCommand
<1>8. CASE SyncTunnelConfigMap
  <2>1. ncmd.pc = "configmap" /\ OnTo("storefront")
    BY <1>8, TunnelMoves
  <2>2. tnl' = tnl /\ front' = front /\ ("cut" \notin gaps' => "cut" \notin gaps)
    BY <1>8 DEF SyncTunnelConfigMap
  <2> QED BY <1>t, <1>n, <2>1, <2>2, TunnelSteps DEF FrontTracked, At, Begun, OnTo, Over, SameCommand
<1>9. CASE SyncStorefront
  <2>1. ncmd.pc = "storefront" /\ AfterTunnel
    BY <1>9, TunnelMoves
  <2>2. tnl' = tnl
    BY <1>9 DEF SyncStorefront
  <2>3. ncmd'.pc \notin {"unstate", "added", "removed"} /\ (At("setup") => Over)
    BY <1>n, <2>1, TunnelAfter DEF OnTo, Over, At
  <2>4. CASE "cut" \in gaps' /\ front' = front
    BY <1>t, <1>n, <2>2, <2>3, <2>4 DEF FrontTracked
  <2>5. CASE front' = CreateStorefront(StorefrontHostnames(CurrentURL(pod)))
    <3>1. IsPersistent => front' = HostnameSet \ claimed
      BY <2>5, Renders, TunnelTracks
    <3>2. ~IsPersistent => front' \cap Hosts = {}
      BY <2>5, Renders, TunnelTracks DEF FrontTracked
    <3> QED BY <1>t, <2>2, <2>3, <3>1, <3>2 DEF FrontTracked
  <2> QED BY <1>9, <2>4, <2>5 DEF SyncStorefront
<1>10. CASE Restart
  <2>1. Begun("restart", "restore") \/ Begun("restart", "rollout")
    BY <1>10, TunnelMoves
  <2>2. tnl' = tnl /\ front' = front /\ ("cut" \notin gaps' => "cut" \notin gaps)
    BY <1>10 DEF Restart
  <2> QED BY <1>t, <1>n, <2>1, <2>2, TunnelSteps DEF FrontTracked, At, Begun, OnTo, Over, SameCommand
<1>11. CASE RestorePersistentResources
  <2>1. ncmd.pc = "restore" /\ (\/ OnTo("helm")
                                \/ OnTo("secret")
                                \/ At("up") /\ OnTo("replay")
                                \/ At("restart") /\ Over)
    BY <1>11, TunnelMoves
  <2>2. tnl' = tnl /\ front' = front /\ ("cut" \notin gaps' => "cut" \notin gaps)
    BY <1>11 DEF RestorePersistentResources
  <2> QED BY <1>t, <1>n, <2>1, <2>2, TunnelSteps DEF FrontTracked, At, Begun, OnTo, Over, SameCommand
<1>12. CASE RolloutRestart
  <2>1. ncmd.pc = "rollout" /\ OnTo("wait")
    BY <1>12, TunnelMoves
  <2>2. tnl' = tnl /\ front' = front /\ ("cut" \notin gaps' => "cut" \notin gaps)
    BY <1>12 DEF RolloutRestart
  <2> QED BY <1>t, <1>n, <2>1, <2>2, TunnelSteps DEF FrontTracked, At, Begun, OnTo, Over, SameCommand
<1>13. CASE Stop
  <2>1. ncmd = NIdle /\ Over
    BY <1>13, TunnelMoves
  <2>2. tnl' = tnl /\ front' = front /\ ("cut" \notin gaps' => "cut" \notin gaps)
    BY <1>13 DEF Stop
  <2> QED BY <1>t, <1>n, <2>1, <2>2, TunnelSteps DEF FrontTracked, At, Begun, OnTo, Over, SameCommand
<1>14. CASE DeleteTunnel
  <2>1. front' = {}
    BY <1>14, Renders DEF DeleteTunnel
  <2> QED BY <2>1 DEF FrontTracked
<1>15. CASE DeleteTunnelState
  <2>1. ncmd.pc = "unstate" /\ OnTo("helm")
    BY <1>15, TunnelMoves
  <2>2. front' = {}
    BY <1>15, <2>1 DEF DeleteTunnelState, FrontTracked
  <2> QED BY <2>2 DEF FrontTracked
<1>16. CASE DeleteEnds
  <2>1. ncmd.pc = "end" /\ Over
    BY <1>16, TunnelMoves
  <2>2. tnl' = tnl /\ front' = front /\ ("cut" \notin gaps' => "cut" \notin gaps)
    BY <1>16 DEF DeleteEnds
  <2> QED BY <1>t, <1>n, <2>1, <2>2, TunnelSteps DEF FrontTracked, At, Begun, OnTo, Over, SameCommand
<1>17. CASE AddHostname
  <2>1. ncmd = NIdle /\ (Over \/ Begun("add", "add"))
    BY <1>17, TunnelMoves DEF Begun
  <2>2. tnl' = tnl /\ front' = front /\ gaps' = gaps
    BY <1>17 DEF AddHostname
  <2> QED BY <1>t, <1>n, <2>1, <2>2 DEF FrontTracked, At, Over, Begun
<1>18. CASE AddedStorefront
  <2>1. ncmd.pc = "add" /\ OnTo("added")
    BY <1>18, TunnelMoves
  <2>2. At("add") /\ IsPersistent
    BY <1>n, <2>1, TunnelSteps DEF StateKept
  <2>3. tnl' = tnl /\ ncmd'.host = ncmd.host /\ front' = (HostnameSet \cup {ncmd.host}) \ claimed
    BY <1>18, <2>1, <2>2, Renders DEF AddedStorefront, OnTo, SameCommand
  <2> QED BY <1>t, <2>1, <2>2, <2>3 DEF FrontTracked, OnTo
<1>19. CASE AddedState
  <2>1. ncmd.pc = "added" /\ Over
    BY <1>19, TunnelMoves
  <2>2. At("add") /\ IsPersistent /\ ncmd.host \in Hosts
    BY <1>n, <2>1, TunnelSteps DEF StateKept
  <2>3. HostnameSet' = HostnameSet \cup {ncmd.host} /\ IsPersistent'
    BY <1>19, <2>2, HostsGrow
  <2>4. front' = front /\ gaps' = gaps
    BY <1>19 DEF AddedState
  <2> QED BY <1>n, <2>1, <2>2, <2>3, <2>4 DEF FrontTracked, Over, At
<1>20. CASE RemoveHostname
  <2>1. PICK h \in HostnameSet :
          /\ tnl' = tnl /\ HostnameSet \ {h} # {} /\ front' = CreateStorefront(HostnameSet \ {h})
          /\ ncmd' = [pc |-> "removed", name |-> "remove", host |-> h]
    BY <1>20 DEF RemoveHostname, NBegin
  <2>2. IsPersistent /\ front' = (HostnameSet \ {h}) \ claimed
    BY <2>1, TunnelTracks, Renders
  <2> QED BY <1>t, <2>1, <2>2 DEF FrontTracked
<1>21. CASE RemovedState
  <2>1. ncmd.pc = "removed" /\ Over
    BY <1>21, TunnelMoves
  <2>2. At("remove") /\ IsPersistent /\ ncmd.host \in Hosts
    BY <1>n, <2>1, TunnelSteps DEF StateKept
  <2>3. HostnameSet' = HostnameSet \ {ncmd.host} /\ IsPersistent'
    BY <1>21, <2>2, HostsShrink
  <2>4. front' = front /\ gaps' = gaps
    BY <1>21 DEF RemovedState
  <2> QED BY <1>n, <2>1, <2>2, <2>3, <2>4 DEF FrontTracked, Over, At
<1>22. CASE SellHTTP
  <2>1. Begun("sell", "wait") \/ Begun("sell", "bind")
    BY <1>22, TunnelMoves
  <2>2. tnl' = tnl /\ front' = front /\ ("cut" \notin gaps' => "cut" \notin gaps)
    BY <1>22 DEF SellHTTP
  <2> QED BY <1>t, <1>n, <2>1, <2>2, TunnelSteps DEF FrontTracked, At, Begun, OnTo, Over, SameCommand
<1>23. CASE ApplyOffer
  <2>1. ncmd.pc = "bind" /\ (\/ ncmd.host # 0 /\ OnTo("refresh")
                             \/ ncmd.host = 0 /\ OnTo("wait")
                             \/ ncmd.host = 0 /\ Over)
    BY <1>23, TunnelMoves
  <2>2. tnl' = tnl /\ front' = front /\ ("cut" \notin gaps' => "cut" \notin gaps)
    BY <1>23 DEF ApplyOffer
  <2> QED BY <1>t, <1>n, <2>1, <2>2, TunnelSteps DEF FrontTracked, At, Begun, OnTo, Over, SameCommand
<1>24. CASE RefreshStorefront
  <2>1. ncmd.pc = "refresh" /\ (OnTo("wait") \/ Over)
    BY <1>24, TunnelMoves
  <2>2. At("sell") /\ ncmd'.pc \notin {"unstate", "added", "removed"}
    BY <1>n, <2>1, TunnelSteps DEF OnTo, Over
  <2>3. tnl' = tnl
    BY <1>24 DEF RefreshStorefront
  <2>4. CASE "cut" \in gaps' /\ front' = front
    BY <1>t, <2>2, <2>3, <2>4 DEF FrontTracked
  <2>5. CASE front' = CreateStorefront(StorefrontHostnames(0)) /\ (IsPersistent \/ gaps' = gaps)
    <3>1. IsPersistent => front' = HostnameSet \ claimed
      BY <2>5, Renders, TunnelTracks
    <3>2. ~IsPersistent => front' \cap Hosts = {}
      BY <2>5, Renders DEF FrontTracked
    <3> QED BY <1>t, <2>2, <2>3, <3>1, <3>2 DEF FrontTracked
  <2> QED BY <1>24, <2>4, <2>5 DEF RefreshStorefront
<1>25. CASE SellDeleteEndsTunnel
  <2>1. ncmd = NIdle /\ Over
    BY <1>25, TunnelMoves
  <2>2. tnl' = tnl /\ gaps' = gaps /\ front' \in {front, {}}
    BY <1>25, Renders DEF SellDeleteEndsTunnel
  <2> QED BY <1>t, <1>n, <2>1, <2>2 DEF FrontTracked, At, Over
<1>26. CASE StackUp
  <2>1. Begun("up", "version")
    BY <1>26, TunnelMoves
  <2>2. tnl' = tnl /\ front' = front /\ ("cut" \notin gaps' => "cut" \notin gaps)
    BY <1>26 DEF StackUp
  <2> QED BY <1>t, <1>n, <2>1, <2>2, TunnelSteps DEF FrontTracked, At, Begun, OnTo, Over, SameCommand
<1>27. CASE SyncStackConfigVersion
  <2>1. ncmd.pc = "version" /\ (IF IsPersistent THEN OnTo("restore") ELSE OnTo("replay"))
    BY <1>27, TunnelMoves
  <2>2. tnl' = tnl /\ front' = front /\ ("cut" \notin gaps' => "cut" \notin gaps)
    BY <1>27 DEF SyncStackConfigVersion
  <2> QED BY <1>t, <1>n, <2>1, <2>2, TunnelSteps DEF FrontTracked, At, Begun, OnTo, Over, SameCommand
<1>28. CASE ReplayOffers
  <2>1. ncmd.pc = "replay" /\ Over
    BY <1>28, TunnelMoves
  <2>2. tnl' = tnl /\ front' = front /\ ("cut" \notin gaps' => "cut" \notin gaps)
    BY <1>28 DEF ReplayOffers
  <2> QED BY <1>t, <1>n, <2>1, <2>2, TunnelSteps DEF FrontTracked, At, Begun, OnTo, Over, SameCommand
<1>29. CASE RecreateCluster
  <2>1. front' = {}
    BY <1>29 DEF RecreateCluster
  <2> QED BY <2>1 DEF FrontTracked
<1>30. CASE TunnelCrash
  <2>1. ncmd # NIdle /\ Over
    BY <1>30, TunnelMoves
  <2>2. tnl' = tnl /\ front' = front /\ "cut" \in gaps'
    BY <1>30 DEF TunnelCrash
  <2> QED BY <1>t, <1>n, <2>1, <2>2 DEF FrontTracked, Over
<1>31. CASE ConnectorRestarts
  <2>1. ncmd' = ncmd
    BY <1>31 DEF ConnectorRestarts
  <2>2. tnl' = tnl /\ front' = front /\ ("cut" \notin gaps' => "cut" \notin gaps)
    BY <1>31 DEF ConnectorRestarts
  <2> QED BY <1>t, <1>n, <2>1, <2>2, TunnelSteps DEF FrontTracked, At, Begun, OnTo, Over, SameCommand
<1> QED
  BY <1>0, <1>1, <1>2, <1>3, <1>4, <1>5, <1>6, <1>7, <1>8, <1>9, <1>10, <1>11, <1>12, <1>13,
     <1>14, <1>15, <1>16, <1>17, <1>18, <1>19, <1>20, <1>21, <1>22, <1>23, <1>24, <1>25, <1>26,
     <1>27, <1>28, <1>29, <1>30, <1>31 DEF TunnelNext

LEMMA FrontYieldsStep ==
    ASSUME TunnelFits, PodFits, StateKept, FrontTracked, FrontYields, [TunnelNext]_tunnelVars
    PROVE  FrontYields'
<1>n. NIdle.pc = "idle" /\ ncmd \in {NIdle} \cup TunnelCommands
  BY DEF NIdle, TunnelFits
<1>0. CASE UNCHANGED tunnelVars
  BY <1>0 DEF tunnelVars, FrontYields
<1>1. CASE Setup
  <2>1. ncmd.pc \notin {"add", "refresh"}
    BY <1>n, <1>1 DEF Setup, NBegin
  <2>2. claimed' = claimed /\ front' = front /\ gaps \subseteq gaps'
    BY <1>1 DEF Setup
  <2> QED BY <1>n, <2>1, <2>2 DEF FrontYields
<1>2. CASE SaveRemoteTunnelToken
  <2>1. ncmd.pc \notin {"add", "refresh"}
    BY <1>n, <1>2 DEF SaveRemoteTunnelToken, NBegin
  <2>2. claimed' = claimed /\ front' = front /\ gaps \subseteq gaps'
    BY <1>2 DEF SaveRemoteTunnelToken
  <2> QED BY <1>n, <2>1, <2>2 DEF FrontYields
<1>3. CASE ApplyRemote
  <2>1. ncmd.pc \notin {"add", "refresh"}
    BY <1>n, <1>3 DEF ApplyRemote, NBegin
  <2>2. claimed' = claimed /\ front' = front /\ gaps \subseteq gaps'
    BY <1>3 DEF ApplyRemote
  <2> QED BY <1>n, <2>1, <2>2 DEF FrontYields
<1>4. CASE HelmUpgradeCloudflared
  <2>1. ncmd.pc \notin {"add", "refresh"}
    BY <1>n, <1>4 DEF HelmUpgradeCloudflared, NBegin
  <2>2. claimed' = claimed /\ front' = front /\ gaps \subseteq gaps'
    BY <1>4 DEF HelmUpgradeCloudflared
  <2> QED BY <1>n, <2>1, <2>2 DEF FrontYields
<1>5. CASE SaveTunnelState
  <2>1. ncmd.pc \notin {"add", "refresh"}
    BY <1>n, <1>5 DEF SaveTunnelState, NBegin
  <2>2. claimed' = claimed /\ front' = front /\ gaps \subseteq gaps'
    BY <1>5 DEF SaveTunnelState
  <2> QED BY <1>n, <2>1, <2>2 DEF FrontYields
<1>6. CASE WaitReady
  <2>1. ncmd.pc \notin {"add", "refresh"}
    BY <1>n, <1>6 DEF WaitReady, NBegin
  <2>2. claimed' = claimed /\ front' = front /\ gaps \subseteq gaps'
    BY <1>6 DEF WaitReady
  <2> QED BY <1>n, <2>1, <2>2 DEF FrontYields
<1>7. CASE InjectBaseURL
  <2>1. ncmd.pc \notin {"add", "refresh"}
    BY <1>n, <1>7 DEF InjectBaseURL, NBegin
  <2>2. claimed' = claimed /\ front' = front /\ gaps \subseteq gaps'
    BY <1>7 DEF InjectBaseURL
  <2> QED BY <1>n, <2>1, <2>2 DEF FrontYields
<1>8. CASE SyncTunnelConfigMap
  <2>1. ncmd.pc \notin {"add", "refresh"}
    BY <1>n, <1>8 DEF SyncTunnelConfigMap, NBegin
  <2>2. claimed' = claimed /\ front' = front /\ gaps \subseteq gaps'
    BY <1>8 DEF SyncTunnelConfigMap
  <2> QED BY <1>n, <2>1, <2>2 DEF FrontYields
<1>9. CASE SyncStorefront
  <2>1. ncmd.pc = "storefront" /\ claimed' = claimed
    BY <1>9, TunnelMoves DEF SyncStorefront
  <2>4. CASE "cut" \in gaps' /\ front' = front
    BY <2>4 DEF FrontYields
  <2>5. CASE /\ front' = CreateStorefront(StorefrontHostnames(CurrentURL(pod)))
             /\ StorefrontHostnames(CurrentURL(pod)) = {} => gaps' = gaps
    BY <2>1, <2>5, Renders DEF FrontYields
  <2> QED BY <1>9, <2>4, <2>5 DEF SyncStorefront
<1>10. CASE Restart
  <2>1. ncmd.pc \notin {"add", "refresh"}
    BY <1>n, <1>10 DEF Restart, NBegin
  <2>2. claimed' = claimed /\ front' = front /\ gaps \subseteq gaps'
    BY <1>10 DEF Restart
  <2> QED BY <1>n, <2>1, <2>2 DEF FrontYields
<1>11. CASE RestorePersistentResources
  <2>1. ncmd.pc \notin {"add", "refresh"}
    BY <1>n, <1>11 DEF RestorePersistentResources, NBegin
  <2>2. claimed' = claimed /\ front' = front /\ gaps \subseteq gaps'
    BY <1>11 DEF RestorePersistentResources
  <2> QED BY <1>n, <2>1, <2>2 DEF FrontYields
<1>12. CASE RolloutRestart
  <2>1. ncmd.pc \notin {"add", "refresh"}
    BY <1>n, <1>12 DEF RolloutRestart, NBegin
  <2>2. claimed' = claimed /\ front' = front /\ gaps \subseteq gaps'
    BY <1>12 DEF RolloutRestart
  <2> QED BY <1>n, <2>1, <2>2 DEF FrontYields
<1>13. CASE Stop
  <2>1. ncmd.pc \notin {"add", "refresh"}
    BY <1>n, <1>13 DEF Stop, NBegin
  <2>2. claimed' = claimed /\ front' = front /\ gaps \subseteq gaps'
    BY <1>13 DEF Stop
  <2> QED BY <1>n, <2>1, <2>2 DEF FrontYields
<1>14. CASE DeleteTunnel
  <2>1. front' = {}
    BY <1>14, Renders DEF DeleteTunnel
  <2> QED BY <2>1 DEF FrontYields
<1>15. CASE DeleteTunnelState
  <2>1. ncmd.pc \notin {"add", "refresh"}
    BY <1>n, <1>15 DEF DeleteTunnelState, NBegin
  <2>2. claimed' = claimed /\ front' = front /\ gaps \subseteq gaps'
    BY <1>15 DEF DeleteTunnelState
  <2> QED BY <1>n, <2>1, <2>2 DEF FrontYields
<1>16. CASE DeleteEnds
  <2>1. ncmd.pc \notin {"add", "refresh"}
    BY <1>n, <1>16 DEF DeleteEnds, NBegin
  <2>2. claimed' = claimed /\ front' = front /\ gaps \subseteq gaps'
    BY <1>16 DEF DeleteEnds
  <2> QED BY <1>n, <2>1, <2>2 DEF FrontYields
<1>17. CASE AddHostname
  <2>1. \/ Begun("add", "add")
        \/ ncmd = NIdle /\ ~IsPersistent
        \/ ncmd = NIdle /\ \E h \in Hosts \ HostnameSet : claimed' \subseteq claimed \cup {h}
    BY <1>17, TunnelMoves
  <2>2. front' = front /\ gaps' = gaps /\ claimed' \subseteq claimed \cup Hosts
    BY <1>17 DEF AddHostname
  <2>3. CASE Begun("add", "add")
    BY <2>3 DEF FrontYields, Begun
  <2>4. CASE ncmd = NIdle /\ ~IsPersistent
    <3>1. front \cap Hosts = {}
      BY <2>4 DEF FrontTracked
    <3> QED BY <1>n, <2>2, <2>4, <3>1 DEF FrontYields
  <2>5. CASE ncmd = NIdle /\ \E h \in Hosts \ HostnameSet : claimed' \subseteq claimed \cup {h}
    <3>1. PICK h \in Hosts \ HostnameSet : claimed' \subseteq claimed \cup {h}
      BY <2>5
    <3>2. "cut" \notin gaps => h \notin front
      BY <1>n, <2>5, <3>1 DEF FrontTracked, At
    <3> QED BY <1>n, <2>2, <2>5, <3>1, <3>2 DEF FrontYields
  <2> QED BY <2>1, <2>3, <2>4, <2>5
<1>18. CASE AddedStorefront
  <2>1. ncmd.pc = "add" /\ OnTo("added")
    BY <1>18, TunnelMoves
  <2>2. claimed' = claimed /\ front' = (HostnameSet \cup {ncmd.host}) \ claimed
    BY <1>18, <2>1, Renders DEF AddedStorefront
  <2> QED BY <2>2 DEF FrontYields
<1>19. CASE AddedState
  <2>1. ncmd.pc \notin {"add", "refresh"}
    BY <1>n, <1>19 DEF AddedState, NBegin
  <2>2. claimed' = claimed /\ front' = front /\ gaps \subseteq gaps'
    BY <1>19 DEF AddedState
  <2> QED BY <1>n, <2>1, <2>2 DEF FrontYields
<1>20. CASE RemoveHostname
  <2>1. PICK h \in HostnameSet : claimed' = claimed /\ HostnameSet \ {h} # {} /\ front' = CreateStorefront(HostnameSet \ {h})
    BY <1>20 DEF RemoveHostname
  <2>2. front' = (HostnameSet \ {h}) \ claimed
    BY <2>1, Renders
  <2> QED BY <2>1, <2>2 DEF FrontYields
<1>21. CASE RemovedState
  <2>1. ncmd.pc \notin {"add", "refresh"}
    BY <1>n, <1>21 DEF RemovedState, NBegin
  <2>2. claimed' = claimed /\ front' = front /\ gaps \subseteq gaps'
    BY <1>21 DEF RemovedState
  <2> QED BY <1>n, <2>1, <2>2 DEF FrontYields
<1>22. CASE SellHTTP
  <2>1. ncmd.pc \notin {"add", "refresh"}
    BY <1>n, <1>22 DEF SellHTTP, NBegin
  <2>2. claimed' = claimed /\ front' = front /\ gaps \subseteq gaps'
    BY <1>22 DEF SellHTTP
  <2> QED BY <1>n, <2>1, <2>2 DEF FrontYields
<1>23. CASE ApplyOffer
  <2>1. /\ ncmd.pc = "bind"
        /\ \/ OnTo("refresh")
           \/ ncmd.host = 0
    BY <1>23, TunnelMoves
  <2>2. front' = front /\ gaps' = gaps /\ claimed' = claimed \cup ({ncmd.host} \ {0})
    BY <1>23 DEF ApplyOffer
  <2> QED BY <2>1, <2>2 DEF FrontYields, OnTo
<1>24. CASE RefreshStorefront
  <2>1. ncmd.pc = "refresh" /\ claimed' = claimed
    BY <1>24, TunnelMoves DEF RefreshStorefront
  <2>4. CASE "cut" \in gaps' /\ front' = front
    BY <2>4 DEF FrontYields
  <2>5. CASE front' = CreateStorefront(StorefrontHostnames(0)) /\ (IsPersistent \/ gaps' = gaps)
    <3>1. CASE IsPersistent
      <4>1. front' = HostnameSet \ claimed
        BY <2>5, <3>1, Renders, TunnelTracks
      <4> QED BY <2>1, <4>1 DEF FrontYields
    <3>2. CASE ~IsPersistent
      <4>1. front' = front
        BY <2>5, <3>2, Renders
      <4>2. front \cap Hosts = {} /\ claimed \subseteq Hosts
        BY <3>2 DEF FrontTracked, TunnelFits
      <4> QED BY <2>1, <4>1, <4>2 DEF FrontYields
    <3> QED BY <3>1, <3>2
  <2> QED BY <1>24, <2>4, <2>5 DEF RefreshStorefront
<1>25. CASE SellDeleteEndsTunnel
  <2>1. ncmd = NIdle
    BY <1>25, TunnelMoves
  <2>2. gaps' = gaps /\ front' \in {front, {}} /\ claimed' \subseteq claimed
    BY <1>25, Renders DEF SellDeleteEndsTunnel
  <2> QED BY <1>n, <2>1, <2>2 DEF FrontYields
<1>26. CASE StackUp
  <2>1. ncmd.pc \notin {"add", "refresh"}
    BY <1>n, <1>26 DEF StackUp, NBegin
  <2>2. claimed' = claimed /\ front' = front /\ gaps \subseteq gaps'
    BY <1>26 DEF StackUp
  <2> QED BY <1>n, <2>1, <2>2 DEF FrontYields
<1>27. CASE SyncStackConfigVersion
  <2>1. ncmd.pc \notin {"add", "refresh"}
    BY <1>n, <1>27 DEF SyncStackConfigVersion, NBegin
  <2>2. claimed' = claimed /\ front' = front /\ gaps \subseteq gaps'
    BY <1>27 DEF SyncStackConfigVersion
  <2> QED BY <1>n, <2>1, <2>2 DEF FrontYields
<1>28. CASE ReplayOffers
  <2>1. ncmd.pc = "replay" /\ front' = front
    BY <1>28 DEF ReplayOffers
  <2>2. /\ claimed' = claimed \cup ledgerHosts
        /\ gaps' = IF front \cap (ledgerHosts \ claimed) # {} THEN gaps \cup {"replayed"} ELSE gaps
    BY <1>28 DEF ReplayOffers
  <2> QED BY <2>1, <2>2 DEF FrontYields
<1>29. CASE RecreateCluster
  <2>1. front' = {}
    BY <1>29, Renders DEF RecreateCluster
  <2> QED BY <2>1 DEF FrontYields
<1>30. CASE TunnelCrash
  <2>1. "cut" \in gaps'
    BY <1>30 DEF TunnelCrash
  <2> QED BY <2>1 DEF FrontYields
<1>31. CASE ConnectorRestarts
  <2>1. ncmd.pc \notin {"add", "refresh"}
    BY <1>n, <1>31 DEF ConnectorRestarts, NBegin
  <2>2. claimed' = claimed /\ front' = front /\ gaps \subseteq gaps'
    BY <1>31 DEF ConnectorRestarts
  <2> QED BY <1>n, <2>1, <2>2 DEF FrontYields
<1> QED
  BY <1>0, <1>1, <1>2, <1>3, <1>4, <1>5, <1>6, <1>7, <1>8, <1>9, <1>10, <1>11, <1>12, <1>13,
     <1>14, <1>15, <1>16, <1>17, <1>18, <1>19, <1>20, <1>21, <1>22, <1>23, <1>24, <1>25, <1>26,
     <1>27, <1>28, <1>29, <1>30, <1>31 DEF TunnelNext

LEMMA URLStep ==
    ASSUME TunnelFits, PodFits, StateKept, URLKept, [TunnelNext]_tunnelVars
    PROVE  URLKept'
<1>t. tnl' = tnl => IsPersistent' = IsPersistent
  BY DEF IsPersistent
<1>n. NIdle.pc = "idle" /\ ncmd \in {NIdle} \cup TunnelCommands
  BY DEF NIdle, TunnelFits
<1>a. TunnelFits /\ PodFits /\ StateKept /\ [TunnelNext]_tunnelVars
  OBVIOUS
<1>0. CASE UNCHANGED tunnelVars
  BY <1>0, <1>t DEF tunnelVars, URLKept, At
<1>1. CASE Setup
  <2>1. Begun("setup", "token")
    BY <1>1, TunnelMoves
  <2>2. tnl' = tnl /\ pod' = pod /\ cmURL' = cmURL /\ ("url" \in gaps => "url" \in gaps')
    BY <1>1 DEF Setup
  <2> QED BY <1>t, <1>n, <2>1, <2>2, TunnelSteps DEF URLKept, At, Begun, OnTo, Over, SameCommand
<1>2. CASE SaveRemoteTunnelToken
  <2>1. ncmd.pc = "token" /\ OnTo("secret")
    BY <1>2, TunnelMoves
  <2>2. tnl' = tnl /\ pod' = pod /\ cmURL' = cmURL /\ ("url" \in gaps => "url" \in gaps')
    BY <1>2 DEF SaveRemoteTunnelToken
  <2> QED BY <1>t, <1>n, <2>1, <2>2, TunnelSteps DEF URLKept, At, Begun, OnTo, Over, SameCommand
<1>3. CASE ApplyRemote
  <2>1. ncmd.pc = "secret" /\ OnTo("helm")
    BY <1>3, TunnelMoves
  <2>2. tnl' = tnl /\ pod' = pod /\ cmURL' = cmURL /\ ("url" \in gaps => "url" \in gaps')
    BY <1>3 DEF ApplyRemote
  <2> QED BY <1>t, <1>n, <2>1, <2>2, TunnelSteps DEF URLKept, At, Begun, OnTo, Over, SameCommand
<1>4. CASE HelmUpgradeCloudflared
  <2>1. ncmd.pc = "helm" /\ ncmd # NIdle /\ SameCommand
    BY <1>4, TunnelMoves DEF OnTo
  <2>2. pod' = RolledPod /\ gaps' = gaps
    BY <1>4 DEF HelmUpgradeCloudflared, HelmUpgrade
  <2>3. At("up") /\ ncmd.was # 0 => "url" \in gaps
    BY <2>1 DEF URLKept, StateKept, RestoreSteps
  <2> QED BY <1>t, <2>1, <2>2, <2>3, PodRolls DEF URLKept, At, SameCommand
<1>5. CASE SaveTunnelState
  <2>1. ncmd.pc = "state" /\ OnTo("agent")
    BY <1>5, TunnelMoves
  <2>2. At("setup")
    BY <1>n, <2>1, TunnelSteps
  <2> QED BY <2>1, <2>2 DEF URLKept, At, OnTo, SameCommand
<1>6. CASE WaitReady
  <2>1. ncmd.pc = "wait" /\ (IF CurrentURL(pod') = 0 THEN AfterTunnel ELSE OnTo("agent"))
    BY <1>6, TunnelMoves
  <2>2. tnl' = tnl /\ gaps' = gaps
    BY <1>6 DEF WaitReady
  <2>3. At("up") /\ ncmd.was # 0 => "url" \in gaps
    BY <2>1 DEF URLKept, StateKept, WaitSteps
  <2>4. ncmd' = NIdle \/ SameCommand
    BY <1>n, <2>1, TunnelAfter DEF OnTo, Over
  <2>5. "url" \notin gaps' => ~(At("up")' /\ ncmd'.was # 0)
    BY <1>n, <2>1, <2>2, <2>3, <2>4 DEF At, SameCommand
  <2>6. CASE CurrentURL(pod') = 0
    <3>1. PodFits'
      BY <1>a, TunnelFitsStep
    <3>2. ~IsPersistent /\ pod' # NoTunnel => pod'.kind # "quick"
      BY <2>6, <3>1 DEF PodFits, CurrentURL
    <3> QED BY <1>t, <2>2, <2>5, <3>2 DEF URLKept
  <2>7. CASE CurrentURL(pod') # 0
    BY <2>1, <2>5, <2>7 DEF URLKept, OnTo
  <2> QED BY <2>6, <2>7
<1>7. CASE InjectBaseURL
  <2>1. ncmd.pc = "agent" /\ OnTo("configmap")
    BY <1>7, TunnelMoves
  <2>2. At("up") /\ ncmd.was # 0 => "url" \in gaps
    BY <2>1 DEF URLKept, StateKept, WaitSteps
  <2>3. gaps \subseteq gaps'
    BY <1>7 DEF InjectBaseURL
  <2> QED BY <2>1, <2>2, <2>3 DEF URLKept, At, OnTo, SameCommand
<1>8. CASE SyncTunnelConfigMap
  <2>1. ncmd.pc = "configmap" /\ OnTo("storefront")
    BY <1>8, TunnelMoves
  <2>2. At("up") /\ ncmd.was # 0 => "url" \in gaps
    BY <2>1 DEF URLKept, StateKept, WaitSteps
  <2>3. gaps \subseteq gaps' /\ tnl' = tnl /\ pod' = pod
    BY <1>8 DEF SyncTunnelConfigMap
  <2>4. "url" \in gaps' \/ cmURL' = CurrentURL(pod)
    BY <1>8 DEF SyncTunnelConfigMap
  <2>5. ~IsPersistent /\ pod # NoTunnel /\ pod.kind = "quick" => CurrentURL(pod) = pod.url
    BY TunnelTracks
  <2> QED BY <1>t, <2>1, <2>2, <2>3, <2>4, <2>5 DEF URLKept, At, OnTo, SameCommand
<1>9. CASE SyncStorefront
  <2>1. ncmd.pc = "storefront" /\ AfterTunnel
    BY <1>9, TunnelMoves
  <2>2. tnl' = tnl /\ pod' = pod /\ cmURL' = cmURL /\ ("url" \in gaps => "url" \in gaps')
    BY <1>9 DEF SyncStorefront
  <2>3. At("up") /\ ncmd.was # 0 => "url" \in gaps
    BY <2>1 DEF URLKept, StateKept, WaitSteps
  <2>4. ncmd' = NIdle \/ SameCommand
    BY <1>n, <2>1, TunnelAfter DEF OnTo, Over
  <2> QED BY <1>t, <1>n, <2>1, <2>2, <2>3, <2>4 DEF URLKept, At, SameCommand
<1>10. CASE Restart
  <2>1. Begun("restart", "restore") \/ Begun("restart", "rollout")
    BY <1>10, TunnelMoves
  <2>2. tnl' = tnl /\ pod' = pod /\ cmURL' = cmURL /\ ("url" \in gaps => "url" \in gaps')
    BY <1>10 DEF Restart
  <2> QED BY <1>t, <1>n, <2>1, <2>2, TunnelSteps DEF URLKept, At, Begun, OnTo, Over, SameCommand
<1>11. CASE RestorePersistentResources
  <2>1. ncmd.pc = "restore" /\ ncmd # NIdle /\ (SameCommand \/ Over)
    BY <1>n, <1>11, TunnelMoves DEF OnTo
  <2>2. tnl' = tnl /\ pod' = pod /\ cmURL' = cmURL /\ gaps' = gaps
    BY <1>11 DEF RestorePersistentResources
  <2>3. At("up") /\ ncmd.was # 0 => "url" \in gaps
    BY <2>1 DEF URLKept, StateKept, RestoreSteps
  <2> QED BY <1>t, <1>n, <2>1, <2>2, <2>3 DEF URLKept, At, SameCommand, Over
<1>12. CASE RolloutRestart
  <2>1. ncmd.pc = "rollout" /\ OnTo("wait") /\ At("restart")
    BY <1>n, <1>12, TunnelMoves, TunnelSteps
  <2> QED BY <2>1 DEF URLKept, At, OnTo, SameCommand
<1>13. CASE Stop
  <2>1. ncmd' = NIdle /\ pod' = NoTunnel
    BY <1>13 DEF Stop, NBegin
  <2> QED BY <2>1 DEF URLKept, At
<1>14. CASE DeleteTunnel
  <2>1. Begun("delete", "unstate")
    BY <1>14, TunnelMoves
  <2>2. tnl' = tnl /\ pod' = pod /\ cmURL' = cmURL /\ ("url" \in gaps => "url" \in gaps')
    BY <1>14 DEF DeleteTunnel
  <2> QED BY <1>t, <1>n, <2>1, <2>2, TunnelSteps DEF URLKept, At, Begun, OnTo, Over, SameCommand
<1>15. CASE DeleteTunnelState
  <2>1. ncmd.pc = "unstate" /\ OnTo("helm") /\ At("delete")
    BY <1>n, <1>15, TunnelMoves, TunnelSteps
  <2> QED BY <2>1 DEF URLKept, At, OnTo, SameCommand
<1>16. CASE DeleteEnds
  <2>1. ncmd.pc = "end" /\ Over
    BY <1>16, TunnelMoves
  <2>2. tnl' = tnl /\ pod' = pod /\ cmURL' = cmURL /\ ("url" \in gaps => "url" \in gaps')
    BY <1>16 DEF DeleteEnds
  <2> QED BY <1>t, <1>n, <2>1, <2>2, TunnelSteps DEF URLKept, At, Begun, OnTo, Over, SameCommand
<1>17. CASE AddHostname
  <2>1. \/ Begun("add", "add") /\ IsPersistent
        \/ ncmd = NIdle /\ Over /\ ~IsPersistent
        \/ ncmd = NIdle /\ Over /\ \E h \in Hosts \ HostnameSet : claimed' \subseteq claimed \cup {h}
    BY <1>17, TunnelMoves
  <2>2. tnl' = tnl /\ pod' = pod /\ cmURL' = cmURL /\ ("url" \in gaps => "url" \in gaps')
    BY <1>17 DEF AddHostname
  <2> QED BY <1>t, <1>n, <2>1, <2>2, TunnelSteps DEF URLKept, At, Begun, OnTo, Over, SameCommand
<1>18. CASE AddedStorefront
  <2>1. ncmd.pc = "add" /\ OnTo("added")
    BY <1>18, TunnelMoves
  <2>2. tnl' = tnl /\ pod' = pod /\ cmURL' = cmURL /\ ("url" \in gaps => "url" \in gaps')
    BY <1>18 DEF AddedStorefront
  <2> QED BY <1>t, <1>n, <2>1, <2>2, TunnelSteps DEF URLKept, At, Begun, OnTo, Over, SameCommand
<1>19. CASE AddedState
  <2>1. ncmd.pc = "added" /\ Over
    BY <1>19, TunnelMoves
  <2>2. At("add") /\ IsPersistent /\ ncmd.host \in Hosts
    BY <1>n, <2>1, TunnelSteps DEF StateKept
  <2>3. IsPersistent'
    BY <1>19, <2>2, HostsGrow
  <2> QED BY <2>1, <2>3 DEF URLKept, At, Over
<1>20. CASE RemoveHostname
  <2>1. Begun("remove", "removed")
    BY <1>20, TunnelMoves
  <2>2. tnl' = tnl /\ pod' = pod /\ cmURL' = cmURL /\ ("url" \in gaps => "url" \in gaps')
    BY <1>20 DEF RemoveHostname
  <2> QED BY <1>t, <1>n, <2>1, <2>2, TunnelSteps DEF URLKept, At, Begun, OnTo, Over, SameCommand
<1>21. CASE RemovedState
  <2>1. ncmd.pc = "removed" /\ Over
    BY <1>21, TunnelMoves
  <2>2. At("remove")
    BY <1>n, <2>1, TunnelSteps
  <2>3. IsPersistent'
    BY <1>21, <2>2, HostsShrink
  <2> QED BY <2>1, <2>3 DEF URLKept, At, Over
<1>22. CASE SellHTTP
  <2>1. Begun("sell", "wait") \/ Begun("sell", "bind")
    BY <1>22, TunnelMoves
  <2>2. tnl' = tnl /\ pod' = pod /\ cmURL' = cmURL /\ ("url" \in gaps => "url" \in gaps')
    BY <1>22 DEF SellHTTP
  <2> QED BY <1>t, <1>n, <2>1, <2>2, TunnelSteps DEF URLKept, At, Begun, OnTo, Over, SameCommand
<1>23. CASE ApplyOffer
  <2>1. ncmd.pc = "bind" /\ (\/ ncmd.host # 0 /\ OnTo("refresh")
                             \/ ncmd.host = 0 /\ OnTo("wait")
                             \/ ncmd.host = 0 /\ Over)
    BY <1>23, TunnelMoves
  <2>2. tnl' = tnl /\ pod' = pod /\ cmURL' = cmURL /\ ("url" \in gaps => "url" \in gaps')
    BY <1>23 DEF ApplyOffer
  <2> QED BY <1>t, <1>n, <2>1, <2>2, TunnelSteps DEF URLKept, At, Begun, OnTo, Over, SameCommand
<1>24. CASE RefreshStorefront
  <2>1. ncmd.pc = "refresh" /\ (OnTo("wait") \/ Over)
    BY <1>24, TunnelMoves
  <2>2. tnl' = tnl /\ pod' = pod /\ cmURL' = cmURL /\ ("url" \in gaps => "url" \in gaps')
    BY <1>24 DEF RefreshStorefront
  <2> QED BY <1>t, <1>n, <2>1, <2>2, TunnelSteps DEF URLKept, At, Begun, OnTo, Over, SameCommand
<1>25. CASE SellDeleteEndsTunnel
  <2>1. ncmd = NIdle /\ ncmd' = NIdle /\ tnl' = tnl /\ cmURL' = cmURL /\ gaps' = gaps /\ pod' \in {pod, NoTunnel}
    BY <1>25 DEF SellDeleteEndsTunnel, NBegin
  <2> QED BY <1>t, <2>1 DEF URLKept, At
<1>26. CASE StackUp
  <2>1. /\ ncmd = NIdle /\ tnl' = tnl /\ cmURL' = cmURL /\ gaps' = gaps
        /\ ncmd' = [pc |-> "version", name |-> "up", was |-> IF IsQuickTunnelHealthy THEN CurrentURL(pod) ELSE 0]
        /\ pod' = IF IsQuickTunnelHealthy THEN pod ELSE RolledPod
    BY <1>26 DEF StackUp, NBegin, HelmUpgrade, SkipsCloudflared
  <2>2. CASE IsQuickTunnelHealthy
    <3>1. ~IsPersistent /\ pod # NoTunnel /\ pod.kind = "quick" /\ CurrentURL(pod) = pod.url
      BY <2>2, TunnelTracks DEF IsQuickTunnelHealthy
    <3> QED BY <1>t, <1>n, <2>1, <2>2, <3>1 DEF URLKept, At
  <2>3. CASE ~IsQuickTunnelHealthy
    <3>1. pod' = NoTunnel \/ pod'.kind # "quick"
      BY <2>1, <2>3, PodRolls
    <3>2. ~(At("up")' /\ ncmd'.was # 0)
      BY <2>1, <2>3 DEF At
    <3> QED BY <3>1, <3>2 DEF URLKept
  <2> QED BY <2>2, <2>3
<1>27. CASE SyncStackConfigVersion
  <2>1. ncmd.pc = "version" /\ (OnTo("restore") \/ OnTo("replay"))
    BY <1>27, TunnelMoves
  <2>2. tnl' = tnl /\ pod' = pod /\ cmURL' = cmURL /\ gaps' = gaps
    BY <1>27 DEF SyncStackConfigVersion, TunnelURLKept
  <2>3. At("up")
    BY <1>n, <2>1, TunnelSteps
  <2> QED BY <1>t, <2>1, <2>2, <2>3 DEF URLKept, At, OnTo, SameCommand
<1>28. CASE ReplayOffers
  <2>1. ncmd.pc = "replay" /\ Over
    BY <1>28, TunnelMoves
  <2>2. tnl' = tnl /\ pod' = pod /\ cmURL' = cmURL /\ gaps \subseteq gaps'
    BY <1>28 DEF ReplayOffers
  <2> QED BY <1>t, <1>n, <2>1, <2>2 DEF URLKept, At, Over
<1>29. CASE RecreateCluster
  <2>1. ncmd' = NIdle /\ pod' = NoTunnel
    BY <1>29 DEF RecreateCluster
  <2> QED BY <2>1 DEF URLKept, At
<1>30. CASE TunnelCrash
  <2>1. "url" \in gaps'
    BY <1>30 DEF TunnelCrash
  <2> QED BY <2>1 DEF URLKept
<1>31. CASE ConnectorRestarts
  <2>1. "url" \in gaps'
    BY <1>31 DEF ConnectorRestarts
  <2> QED BY <2>1 DEF URLKept
<1> QED
  BY <1>0, <1>1, <1>2, <1>3, <1>4, <1>5, <1>6, <1>7, <1>8, <1>9, <1>10, <1>11, <1>12, <1>13,
     <1>14, <1>15, <1>16, <1>17, <1>18, <1>19, <1>20, <1>21, <1>22, <1>23, <1>24, <1>25, <1>26,
     <1>27, <1>28, <1>29, <1>30, <1>31 DEF TunnelNext

-----------------------------------------------------------------------------
(* The public tunnel: the theorem *)

LEMMA TunnelInitial == TunnelInit => TunnelIInv
<1> SUFFICES ASSUME TunnelInit  PROVE TunnelIInv
  OBVIOUS
<1>1. \A h \in Hosts : <<h>> \in HostLists
  BY OneHost
<1>2. TunnelFits
  BY <1>1 DEF TunnelInit, TunnelFits, Kinds
<1>3. PodFits /\ StateKept /\ FrontTracked /\ FrontYields /\ URLKept
  BY DEF TunnelInit, PodFits, StateKept, FrontTracked, FrontYields, URLKept, At, NIdle
<1> QED BY <1>2, <1>3 DEF TunnelIInv

LEMMA TunnelStep == TunnelIInv /\ [TunnelNext]_tunnelVars => TunnelIInv'
  BY TunnelFitsStep, StateStep, FrontTrackedStep, FrontYieldsStep, URLStep DEF TunnelIInv

LEMMA TunnelImplied == TunnelIInv => TunnelInv
<1> SUFFICES ASSUME TunnelIInv  PROVE TunnelInv
  OBVIOUS
<1>1. IsPersistent => tnl.hosts # <<>> /\ HostnameSet \subseteq Hosts
  BY TunnelTracks DEF TunnelIInv, HostLists
<1>2. TunnelTypeOK
  BY <1>1 DEF TunnelIInv, TunnelFits, TunnelTypeOK, Kinds
<1>3. StorefrontYieldsToOffers
  BY DEF TunnelIInv, FrontYields, StorefrontYieldsToOffers, NIdle
<1>4. QuickURLSurvivesUp
  BY DEF TunnelIInv, URLKept, QuickURLSurvivesUp, At
<1> QED BY <1>2, <1>3, <1>4 DEF TunnelInv

(***************************************************************************)
(* For every set of hostnames and tokens, and any number of commands and   *)
(* failures: between commands no hostname is both an offer's and the       *)
(* storefront's, unless one was cut short or offers were replayed over the *)
(* route, and stack up leaves a healthy quick tunnel its pod and its URL   *)
(* (tunnel.go:1192-1206, stack.go:534-541).                                *)
(***************************************************************************)
THEOREM TunnelHolds == TunnelSpec => []TunnelInv
<1>1. TunnelInit => TunnelIInv
  BY TunnelInitial
<1>2. TunnelIInv /\ [TunnelNext]_tunnelVars => TunnelIInv'
  BY TunnelStep
<1>3. TunnelIInv => TunnelInv
  BY TunnelImplied
<1> QED BY <1>1, <1>2, <1>3, PTL DEF TunnelSpec
=============================================================================
