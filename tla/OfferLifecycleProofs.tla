------------------------ MODULE OfferLifecycleProofs ------------------------
(***************************************************************************)
(* Proofs about the ServiceOffer reconciler: what it keeps of an offer, its *)
(* children and the published site is well formed, a deleted offer leaves  *)
(* nothing, a route that misses its limit Middleware is owed a reconcile,  *)
(* an offer that says Ready is routed, and a rich bundle is kept.          *)
(***************************************************************************)
EXTENDS OfferLifecycle, TLAPS

----------------------------------------------------------------------------
(***************************************************************************)
(* The inductive invariant.                                                *)
(***************************************************************************)

\* staticSiteMu is held by the one reconcile between its list and its write,
\* and only that reconcile has a listing.
Locked ==
    /\ \A q \in Offers : q \in lock <=> pc[q] = "publish"
    /\ \A q \in Offers : pc[q] # "publish" => listing[q] = NoListing

\* A reconcile runs for an object that exists and carries the finalizer.  Its
\* copy is no newer, it is of a deletion only when the object is being
\* deleted, and it has the object's spec as long as nobody moved the object.
CopyFits(o) ==
    /\ pc[o] # "idle" =>
         /\ obj[o].finalizer /\ Exists(o)
         /\ work[o].phase \in {"live", "deleting"}
         /\ work[o].phase = "deleting" => obj[o].phase = "deleting"
         /\ work[o].gen <= obj[o].gen
         /\ Unmoved(o) => work[o].spec = obj[o].spec
    /\ pc[o] \in {"decide", "waiting", "gate", "route", "status"} => work[o].phase = "live"
    /\ pc[o] = "finalize" => work[o].phase = "deleting"

\* Neither the published catalog nor any rebuild under way has an entry for o.
Unlisted(o) ==
    /\ site.cm.catalog[o] = NoEntry
    /\ \A q \in Offers : listing[q].catalog[o] = NoEntry

\* An object without the finalizer, or gone, has no children, no reconcile and
\* no entry.
BareIsBlank(o) ==
    /\ obj[o].phase = "absent" => ~obj[o].finalizer /\ seen[o].phase = "absent" /\ o \notin news
    /\ obj[o].phase = "deleting" => obj[o].finalizer
    /\ ~obj[o].finalizer => obj[o].st = NoStatus
    /\ ~obj[o].finalizer \/ obj[o].phase = "gone" =>
         kids[o] = NoKids /\ pc[o] = "idle" /\ Unlisted(o)

\* A deletion past its teardown has no children, past its list no entry in
\* what it is about to write, and past its write no entry anywhere.
DeletionEmpties(o) ==
    /\ work[o].phase = "deleting" /\ pc[o] \in {"list", "publish", "finalize"} => kids[o] = NoKids
    /\ work[o].phase = "deleting" /\ pc[o] = "publish" => listing[o].catalog[o] = NoEntry
    /\ pc[o] = "finalize" => Unlisted(o)

\* What the controller works on is in the informer's store.
StoreKnows(o) ==
    /\ o \in queue \cup timer \/ pc[o] # "idle" \/ obj[o].finalizer => seen[o].phase # "absent"
    /\ seen[o].phase = "gone" => obj[o].phase = "gone"

\* Some route of o refers to a limit Middleware that is missing.
Dangling(o) ==
    \E r \in {"route", "host"} :
        kids[o][r].at # NoHost /\ kids[o][r].limits /\ ~kids[o].filters
Owed(o) == o \in queue \cup news

\* Between the two halves of reconcileRoute the Middlewares are the wanted
\* ones; a reconcile that leaves a dangling route is not Ready; once it has
\* written its status, or stopped, the key is owed a reconcile.
DanglingIsOwed(o) ==
    /\ pc[o] = "route" => kids[o].filters = work[o].spec.limits
    /\ pc[o] = "status" /\ Dangling(o) => ~Ready(work[o].st)
    /\ pc[o] \in {"idle", "waiting", "list", "publish", "finalize"} /\ Dangling(o)
         => Owed(o) \/ ~AgentResolved(o)

\* A reconcile that tears the children down, or waits for its agent, has no
\* route in its status; one whose status will be Ready has made the routes of
\* its copy; and a Ready object has the routes of its spec unless the key is
\* owed a reconcile or has one that is still before its status.
ReadyHasRoutes(o) ==
    /\ pc[o] \in {"teardown", "waiting"} /\ work[o].phase = "live" => ~work[o].st.route
    /\ pc[o] = "status" /\ Ready(work[o].st) => RoutedAs(o, work[o].spec)
    /\ obj[o].phase = "live" /\ obj[o].st.ready /\ pc[o] \in {"idle", "list", "publish"}
         => Owed(o) \/ RoutedAs(o, obj[o].spec)

\* Only an offer that fronts a Service has a document of its own: the cache
\* says "nil" of agents only, and no agent has a rich bundle.
Probed(o) ==
    /\ cache[o] = "nil" => IsAgent(o)
    /\ cache[o] = "doc" \/ site.cm.bundle[o] = "rich" => ~IsAgent(o)

Kept(o) == /\ CopyFits(o) /\ BareIsBlank(o) /\ DeletionEmpties(o) /\ StoreKnows(o)
           /\ DanglingIsOwed(o) /\ ReadyHasRoutes(o) /\ Probed(o)

OfferIInv == TypeOK /\ Locked /\ \A o \in Offers : Kept(o)
----------------------------------------------------------------------------
(***************************************************************************)
(* The lock, and types.                                                    *)
(***************************************************************************)

USE DEF apiVars, workVars, siteVars, worldVars

\* Every step keeps the lock with the reconcile that publishes.
LEMMA LockedStep ==
  ASSUME TypeOK, Locked, [Next]_vars
  PROVE  Locked'
<1>1. ASSUME NEW o \in Offers, Create(o) \/ Edit(o) \/ Delete(o) \/ DrainEnds(o) \/
    UpstreamFlips(o) \/ AgentFlips(o) \/ TimerFires(o) \/ TraefikAccepts(o) \/
    InformerDelivers(o) \/ FetchMissing(o) \/ AddFinalizer(o) PROVE Locked'
  <2>1. lock' = lock /\ pc' = pc /\ listing' = listing
    <3>1. CASE Create(o) \/ Edit(o) \/ Delete(o)
      <4>1. CASE Create(o)
        BY <4>1 DEF Create
      <4>2. CASE Edit(o)
        BY <4>2 DEF Edit
      <4>3. CASE Delete(o)
        BY <4>3 DEF Delete
      <4> QED BY <3>1, <4>1, <4>2, <4>3
    <3>2. CASE DrainEnds(o) \/ UpstreamFlips(o) \/ AgentFlips(o)
      BY <3>2 DEF DrainEnds, UpstreamFlips, AgentFlips
    <3>3. CASE TimerFires(o) \/ TraefikAccepts(o) \/ InformerDelivers(o)
      BY <3>3 DEF TimerFires, TraefikAccepts, InformerDelivers
    <3>4. CASE FetchMissing(o) \/ AddFinalizer(o)
      BY <3>4 DEF FetchMissing, AddFinalizer
    <3> QED BY <1>1, <3>1, <3>2, <3>3, <3>4
  <2> QED BY <2>1 DEF Locked
<1>2. ASSUME NEW o \in Offers, Fetch(o) \/ FetchDeleting(o) \/ WaitForAgent(o) \/ Decide(o)
    PROVE Locked'
  BY <1>2 DEF Fetch, FetchDeleting, WaitForAgent, Decide, Take, Goto, SetStatus, Locked,
      TypeOK
<1>3. ASSUME NEW o \in Offers, DeleteRouteChildren(o) PROVE Locked'
  BY <1>3 DEF DeleteRouteChildren, Goto, Locked, TypeOK, AfterTeardown
<1>4. ASSUME NEW o \in Offers, TeardownFails(o) \/ ChildFails(o) \/ StatusConflicts(o) \/
    RemoveFinalizer(o) PROVE Locked'
  BY <1>4 DEF TeardownFails, ChildFails, StatusConflicts, RemoveFinalizer, Event, Done,
      Locked, TypeOK
<1>5. ASSUME NEW o \in Offers, GateAndFilters(o) \/ PublishRoute(o) PROVE Locked'
  BY <1>5 DEF GateAndFilters, PublishRoute, SetStatus, Goto, Locked, TypeOK
<1>6. ASSUME NEW o \in Offers, WriteStatus(o) PROVE Locked'
  BY <1>6 DEF WriteStatus, Goto, RefreshDocument, Locked, TypeOK
<1>7. ASSUME NEW o \in Offers, ListOffers(o) PROVE Locked'
  <2>1. lock = {} /\ lock' = {o} /\ pc' = [pc EXCEPT ![o] = "publish"]
    BY <1>7 DEF ListOffers, Goto, Unlocked
  <2>2. \A q \in Offers \ {o} : listing'[q] = listing[q]
    BY <1>7 DEF ListOffers, TypeOK
  <2> QED BY <2>1, <2>2 DEF Locked, TypeOK
<1>8. ASSUME NEW o \in Offers, PublishSite(o) \/ PublishSiteBlind(o) \/ PublishSiteFails(o)
    PROVE Locked'
  <2>1. lock' = lock \ {o} /\ listing' = [listing EXCEPT ![o] = NoListing] /\ pc[o] = "publish"
    BY <1>8 DEF PublishSite, PublishSiteBlind, PublishSiteFails, ReleaseSite
  <2>2. pc' = [pc EXCEPT ![o] = "finalize"] \/ pc' = [pc EXCEPT ![o] = "idle"]
    BY <1>8 DEF PublishSite, PublishSiteBlind, PublishSiteFails, ReleaseSite, Goto, Done
  <2> QED BY <2>1, <2>2 DEF Locked, TypeOK
<1>9. CASE GatewayFlips \/ BaseURLMoves \/ DiscoveryRefresh
  BY <1>9 DEF GatewayFlips, BaseURLMoves, DiscoveryRefresh, Event, Locked
<1>10. CASE Restart
  BY <1>10 DEF Restart, Event, Locked
<1>11. CASE UNCHANGED vars
  BY <1>11 DEF vars, Locked
<1> QED BY <1>1, <1>2, <1>3, <1>4, <1>5, <1>6, <1>7, <1>8, <1>9, <1>10, <1>11 DEF Next,
    User, World, Dequeue, Reconcile

\* The empty values have their types.
LEMMA Blanks ==
  /\ NoStatus \in StatusOf /\ NoSpec \in SpecOf /\ Absent \in Offer
  /\ NoRoute \in RouteOf /\ NoKids \in Kids /\ NoEntry \in Entry
  /\ NoContent \in Content
  /\ NoListing \in [catalog: [Offers -> Entry], hosted: SUBSET Offers, edition: Nat]
<1>1. NoStatus \in StatusOf /\ NoSpec \in SpecOf /\ NoRoute \in RouteOf /\ NoEntry \in Entry
  BY DEF NoStatus, StatusOf, NoSpec, SpecOf, NoRoute, RouteOf, NoEntry, Entry, Availability
<1> QED BY <1>1 DEF Absent, Offer, NoKids, Kids, NoContent, Content, NoListing


\* A status of the right type may be put into the copy.
LEMMA StatusTyped ==
  ASSUME TypeOK, NEW o \in Offers, NEW st \in StatusOf
  PROVE  [work EXCEPT ![o].st = st] \in [Offers -> Offer]
<1>1. work[o] \in Offer
  BY DEF TypeOK
<1>2. [work[o] EXCEPT !.st = st] \in Offer
  BY <1>1 DEF Offer
<1> QED BY <1>2 DEF TypeOK

\* An edited spec is a spec.
LEMMA EditedTyped == ASSUME NEW s \in SpecOf PROVE Edited(s) \subseteq SpecOf
<1>1. /\ \A v \in Paths : [s EXCEPT !.path = v] \in SpecOf
      /\ \A v \in Hosts \cup {NoHost} : [s EXCEPT !.host = v] \in SpecOf
      /\ \A v \in BOOLEAN : [s EXCEPT !.limits = v] \in SpecOf
      /\ \A v \in BOOLEAN : [s EXCEPT !.model = v] \in SpecOf
      /\ \A v \in {"no", "window", "ended"} : [s EXCEPT !.drain = v] \in SpecOf
  BY DEF SpecOf
<1>2. \A field, values : If(field, values) \subseteq values
  BY DEF If
<1> QED BY <1>1, <1>2 DEF Edited

\* The routes of a spec, applied or left as they are, are routes.
LEMMA RoutesTyped ==
  ASSUME TypeOK, NEW o \in Offers
  PROVE  LET s == work[o].spec
             route == Applied(kids[o].route, SharedOriginRoute(s))
             host == IF ~RouteAccepted(route) THEN kids[o].host
                     ELSE IF s.host = NoHost THEN NoRoute
                     ELSE Applied(kids[o].host, HostRoute(s))
         IN  route \in RouteOf /\ host \in RouteOf
<1>1. /\ kids[o].route \in RouteOf /\ kids[o].host \in RouteOf
      /\ work[o].spec.path \in Paths \cup {NoHost} /\ work[o].spec.host \in Hosts \cup {NoHost}
      /\ work[o].spec.limits \in BOOLEAN
  BY DEF TypeOK, Kids, Offer, SpecOf
<1>2. \A rt \in RouteOf : \A at \in Paths \cup Hosts \cup {NoHost} : \A b \in BOOLEAN :
        Applied(rt, [at |-> at, limits |-> b]) \in RouteOf
  BY DEF Applied, RouteOf
<1> QED BY <1>1, <1>2, Blanks DEF SharedOriginRoute, HostRoute

\* An entry of the catalog is one.
LEMMA EntryTyped == \A q \in Offers : CatalogEntry(q) \in Entry
<1>1. \A q \in Offers : AvailabilityOf(q) \in Availability /\ Included(q) \in BOOLEAN
  BY DEF AvailabilityOf, Availability, Included
<1> QED BY <1>1 DEF CatalogEntry, SkillMarkdown, ServiceCatalog, OpenAPIDocument,
    AggregateWellKnown, Entry

\* What a rebuild renders is content, and so is a site that gets it.
LEMMA RenderedTyped ==
  ASSUME TypeOK, NEW o \in Offers,
         NEW published \in [Offers -> {"none", "thin", "rich"}]
  PROVE  Rendered(o, published) \in Content
<1>1. \A q \in Offers : BundleOf(o, q, published) \in {"none", "thin", "rich"}
  BY DEF BundleOf
<1>2. listing[o] \in [catalog: [Offers -> Entry], hosted: SUBSET Offers, edition: Nat]
  BY DEF TypeOK
<1> QED BY <1>1, <1>2 DEF Rendered, Content

\* What a status, a site or a probe of an offer may hold.
LEMMA SitesTyped ==
  ASSUME TypeOK
  PROVE  /\ site.cm.bundle \in [Offers -> {"none", "thin", "rich"}]
         /\ [q \in Offers |-> "none"] \in [Offers -> {"none", "thin", "rich"}]
         /\ \A new \in Content : \A n \in 0..Len(SiteObjects) :
              [cm |-> new, applied |-> n] \in [cm: Content, applied: 0..Len(SiteObjects)]
         /\ Len(SiteObjects) \in 0..Len(SiteObjects)
         /\ 0..(Len(SiteObjects) - 1) \subseteq 0..Len(SiteObjects)
<1>1. Len(SiteObjects) \in Nat
  BY DEF SiteObjects, StaticSiteWorkload, StaticSiteRoutes
<1> QED BY <1>1 DEF TypeOK, Content


\* Every step keeps the types.
LEMMA TypeStep ==
  ASSUME TypeOK, [Next]_vars
  PROVE  TypeOK'
<1>1. ASSUME NEW o \in Offers, Create(o) PROVE TypeOK'
  <2>1. obj' \in [Offers -> Offer]
    <3>1. PICK path \in Paths \ Reserved, host \in Hosts \cup {NoHost}, born \in Instants :
            obj' = [obj EXCEPT ![o] =
              [Absent EXCEPT !.phase = "live", !.gen = 1, !.born = born,
                 !.spec = [NoSpec EXCEPT !.path = path, !.host = host, !.limits = o \in Limited]]]
      BY <1>1 DEF Create
    <3>2. born \in Nat
      BY SMTT(30) DEF Instants, TypeOK, Offer
    <3>3. \A b \in BOOLEAN :
            [NoSpec EXCEPT !.path = path, !.host = host, !.limits = b] \in SpecOf
      BY DEF NoSpec, SpecOf
    <3>4. [NoSpec EXCEPT !.path = path, !.host = host, !.limits = o \in Limited] \in SpecOf
      <4>1. (o \in Limited) \in BOOLEAN
        OBVIOUS
      <4> QED BY <3>3, <4>1, Zenon
    <3>5. \A s \in SpecOf :
            [Absent EXCEPT !.phase = "live", !.gen = 1, !.born = born, !.spec = s] \in Offer
      BY <3>2, Blanks DEF Absent, Offer
    <3> QED BY <3>1, <3>4, <3>5 DEF TypeOK
  <2>2. news' \subseteq Offers
    BY <1>1 DEF Create, TypeOK
  <2>3. UNCHANGED <<seen, queue, timer, pc, work, kids, cache, lock, listing, site,
      edition, notice, env, left>>
    BY <1>1 DEF Create
  <2> QED BY <2>1, <2>2, <2>3 DEF TypeOK
<1>2. ASSUME NEW o \in Offers, Edit(o) PROVE TypeOK'
  <2>1. obj' \in [Offers -> Offer]
    <3>1. PICK s \in Edited(obj[o].spec) : obj' = [obj EXCEPT ![o].spec = s, ![o].gen = @ + 1]
      BY <1>2 DEF Edit
    <3>2. obj[o] \in Offer /\ obj[o].spec \in SpecOf /\ obj[o].gen + 1 \in Nat
      BY DEF TypeOK, Offer
    <3>3. s \in SpecOf
      BY <3>1, <3>2, EditedTyped
    <3>4. [obj[o] EXCEPT !.spec = s, !.gen = @ + 1] \in Offer
      BY <3>2, <3>3 DEF Offer
    <3> QED BY <3>1, <3>4 DEF TypeOK
  <2>2. news' \subseteq Offers
    BY <1>2 DEF Edit, Event, TypeOK
  <2>3. left' \in Nat
    BY <1>2 DEF Edit, Event, TypeOK
  <2>4. UNCHANGED <<seen, queue, timer, pc, work, kids, cache, lock, listing, site,
      edition, notice, env>>
    BY <1>2 DEF Edit, Event
  <2> QED BY <2>1, <2>2, <2>3, <2>4 DEF TypeOK
<1>3. ASSUME NEW o \in Offers, Delete(o) PROVE TypeOK'
  <2>1. obj' \in [Offers -> Offer]
    <3>1. obj[o] \in Offer /\ obj[o].gen + 1 \in Nat
      BY DEF TypeOK, Offer
    <3>2. \A ph \in {"deleting", "gone"} : [obj[o] EXCEPT !.gen = @ + 1, !.phase = ph] \in Offer
      BY <3>1 DEF Offer
    <3> QED BY <1>3, <3>1, <3>2 DEF Delete, TypeOK
  <2>2. news' \subseteq Offers
    BY <1>3 DEF Delete, Event, TypeOK
  <2>3. left' \in Nat
    BY <1>3 DEF Delete, Event, TypeOK
  <2>4. UNCHANGED <<seen, queue, timer, pc, work, kids, cache, lock, listing, site,
      edition, notice, env>>
    BY <1>3 DEF Delete, Event
  <2> QED BY <2>1, <2>2, <2>3, <2>4 DEF TypeOK
<1>4. ASSUME NEW o \in Offers, DrainEnds(o) PROVE TypeOK'
  <2>1. obj' \in [Offers -> Offer]
    <3>1. obj[o] \in Offer /\ obj[o].spec \in SpecOf
      BY DEF TypeOK, Offer
    <3>2. [obj[o].spec EXCEPT !.drain = "ended"] \in SpecOf
      BY <3>1 DEF SpecOf
    <3>3. [obj[o] EXCEPT !.spec.drain = "ended"] \in Offer
      BY <3>1, <3>2 DEF Offer
    <3> QED BY <1>4, <3>1, <3>3 DEF DrainEnds, TypeOK
  <2>2. work' \in [Offers -> Offer]
    <3>1. work[o] \in Offer /\ work[o].spec \in SpecOf
      BY DEF TypeOK, Offer
    <3>2. [work[o].spec EXCEPT !.drain = "ended"] \in SpecOf
      BY <3>1 DEF SpecOf
    <3>3. [work[o] EXCEPT !.spec.drain = "ended"] \in Offer
      BY <3>1, <3>2 DEF Offer
    <3> QED BY <1>4, <3>1, <3>3 DEF DrainEnds, TypeOK
  <2>3. UNCHANGED <<seen, news, queue, timer, pc, kids, cache, lock, listing, site,
      edition, notice, env, left>>
    BY <1>4 DEF DrainEnds
  <2> QED BY <2>1, <2>2, <2>3 DEF TypeOK
<1>5. ASSUME NEW o \in Offers, UpstreamFlips(o) PROVE TypeOK'
  <2>1. left' \in Nat
    BY <1>5 DEF UpstreamFlips, Event, TypeOK
  <2>2. env' \in [healthy: SUBSET Offers, agents: SUBSET AgentOffers, gateway: BOOLEAN]
    BY <1>5 DEF UpstreamFlips, Event, TypeOK
  <2>3. UNCHANGED <<obj, seen, news, queue, timer, pc, work, kids, cache, lock, listing,
      site, edition, notice>>
    BY <1>5 DEF UpstreamFlips, Event
  <2> QED BY <2>1, <2>2, <2>3 DEF TypeOK
<1>6. ASSUME NEW o \in Offers, AgentFlips(o) PROVE TypeOK'
  <2>1. left' \in Nat
    BY <1>6 DEF AgentFlips, Event, TypeOK
  <2>2. env' \in [healthy: SUBSET Offers, agents: SUBSET AgentOffers, gateway: BOOLEAN]
    BY <1>6 DEF AgentFlips, IsAgent, TypeOK
  <2>3. queue' \subseteq Offers
    BY <1>6 DEF AgentFlips, Event, TypeOK
  <2>4. UNCHANGED <<obj, seen, news, timer, pc, work, kids, cache, lock, listing, site,
      edition, notice>>
    BY <1>6 DEF AgentFlips, Event
  <2> QED BY <2>1, <2>2, <2>3, <2>4 DEF TypeOK
<1>7. ASSUME NEW o \in Offers, TimerFires(o) PROVE TypeOK'
  <2>1. timer' \subseteq Offers
    BY <1>7 DEF TimerFires, TypeOK
  <2>2. queue' \subseteq Offers
    BY <1>7 DEF TimerFires, TypeOK
  <2>3. UNCHANGED <<obj, seen, news, pc, work, kids, cache, lock, listing, site, edition,
      notice, env, left>>
    BY <1>7 DEF TimerFires
  <2> QED BY <2>1, <2>2, <2>3 DEF TypeOK
<1>8. ASSUME NEW o \in Offers, TraefikAccepts(o) PROVE TypeOK'
  <2>1. kids' \in [Offers -> Kids]
    <3>1. PICK r \in {"route", "host"} : kids' = [kids EXCEPT ![o][r].accepted = TRUE]
      BY <1>8 DEF TraefikAccepts
    <3>2. kids[o] \in Kids /\ \A rt \in RouteOf : [rt EXCEPT !.accepted = TRUE] \in RouteOf
      BY DEF TypeOK, RouteOf
    <3>3. [kids[o] EXCEPT ![r].accepted = TRUE] \in Kids
      <4>1. CASE r = "route"
        BY <3>2, <4>1 DEF Kids
      <4>2. CASE r = "host"
        BY <3>2, <4>2 DEF Kids
      <4> QED BY <4>1, <4>2
    <3> QED BY <3>1, <3>3 DEF TypeOK
  <2>2. UNCHANGED <<obj, seen, news, queue, timer, pc, work, cache, lock, listing, site,
      edition, notice, env, left>>
    BY <1>8 DEF TraefikAccepts
  <2> QED BY <2>1, <2>2 DEF TypeOK
<1>9. ASSUME NEW o \in Offers, InformerDelivers(o) PROVE TypeOK'
  <2>1. news' \subseteq Offers
    BY <1>9 DEF InformerDelivers, TypeOK
  <2>2. seen' \in [Offers -> View]
    BY <1>9 DEF InformerDelivers, TypeOK, View, Offer, SpecOf
  <2>3. queue' \subseteq Offers
    BY <1>9 DEF InformerDelivers, TypeOK
  <2>4. UNCHANGED <<obj, timer, pc, work, kids, cache, lock, listing, site, edition,
      notice, env, left>>
    BY <1>9 DEF InformerDelivers
  <2> QED BY <2>1, <2>2, <2>3, <2>4 DEF TypeOK
<1>10. ASSUME NEW o \in Offers, FetchMissing(o) PROVE TypeOK'
  <2>1. queue' \subseteq Offers
    BY <1>10 DEF FetchMissing, Take, TypeOK
  <2>2. UNCHANGED <<obj, seen, news, timer, pc, work, kids, cache, lock, listing, site,
      edition, notice, env, left>>
    BY <1>10 DEF FetchMissing, Take
  <2> QED BY <2>1, <2>2 DEF TypeOK
<1>11. ASSUME NEW o \in Offers, AddFinalizer(o) PROVE TypeOK'
  <2>1. obj' \in [Offers -> Offer]
    <3>1. obj[o] \in Offer
      BY DEF TypeOK
    <3>2. [obj[o] EXCEPT !.finalizer = TRUE] \in Offer
      BY <3>1 DEF Offer
    <3> QED BY <1>11, <3>2 DEF AddFinalizer, TypeOK
  <2>2. UNCHANGED <<seen, news, queue, timer, pc, work, kids, cache, lock, listing, site,
      edition, notice, env, left>>
    BY <1>11 DEF AddFinalizer, Take
  <2> QED BY <2>1, <2>2 DEF TypeOK
<1>12. ASSUME NEW o \in Offers, Fetch(o) PROVE TypeOK'
  <2>1. queue' \subseteq Offers
    BY <1>12 DEF Fetch, Take, Goto, TypeOK
  <2>2. work' \in [Offers -> Offer]
    <3>1. obj[o] \in Offer /\ obj[o].st \in StatusOf /\ obj[o].gen \in Nat
      BY DEF TypeOK, Offer
    <3>2. [obj[o].st EXCEPT !.obs = obj[o].gen] \in StatusOf
      BY <3>1 DEF StatusOf
    <3>3. [obj[o] EXCEPT !.st.obs = obj[o].gen] \in Offer
      BY <3>1, <3>2 DEF Offer
    <3> QED BY <1>12, <3>3 DEF Fetch, TypeOK
  <2>3. pc' \in [Offers -> Stage]
    BY <1>12 DEF Fetch, Take, Goto, TypeOK, Stage
  <2>4. UNCHANGED <<obj, seen, news, timer, kids, cache, lock, listing, site, edition,
      notice, env, left>>
    BY <1>12 DEF Fetch, Take, Goto
  <2> QED BY <2>1, <2>2, <2>3, <2>4 DEF TypeOK
<1>13. ASSUME NEW o \in Offers, FetchDeleting(o) PROVE TypeOK'
  <2>1. queue' \subseteq Offers
    BY <1>13 DEF FetchDeleting, Take, Goto, TypeOK
  <2>2. work' \in [Offers -> Offer]
    BY <1>13 DEF FetchDeleting, Take, Goto, TypeOK, Offer
  <2>3. pc' \in [Offers -> Stage]
    BY <1>13 DEF FetchDeleting, Take, Goto, TypeOK, Stage
  <2>4. UNCHANGED <<obj, seen, news, timer, kids, cache, lock, listing, site, edition,
      notice, env, left>>
    BY <1>13 DEF FetchDeleting, Take, Goto
  <2> QED BY <2>1, <2>2, <2>3, <2>4 DEF TypeOK
<1>14. ASSUME NEW o \in Offers, WaitForAgent(o) PROVE TypeOK'
  <2>1. work' \in [Offers -> Offer]
    <3>1. work[o].gen \in Nat
      BY DEF TypeOK, Offer
    <3>2. [NoStatus EXCEPT !.obs = work[o].gen] \in StatusOf
      BY <3>1, Blanks DEF StatusOf
    <3> QED BY <1>14, <3>2, StatusTyped DEF WaitForAgent, SetStatus
  <2>2. pc' \in [Offers -> Stage]
    BY <1>14 DEF WaitForAgent, SetStatus, Goto, TypeOK, Stage
  <2>3. UNCHANGED <<obj, seen, news, queue, timer, kids, cache, lock, listing, site,
      edition, notice, env, left>>
    BY <1>14 DEF WaitForAgent, SetStatus, Goto
  <2> QED BY <2>1, <2>2, <2>3 DEF TypeOK
<1>15. ASSUME NEW o \in Offers, Decide(o) PROVE TypeOK'
  <2>1. work' \in [Offers -> Offer]
    <3> DEFINE st == [work[o].st EXCEPT !.model = ModelReady(o), !.up = UpstreamHealthy(o)]
    <3>1. work[o].st \in StatusOf /\ ModelReady(o) \in BOOLEAN /\ UpstreamHealthy(o) \in BOOLEAN
      BY DEF TypeOK, Offer, SpecOf, ModelReady, UpstreamHealthy, IsAgent
    <3>2. st \in StatusOf
      BY <3>1 DEF StatusOf
    <3> HIDE DEF st
    <3>3. [st EXCEPT !.gate = FALSE, !.route = FALSE] \in StatusOf
      BY <3>2 DEF StatusOf
    <3>4. \E s \in StatusOf : SetStatus(o, s)
      BY <1>15, <3>2, <3>3 DEF Decide, st
    <3> QED BY <3>4, StatusTyped DEF SetStatus
  <2>2. pc' \in [Offers -> Stage]
    BY <1>15, ZenonT(60) DEF Decide, SetStatus, Goto, TypeOK, Stage
  <2>3. timer' \subseteq Offers
    BY <1>15 DEF Decide, SetStatus, Goto, TypeOK
  <2>4. UNCHANGED <<obj, seen, news, queue, kids, cache, lock, listing, site, edition,
      notice, env, left>>
    BY <1>15 DEF Decide, SetStatus, Goto
  <2> QED BY <2>1, <2>2, <2>3, <2>4 DEF TypeOK
<1>16. ASSUME NEW o \in Offers, DeleteRouteChildren(o) PROVE TypeOK'
  <2>1. kids' \in [Offers -> Kids]
    BY <1>16, Blanks DEF DeleteRouteChildren, TypeOK
  <2>2. pc' \in [Offers -> Stage]
    BY <1>16 DEF DeleteRouteChildren, Goto, AfterTeardown, TypeOK, Stage
  <2>3. UNCHANGED <<obj, seen, news, queue, timer, work, cache, lock, listing, site,
      edition, notice, env, left>>
    BY <1>16 DEF DeleteRouteChildren, Goto
  <2> QED BY <2>1, <2>2, <2>3 DEF TypeOK
<1>17. ASSUME NEW o \in Offers, TeardownFails(o) PROVE TypeOK'
  <2>1. left' \in Nat
    BY <1>17 DEF TeardownFails, Event, Done, TypeOK
  <2>2. kids' \in [Offers -> Kids]
    <3> DEFINE k == [kids[o] EXCEPT !.grant = FALSE]
    <3>1. kids[o] \in Kids
      BY DEF TypeOK
    <3>2. k \in Kids
      BY <3>1 DEF Kids
    <3> HIDE DEF k
    <3>3. [k EXCEPT !.route = NoRoute] \in Kids
      BY <3>2, Blanks DEF Kids
    <3>4. [k EXCEPT !.route = NoRoute, !.host = NoRoute] \in Kids
      BY <3>2, Blanks DEF Kids
    <3>5. \E some \in Kids : kids' = [kids EXCEPT ![o] = some]
      BY <1>17, <3>1, <3>2, <3>3, <3>4 DEF TeardownFails, k
    <3> QED BY <3>5 DEF TypeOK
  <2>3. pc' \in [Offers -> Stage]
    BY <1>17 DEF TeardownFails, Event, Done, TypeOK, Stage
  <2>4. work' \in [Offers -> Offer]
    BY <1>17, Blanks DEF TeardownFails, Event, Done, TypeOK
  <2>5. queue' \subseteq Offers
    BY <1>17 DEF TeardownFails, Event, Done, TypeOK
  <2>6. UNCHANGED <<obj, seen, news, timer, cache, lock, listing, site, edition, notice,
      env>>
    BY <1>17 DEF TeardownFails, Event, Done
  <2> QED BY <2>1, <2>2, <2>3, <2>4, <2>5, <2>6 DEF TypeOK
<1>18. ASSUME NEW o \in Offers, GateAndFilters(o) PROVE TypeOK'
  <2>1. kids' \in [Offers -> Kids]
    <3>1. kids[o] \in Kids /\ work[o].spec.limits \in BOOLEAN
      BY DEF TypeOK, Offer, SpecOf
    <3>2. PICK b \in BOOLEAN : kids' = [kids EXCEPT ![o].grant = TRUE, ![o].filters = b]
      <4>1. kids[o].filters \in BOOLEAN
        BY <3>1 DEF Kids
      <4>2. CASE env.gateway
        BY <1>18, <3>1, <4>2 DEF GateAndFilters, ReferenceGrant, LimitMiddlewares
      <4>3. CASE ~env.gateway
        BY <1>18, <4>1, <4>3 DEF GateAndFilters, ReferenceGrant
      <4> QED BY <4>2, <4>3
    <3>3. [kids[o] EXCEPT !.grant = TRUE, !.filters = b] \in Kids
      BY <3>1 DEF Kids
    <3> QED BY <3>2, <3>3 DEF TypeOK
  <2>2. work' \in [Offers -> Offer]
    <3>1. work[o].st \in StatusOf /\ env.gateway \in BOOLEAN
      BY DEF TypeOK, Offer
    <3>2. [work[o].st EXCEPT !.gate = env.gateway] \in StatusOf
      BY <3>1 DEF StatusOf
    <3> QED BY <1>18, <3>2, StatusTyped DEF GateAndFilters, SetStatus
  <2>3. pc' \in [Offers -> Stage]
    BY <1>18 DEF GateAndFilters, SetStatus, Goto, TypeOK, Stage
  <2>4. UNCHANGED <<obj, seen, news, queue, timer, cache, lock, listing, site, edition,
      notice, env, left>>
    BY <1>18 DEF GateAndFilters, SetStatus, Goto
  <2> QED BY <2>1, <2>2, <2>3, <2>4 DEF TypeOK
<1>19. ASSUME NEW o \in Offers, PublishRoute(o) PROVE TypeOK'
  <2>1. kids' \in [Offers -> Kids]
    <3>1. PICK route \in RouteOf, host \in RouteOf :
             kids' = [kids EXCEPT ![o].route = route, ![o].host = host]
      BY <1>19, RoutesTyped DEF PublishRoute
    <3>2. kids[o] \in Kids
      BY DEF TypeOK
    <3>3. [kids[o] EXCEPT !.route = route, !.host = host] \in Kids
      BY <3>2 DEF Kids
    <3> QED BY <3>1, <3>3 DEF TypeOK
  <2>2. work' \in [Offers -> Offer]
    <3>1. work[o].st \in StatusOf
      BY DEF TypeOK, Offer
    <3>2. PICK b \in BOOLEAN : SetStatus(o, [work[o].st EXCEPT !.route = b])
      BY <1>19 DEF PublishRoute
    <3>3. [work[o].st EXCEPT !.route = b] \in StatusOf
      BY <3>1 DEF StatusOf
    <3> QED BY <3>2, <3>3, StatusTyped DEF SetStatus
  <2>3. pc' \in [Offers -> Stage]
    BY <1>19 DEF PublishRoute, SetStatus, Goto, TypeOK, Stage
  <2>4. UNCHANGED <<obj, seen, news, queue, timer, cache, lock, listing, site, edition,
      notice, env, left>>
    BY <1>19 DEF PublishRoute, SetStatus, Goto
  <2> QED BY <2>1, <2>2, <2>3, <2>4 DEF TypeOK
<1>20. ASSUME NEW o \in Offers, ChildFails(o) PROVE TypeOK'
  <2>1. left' \in Nat
    BY <1>20 DEF ChildFails, Event, Done, TypeOK
  <2>2. pc' \in [Offers -> Stage]
    BY <1>20 DEF ChildFails, Event, Done, TypeOK, Stage
  <2>3. work' \in [Offers -> Offer]
    BY <1>20, Blanks DEF ChildFails, Event, Done, TypeOK
  <2>4. queue' \subseteq Offers
    BY <1>20 DEF ChildFails, Event, Done, TypeOK
  <2>5. UNCHANGED <<obj, seen, news, timer, kids, cache, lock, listing, site, edition,
      notice, env>>
    BY <1>20 DEF ChildFails, Event, Done
  <2> QED BY <2>1, <2>2, <2>3, <2>4, <2>5 DEF TypeOK
<1>21. ASSUME NEW o \in Offers, StatusConflicts(o) PROVE TypeOK'
  <2>1. pc' \in [Offers -> Stage]
    BY <1>21 DEF StatusConflicts, Done, TypeOK, Stage
  <2>2. work' \in [Offers -> Offer]
    BY <1>21, Blanks DEF StatusConflicts, Done, TypeOK
  <2>3. queue' \subseteq Offers
    BY <1>21 DEF StatusConflicts, Done, TypeOK
  <2>4. UNCHANGED <<obj, seen, news, timer, kids, cache, lock, listing, site, edition,
      notice, env, left>>
    BY <1>21 DEF StatusConflicts, Done
  <2> QED BY <2>1, <2>2, <2>3, <2>4 DEF TypeOK
<1>22. ASSUME NEW o \in Offers, WriteStatus(o) PROVE TypeOK'
  <2>1. obj' \in [Offers -> Offer]
    <3>1. obj[o] \in Offer /\ work[o].st \in StatusOf
      BY DEF TypeOK, Offer
    <3>2. [work[o].st EXCEPT !.ready = Ready(work[o].st)] \in StatusOf
      BY <3>1 DEF StatusOf, Ready
    <3>3. \A s \in StatusOf : [obj[o] EXCEPT !.st = s] \in Offer
      BY <3>1 DEF Offer
    <3> QED BY <1>22, <3>2, <3>3 DEF WriteStatus, TypeOK
  <2>2. queue' \subseteq Offers
    BY <1>22 DEF WriteStatus, Goto, RefreshDocument, TypeOK
  <2>3. pc' \in [Offers -> Stage]
    BY <1>22, ZenonT(60) DEF WriteStatus, Goto, RefreshDocument, TypeOK, Stage
  <2>4. work' \in [Offers -> Offer]
    BY <1>22, Blanks, ZenonT(60) DEF WriteStatus, Goto, RefreshDocument, TypeOK
  <2>5. cache' \in [Offers -> {"unsettled", "doc", "nil"}]
    BY <1>22 DEF WriteStatus, RefreshDocument, ProbeOutcomes, TypeOK
  <2>6. UNCHANGED <<seen, news, timer, kids, lock, listing, site, edition, notice, env,
      left>>
    BY <1>22 DEF WriteStatus, Goto, RefreshDocument
  <2> QED BY <2>1, <2>2, <2>3, <2>4, <2>5, <2>6 DEF TypeOK
<1>23. ASSUME NEW o \in Offers, ListOffers(o) PROVE TypeOK'
  <2>1. lock' \subseteq Offers /\ \A a, b \in lock' : a = b
    BY <1>23 DEF ListOffers, Goto, TypeOK
  <2>2. listing' \in [Offers -> [catalog: [Offers -> Entry], hosted: SUBSET Offers,
      edition: Nat]]
    <3>1. [catalog |-> [q \in Offers |-> CatalogEntry(q)], edition |-> edition,
           hosted |-> {q \in Offers : Exists(q) /\ obj[q].spec.host # NoHost}]
             \in [catalog: [Offers -> Entry], hosted: SUBSET Offers, edition: Nat]
      BY EntryTyped DEF TypeOK
    <3> QED BY <1>23, <3>1 DEF ListOffers, TypeOK
  <2>3. pc' \in [Offers -> Stage]
    BY <1>23 DEF ListOffers, Goto, TypeOK, Stage
  <2>4. UNCHANGED <<obj, seen, news, queue, timer, work, kids, cache, site, edition,
      notice, env, left>>
    BY <1>23 DEF ListOffers, Goto
  <2> QED BY <2>1, <2>2, <2>3, <2>4 DEF TypeOK
<1>24. ASSUME NEW o \in Offers, PublishSite(o) PROVE TypeOK'
  <2>1. site' \in [cm: Content, applied: 0..Len(SiteObjects)]
    BY <1>24, RenderedTyped, SitesTyped DEF PublishSite, Published, TypeOK
  <2>2. lock' \subseteq Offers /\ \A a, b \in lock' : a = b
    BY <1>24 DEF PublishSite, ReleaseSite, Goto, Done, Published, TypeOK
  <2>3. listing' \in [Offers -> [catalog: [Offers -> Entry], hosted: SUBSET Offers,
      edition: Nat]]
    BY <1>24, Blanks DEF PublishSite, ReleaseSite, Goto, Done, Published, TypeOK
  <2>4. pc' \in [Offers -> Stage]
    BY <1>24 DEF PublishSite, ReleaseSite, Goto, Done, Published, TypeOK, Stage
  <2>5. queue' \subseteq Offers
    BY <1>24 DEF PublishSite, ReleaseSite, Goto, Done, Published, TypeOK
  <2>6. work' \in [Offers -> Offer]
    BY <1>24, Blanks, ZenonT(60) DEF PublishSite, ReleaseSite, Goto, Done, Published, TypeOK
  <2>7. UNCHANGED <<obj, seen, news, timer, kids, cache, edition, notice, env, left>>
    BY <1>24 DEF PublishSite, ReleaseSite, Goto, Done, Published
  <2> QED BY <2>1, <2>2, <2>3, <2>4, <2>5, <2>6, <2>7 DEF TypeOK
<1>25. ASSUME NEW o \in Offers, PublishSiteBlind(o) PROVE TypeOK'
  <2>1. site' \in [cm: Content, applied: 0..Len(SiteObjects)]
    BY <1>25, RenderedTyped, SitesTyped DEF PublishSiteBlind, Published, TypeOK
  <2>2. lock' \subseteq Offers /\ \A a, b \in lock' : a = b
    BY <1>25 DEF PublishSiteBlind, Event, ReleaseSite, Goto, Done, Published, TypeOK
  <2>3. listing' \in [Offers -> [catalog: [Offers -> Entry], hosted: SUBSET Offers,
      edition: Nat]]
    BY <1>25, Blanks DEF PublishSiteBlind, Event, ReleaseSite, Goto, Done, Published, TypeOK
  <2>4. pc' \in [Offers -> Stage]
    BY <1>25, ZenonT(60) DEF PublishSiteBlind, Event, ReleaseSite, Goto, Done, Published, TypeOK, Stage
  <2>5. queue' \subseteq Offers
    BY <1>25 DEF PublishSiteBlind, Event, ReleaseSite, Goto, Done, Published, TypeOK
  <2>6. work' \in [Offers -> Offer]
    BY <1>25, Blanks, ZenonT(60) DEF PublishSiteBlind, Event, ReleaseSite, Goto, Done, Published, TypeOK
  <2>7. left' \in Nat
    BY <1>25 DEF PublishSiteBlind, Event, ReleaseSite, Goto, Done, Published, TypeOK
  <2>8. UNCHANGED <<obj, seen, news, timer, kids, cache, edition, notice, env>>
    BY <1>25 DEF PublishSiteBlind, Event, ReleaseSite, Goto, Done, Published
  <2> QED BY <2>1, <2>2, <2>3, <2>4, <2>5, <2>6, <2>7, <2>8 DEF TypeOK
<1>26. ASSUME NEW o \in Offers, PublishSiteFails(o) PROVE TypeOK'
  <2>1. site' \in [cm: Content, applied: 0..Len(SiteObjects)]
    BY <1>26, RenderedTyped, SitesTyped DEF PublishSiteFails, Published, TypeOK
  <2>2. lock' \subseteq Offers /\ \A a, b \in lock' : a = b
    BY <1>26 DEF PublishSiteFails, Event, ReleaseSite, Goto, Done, Published, TypeOK
  <2>3. listing' \in [Offers -> [catalog: [Offers -> Entry], hosted: SUBSET Offers,
      edition: Nat]]
    BY <1>26, Blanks DEF PublishSiteFails, Event, ReleaseSite, Goto, Done, Published, TypeOK
  <2>4. pc' \in [Offers -> Stage]
    <3>1. \E stage \in {"finalize", "idle"} : pc' = [pc EXCEPT ![o] = stage]
      BY <1>26 DEF PublishSiteFails, ReleaseSite, Goto, Done
    <3> QED BY <3>1 DEF TypeOK, Stage
  <2>5. queue' \subseteq Offers
    BY <1>26 DEF PublishSiteFails, Event, ReleaseSite, Goto, Done, Published, TypeOK
  <2>6. work' \in [Offers -> Offer]
    <3>1. work' = work \/ work' = [work EXCEPT ![o] = Absent]
      BY <1>26 DEF PublishSiteFails, ReleaseSite, Done
    <3> QED BY <3>1, Blanks DEF TypeOK
  <2>7. left' \in Nat
    BY <1>26 DEF PublishSiteFails, Event, ReleaseSite, Goto, Done, Published, TypeOK
  <2>8. UNCHANGED <<obj, seen, news, timer, kids, cache, edition, notice, env>>
    BY <1>26 DEF PublishSiteFails, Event, ReleaseSite, Goto, Done, Published
  <2> QED BY <2>1, <2>2, <2>3, <2>4, <2>5, <2>6, <2>7, <2>8 DEF TypeOK
<1>27. ASSUME NEW o \in Offers, RemoveFinalizer(o) PROVE TypeOK'
  <2>1. cache' \in [Offers -> {"unsettled", "doc", "nil"}]
    BY <1>27 DEF RemoveFinalizer, Event, Done, TypeOK
  <2>2. obj' \in [Offers -> Offer]
    <3>1. obj[o] \in Offer
      BY DEF TypeOK
    <3>2. [obj[o] EXCEPT !.phase = "gone"] \in Offer
      BY <3>1 DEF Offer
    <3> QED BY <1>27, <3>2 DEF RemoveFinalizer, TypeOK
  <2>3. news' \subseteq Offers
    BY <1>27 DEF RemoveFinalizer, Event, Done, TypeOK
  <2>4. pc' \in [Offers -> Stage]
    BY <1>27, ZenonT(60) DEF RemoveFinalizer, Event, Done, TypeOK, Stage
  <2>5. queue' \subseteq Offers
    BY <1>27 DEF RemoveFinalizer, Event, Done, TypeOK
  <2>6. work' \in [Offers -> Offer]
    BY <1>27, Blanks, ZenonT(60) DEF RemoveFinalizer, Event, Done, TypeOK
  <2>7. left' \in Nat
    BY <1>27 DEF RemoveFinalizer, Event, Done, TypeOK
  <2>8. UNCHANGED <<seen, timer, kids, lock, listing, site, edition, notice, env>>
    BY <1>27 DEF RemoveFinalizer, Event, Done
  <2> QED BY <2>1, <2>2, <2>3, <2>4, <2>5, <2>6, <2>7, <2>8 DEF TypeOK
<1>28. CASE GatewayFlips
  <2>1. left' \in Nat
    BY <1>28 DEF GatewayFlips, Event, TypeOK
  <2>2. env' \in [healthy: SUBSET Offers, agents: SUBSET AgentOffers, gateway: BOOLEAN]
    BY <1>28 DEF GatewayFlips, Event, TypeOK
  <2>3. UNCHANGED <<obj, seen, news, queue, timer, pc, work, kids, cache, lock, listing,
      site, edition, notice>>
    BY <1>28 DEF GatewayFlips, Event
  <2> QED BY <2>1, <2>2, <2>3 DEF TypeOK
<1>29. CASE BaseURLMoves
  <2>1. left' \in Nat
    BY <1>29 DEF BaseURLMoves, Event, TypeOK
  <2>2. edition' \in Nat
    BY <1>29 DEF BaseURLMoves, Event, TypeOK
  <2>3. notice' \in BOOLEAN
    BY <1>29 DEF BaseURLMoves, Event, TypeOK
  <2>4. UNCHANGED <<obj, seen, news, queue, timer, pc, work, kids, cache, lock, listing,
      site, env>>
    BY <1>29 DEF BaseURLMoves, Event
  <2> QED BY <2>1, <2>2, <2>3, <2>4 DEF TypeOK
<1>30. CASE DiscoveryRefresh
  <2>1. notice' \in BOOLEAN
    BY <1>30 DEF DiscoveryRefresh, TypeOK
  <2>2. queue' \subseteq Offers
    BY <1>30 DEF DiscoveryRefresh, TypeOK
  <2>3. UNCHANGED <<obj, seen, news, timer, pc, work, kids, cache, lock, listing, site,
      edition, env, left>>
    BY <1>30 DEF DiscoveryRefresh
  <2> QED BY <2>1, <2>2, <2>3 DEF TypeOK
<1>31. CASE Restart
  <2>1. seen' \in [Offers -> View]
    BY <1>31 DEF Restart, Event, TypeOK, View, Offer, SpecOf
  <2>2. news' \subseteq Offers
    BY <1>31 DEF Restart, Event, TypeOK
  <2>3. notice' \in BOOLEAN
    BY <1>31 DEF Restart, Event, TypeOK
  <2>4. timer' \subseteq Offers
    BY <1>31 DEF Restart, Event, TypeOK
  <2>5. queue' \subseteq Offers
    BY <1>31 DEF Restart, Event, TypeOK
  <2>6. pc' \in [Offers -> Stage]
    BY <1>31 DEF Restart, Event, TypeOK, Stage
  <2>7. work' \in [Offers -> Offer]
    BY <1>31, Blanks DEF Restart, Event, TypeOK
  <2>8. cache' \in [Offers -> {"unsettled", "doc", "nil"}]
    BY <1>31 DEF Restart, Event, TypeOK
  <2>9. lock' \subseteq Offers /\ \A a, b \in lock' : a = b
    BY <1>31 DEF Restart, Event, TypeOK
  <2>10. listing' \in [Offers -> [catalog: [Offers -> Entry], hosted: SUBSET Offers,
      edition: Nat]]
    BY <1>31, Blanks DEF Restart, Event, TypeOK
  <2>11. left' \in Nat
    BY <1>31 DEF Restart, Event, TypeOK
  <2>12. UNCHANGED <<obj, kids, site, edition, env>>
    BY <1>31 DEF Restart, Event
  <2> QED BY <2>1, <2>2, <2>3, <2>4, <2>5, <2>6, <2>7, <2>8, <2>9, <2>10, <2>11, <2>12 DEF
      TypeOK
<1>32. CASE UNCHANGED vars
  BY <1>32 DEF vars, TypeOK
<1> QED BY <1>1, <1>2, <1>3, <1>4, <1>5, <1>6, <1>7, <1>8, <1>9, <1>10, <1>11, <1>12,
    <1>13, <1>14, <1>15, <1>16, <1>17, <1>18, <1>19, <1>20, <1>21, <1>22, <1>23, <1>24,
    <1>25, <1>26, <1>27, <1>28, <1>29, <1>30, <1>31, <1>32 DEF Next, User, World, Dequeue,
    Reconcile

----------------------------------------------------------------------------
(***************************************************************************)
(* What a step of one offer leaves alone.                                  *)
(***************************************************************************)

\* Everything the state keeps for q, besides the site and others' listings.
SameAt(q) ==
    /\ obj'[q] = obj[q] /\ seen'[q] = seen[q]
    /\ pc'[q] = pc[q] /\ work'[q] = work[q]
    /\ kids'[q] = kids[q] /\ cache'[q] = cache[q] /\ listing'[q] = listing[q]
    /\ q \in news' <=> q \in news
    /\ q \in queue' <=> q \in queue
    /\ q \in timer' <=> q \in timer
    /\ q \in env'.agents <=> q \in env.agents

StepOf(o) == \/ User(o) \/ World(o) \/ TimerFires(o) \/ TraefikAccepts(o)
             \/ InformerDelivers(o) \/ Dequeue(o) \/ Reconcile(o)

\* A step of one offer leaves what is kept for the others.
LEMMA Elsewhere ==
  ASSUME TypeOK, NEW o \in Offers, StepOf(o), NEW q \in Offers \ {o}
  PROVE  SameAt(q)
<1>1. CASE Create(o)
  BY <1>1 DEF Create, TypeOK, SameAt
<1>2. CASE Edit(o)
  BY <1>2 DEF Edit, Event, TypeOK, SameAt
<1>3. CASE Delete(o)
  BY <1>3 DEF Delete, Event, TypeOK, SameAt
<1>4. CASE DrainEnds(o)
  BY <1>4 DEF DrainEnds, TypeOK, SameAt
<1>5. CASE UpstreamFlips(o)
  BY <1>5 DEF UpstreamFlips, Event, TypeOK, SameAt
<1>6. CASE AgentFlips(o)
  BY <1>6 DEF AgentFlips, Event, TypeOK, SameAt
<1>7. CASE TimerFires(o)
  BY <1>7 DEF TimerFires, TypeOK, SameAt
<1>8. CASE TraefikAccepts(o)
  BY <1>8 DEF TraefikAccepts, TypeOK, SameAt
<1>9. CASE InformerDelivers(o)
  BY <1>9 DEF InformerDelivers, TypeOK, SameAt
<1>10. CASE FetchMissing(o)
  BY <1>10 DEF FetchMissing, Take, TypeOK, SameAt
<1>11. CASE AddFinalizer(o)
  BY <1>11 DEF AddFinalizer, Take, TypeOK, SameAt
<1>12. CASE Fetch(o)
  BY <1>12 DEF Fetch, Take, Goto, TypeOK, SameAt
<1>13. CASE FetchDeleting(o)
  BY <1>13 DEF FetchDeleting, Take, Goto, TypeOK, SameAt
<1>14. CASE WaitForAgent(o)
  BY <1>14 DEF WaitForAgent, SetStatus, Goto, TypeOK, SameAt
<1>15. CASE Decide(o)
  BY <1>15 DEF Decide, SetStatus, Goto, TypeOK, SameAt
<1>16. CASE DeleteRouteChildren(o)
  BY <1>16 DEF DeleteRouteChildren, Goto, TypeOK, SameAt
<1>17. CASE TeardownFails(o)
  BY <1>17 DEF TeardownFails, Event, Done, TypeOK, SameAt
<1>18. CASE GateAndFilters(o)
  BY <1>18 DEF GateAndFilters, SetStatus, Goto, TypeOK, SameAt
<1>19. CASE PublishRoute(o)
  BY <1>19 DEF PublishRoute, SetStatus, Goto, TypeOK, SameAt
<1>20. CASE ChildFails(o)
  BY <1>20 DEF ChildFails, Event, Done, TypeOK, SameAt
<1>21. CASE StatusConflicts(o)
  BY <1>21 DEF StatusConflicts, Done, TypeOK, SameAt
<1>22. CASE WriteStatus(o)
  BY <1>22 DEF WriteStatus, Goto, RefreshDocument, TypeOK, SameAt
<1>23. CASE ListOffers(o)
  BY <1>23 DEF ListOffers, Goto, TypeOK, SameAt
<1>24. CASE PublishSite(o)
  BY <1>24 DEF PublishSite, ReleaseSite, Goto, Done, Published, TypeOK, SameAt
<1>25. CASE PublishSiteBlind(o)
  BY <1>25 DEF PublishSiteBlind, Event, ReleaseSite, Goto, Done, Published, TypeOK, SameAt
<1>26. CASE PublishSiteFails(o)
  BY <1>26 DEF PublishSiteFails, Event, ReleaseSite, Goto, Done, Published, TypeOK, SameAt
<1>27. CASE RemoveFinalizer(o)
  BY <1>27 DEF RemoveFinalizer, Event, Done, TypeOK, SameAt
<1> QED BY <1>1, <1>2, <1>3, <1>4, <1>5, <1>6, <1>7, <1>8, <1>9, <1>10, <1>11, <1>12,
    <1>13, <1>14, <1>15, <1>16, <1>17, <1>18, <1>19, <1>20, <1>21, <1>22, <1>23, <1>24,
    <1>25, <1>26, <1>27 DEF StepOf, User, World, Dequeue, Reconcile

----------------------------------------------------------------------------
(***************************************************************************)
(* The copy a reconcile works on.                                          *)
(***************************************************************************)

\* The step of an offer keeps its own copy fitting.
LEMMA CopyHere ==
  ASSUME TypeOK, NEW o \in Offers, CopyFits(o), BareIsBlank(o), StepOf(o)
  PROVE  CopyFits(o)'
<1>1. CASE UpstreamFlips(o) \/ AgentFlips(o) \/ TimerFires(o) \/ TraefikAccepts(o) \/
    InformerDelivers(o) \/ FetchMissing(o)
  <2>1. obj' = obj /\ pc' = pc /\ work' = work
    BY <1>1 DEF UpstreamFlips, AgentFlips, TimerFires, TraefikAccepts, InformerDelivers, FetchMissing, Event, Take
  <2> QED BY <2>1 DEF CopyFits, Exists, Unmoved
<1>2. CASE Create(o)
  BY <1>2 DEF Create, BareIsBlank, TypeOK, Offer, CopyFits, Exists, Unmoved
<1>3. CASE Edit(o)
  BY <1>3 DEF Edit, Event, TypeOK, Offer, CopyFits, Exists, Unmoved
<1>4. CASE Delete(o)
  BY <1>4 DEF Delete, Event, BareIsBlank, TypeOK, Offer, CopyFits, Exists, Unmoved
<1>5. CASE DrainEnds(o)
  BY <1>5, ZenonT(120) DEF DrainEnds, TypeOK, Offer, CopyFits, Exists, Unmoved
<1>6. CASE AddFinalizer(o)
  BY <1>6 DEF AddFinalizer, Take, BareIsBlank, TypeOK, Offer, CopyFits, Exists, Unmoved
<1>7. CASE Fetch(o)
  BY <1>7 DEF Fetch, Take, Goto, TypeOK, Offer, CopyFits, Exists, Unmoved
<1>8. CASE FetchDeleting(o)
  <2>1. obj[o].phase = "deleting" /\ obj' = obj /\ obj[o].finalizer /\ obj[o].gen \in Nat
    BY <1>8 DEF FetchDeleting, BareIsBlank, TypeOK, Offer
  <2>2. work'[o] = obj[o] /\ pc'[o] = "teardown"
    BY <1>8 DEF FetchDeleting, Goto, TypeOK
  <2> QED BY <2>1, <2>2 DEF CopyFits, Exists, Unmoved
<1>9. CASE WaitForAgent(o)
  BY <1>9 DEF WaitForAgent, SetStatus, Goto, TypeOK, Offer, CopyFits, Exists, Unmoved
<1>10. CASE Decide(o)
  <2>1. \E st : work' = [work EXCEPT ![o].st = st]
    BY <1>10 DEF Decide, SetStatus
  <2>2. work'[o].phase = work[o].phase /\ work'[o].gen = work[o].gen /\ work'[o].spec = work[o].spec
    BY <2>1 DEF TypeOK, Offer
  <2>3. obj' = obj /\ pc[o] = "decide" /\ pc'[o] \in {"teardown", "gate", "status"}
    BY <1>10 DEF Decide, Goto, TypeOK
  <2> QED BY <2>2, <2>3 DEF CopyFits, Exists, Unmoved
<1>11. CASE DeleteRouteChildren(o)
  BY <1>11 DEF DeleteRouteChildren, Goto, AfterTeardown, TypeOK, Offer, CopyFits, Exists,
      Unmoved
<1>12. CASE TeardownFails(o)
  <2>1. pc' = [pc EXCEPT ![o] = "idle"]
    BY <1>12 DEF TeardownFails, Event, Done
  <2> QED BY <2>1 DEF TypeOK, CopyFits
<1>13. CASE GateAndFilters(o)
  BY <1>13 DEF GateAndFilters, SetStatus, Goto, TypeOK, Offer, CopyFits, Exists, Unmoved
<1>14. CASE PublishRoute(o)
  BY <1>14 DEF PublishRoute, SetStatus, Goto, TypeOK, Offer, CopyFits, Exists, Unmoved
<1>15. CASE ChildFails(o)
  <2>1. pc' = [pc EXCEPT ![o] = "idle"]
    BY <1>15 DEF ChildFails, Event, Done
  <2> QED BY <2>1 DEF TypeOK, CopyFits
<1>16. CASE StatusConflicts(o)
  <2>1. pc' = [pc EXCEPT ![o] = "idle"]
    BY <1>16 DEF StatusConflicts, Done
  <2> QED BY <2>1 DEF TypeOK, CopyFits
<1>17. CASE WriteStatus(o)
  BY <1>17 DEF WriteStatus, Goto, RefreshDocument, TypeOK, Offer, CopyFits, Exists, Unmoved
<1>18. CASE ListOffers(o)
  BY <1>18 DEF ListOffers, Goto, TypeOK, Offer, CopyFits, Exists, Unmoved
<1>19. CASE PublishSite(o)
  BY <1>19 DEF PublishSite, ReleaseSite, Goto, Done, Published, TypeOK, Offer, CopyFits,
      Exists, Unmoved
<1>20. CASE PublishSiteBlind(o)
  BY <1>20 DEF PublishSiteBlind, Event, ReleaseSite, Goto, Done, Published, TypeOK, Offer,
      CopyFits, Exists, Unmoved
<1>21. CASE PublishSiteFails(o)
  BY <1>21 DEF PublishSiteFails, Event, ReleaseSite, Goto, Done, Published, TypeOK, Offer,
      CopyFits, Exists, Unmoved
<1>22. CASE RemoveFinalizer(o)
  <2>1. pc' = [pc EXCEPT ![o] = "idle"]
    BY <1>22 DEF RemoveFinalizer, Event, Done
  <2> QED BY <2>1 DEF TypeOK, CopyFits
<1> QED BY <1>1, <1>2, <1>3, <1>4, <1>5, <1>6, <1>7, <1>8, <1>9, <1>10, <1>11, <1>12,
    <1>13, <1>14, <1>15, <1>16, <1>17, <1>18, <1>19, <1>20, <1>21, <1>22 DEF StepOf, User,
    World, Dequeue, Reconcile

\* Every step does.
LEMMA CopyStep ==
  ASSUME TypeOK, \A r \in Offers : CopyFits(r) /\ BareIsBlank(r), [Next]_vars, NEW q \in
      Offers
  PROVE  CopyFits(q)'
<1>1. ASSUME NEW o \in Offers, StepOf(o) PROVE CopyFits(q)'
  <2>1. CASE o = q
    BY <1>1, <2>1, CopyHere
  <2>2. CASE o # q
    BY <1>1, <2>2, Elsewhere DEF SameAt, CopyFits, Exists, Unmoved
  <2> QED BY <2>1, <2>2
<1>2. CASE GatewayFlips \/ BaseURLMoves \/ DiscoveryRefresh
  BY <1>2 DEF GatewayFlips, BaseURLMoves, DiscoveryRefresh, CopyFits, Exists, Unmoved
<1>3. CASE Restart
  BY <1>3 DEF Restart, CopyFits
<1>4. CASE UNCHANGED vars
  BY <1>4 DEF vars, CopyFits, Exists, Unmoved
<1> QED BY <1>1, <1>2, <1>3, <1>4 DEF Next, StepOf

----------------------------------------------------------------------------
(***************************************************************************)
(* The informer's store.                                                   *)
(***************************************************************************)

\* A created object is live, without finalizer or status.
LEMMA CreateShape ==
  ASSUME TypeOK, NEW o \in Offers, Create(o)
  PROVE  /\ obj[o].phase = "absent" /\ obj'[o].phase = "live"
         /\ ~obj'[o].finalizer /\ obj'[o].st = NoStatus
         /\ news' = news \cup {o}
         /\ UNCHANGED <<seen, queue, timer, pc, work, kids, cache, lock, listing, site,
                        edition, notice, env, left>>
<1>1. obj[o].phase = "absent"
  BY DEF Create
<1>2. \E born, spec : obj' = [obj EXCEPT ![o] =
        [Absent EXCEPT !.phase = "live", !.gen = 1, !.born = born, !.spec = spec]]
  BY DEF Create
<1>3. obj'[o].phase = "live" /\ ~obj'[o].finalizer /\ obj'[o].st = NoStatus
  BY <1>2 DEF Absent, TypeOK
<1>4. news' = news \cup {o} /\ UNCHANGED <<seen, queue, timer, pc, work, kids, cache, lock,
        listing, site, edition, notice, env, left>>
  BY DEF Create
<1> QED BY <1>1, <1>3, <1>4

\* What a step of an offer puts to work is in the store.
LEMMA StoreHere ==
  ASSUME TypeOK, NEW o \in Offers, StoreKnows(o), BareIsBlank(o), StepOf(o)
  PROVE  StoreKnows(o)'
<1>1. CASE UpstreamFlips(o) \/ TraefikAccepts(o)
  <2>1. obj' = obj /\ seen' = seen /\ queue' = queue /\ timer' = timer /\ pc' = pc
    BY <1>1 DEF UpstreamFlips, TraefikAccepts, Event
  <2> QED BY <2>1 DEF StoreKnows
<1>2. CASE WaitForAgent(o) \/ Decide(o) \/ DeleteRouteChildren(o) \/ TeardownFails(o) \/
    GateAndFilters(o) \/ PublishRoute(o) \/ ChildFails(o) \/ StatusConflicts(o) \/
    ListOffers(o) \/ PublishSite(o) \/ PublishSiteBlind(o) \/ PublishSiteFails(o)
  <2>1. obj' = obj /\ seen' = seen /\ pc[o] # "idle"
    BY <1>2 DEF WaitForAgent, Decide, DeleteRouteChildren, TeardownFails, GateAndFilters, PublishRoute, ChildFails, StatusConflicts, ListOffers, PublishSite, PublishSiteBlind, PublishSiteFails
  <2> QED BY <2>1 DEF StoreKnows
<1>3. CASE Create(o)
  BY <1>3, CreateShape DEF BareIsBlank, StoreKnows
<1>4. CASE Edit(o)
  BY <1>4 DEF Edit, Event, TypeOK, Offer, StoreKnows
<1>5. CASE Delete(o)
  BY <1>5 DEF Delete, Event, TypeOK, Offer, StoreKnows
<1>6. CASE DrainEnds(o)
  BY <1>6 DEF DrainEnds, TypeOK, Offer, StoreKnows
<1>7. CASE AgentFlips(o)
  BY <1>7 DEF AgentFlips, Event, View, TypeOK, Offer, StoreKnows
<1>8. CASE TimerFires(o)
  BY <1>8 DEF TimerFires, TypeOK, Offer, StoreKnows
<1>9. CASE InformerDelivers(o)
  BY <1>9 DEF InformerDelivers, BareIsBlank, TypeOK, Offer, StoreKnows
<1>10. CASE FetchMissing(o)
  BY <1>10 DEF FetchMissing, Take, TypeOK, Offer, StoreKnows
<1>11. CASE AddFinalizer(o)
  BY <1>11 DEF AddFinalizer, Take, TypeOK, Offer, StoreKnows
<1>12. CASE Fetch(o)
  BY <1>12 DEF Fetch, Take, Goto, TypeOK, Offer, StoreKnows
<1>13. CASE FetchDeleting(o)
  BY <1>13 DEF FetchDeleting, Take, Goto, TypeOK, Offer, StoreKnows
<1>14. CASE WriteStatus(o)
  BY <1>14 DEF WriteStatus, Goto, RefreshDocument, TypeOK, Offer, StoreKnows
<1>15. CASE RemoveFinalizer(o)
  BY <1>15 DEF RemoveFinalizer, Event, Done, TypeOK, Offer, StoreKnows
<1> QED BY <1>1, <1>2, <1>3, <1>4, <1>5, <1>6, <1>7, <1>8, <1>9, <1>10, <1>11, <1>12,
    <1>13, <1>14, <1>15 DEF StepOf, User, World, Dequeue, Reconcile

\* Every step does.
LEMMA StoreStep ==
  ASSUME TypeOK, \A r \in Offers : StoreKnows(r) /\ BareIsBlank(r), [Next]_vars, NEW q \in
      Offers
  PROVE  StoreKnows(q)'
<1>1. ASSUME NEW o \in Offers, StepOf(o) PROVE StoreKnows(q)'
  <2>1. CASE o = q
    BY <1>1, <2>1, StoreHere
  <2>2. CASE o # q
    BY <1>1, <2>2, Elsewhere DEF SameAt, StoreKnows
  <2> QED BY <2>1, <2>2
<1>2. CASE GatewayFlips \/ BaseURLMoves \/ DiscoveryRefresh
  BY <1>2 DEF GatewayFlips, BaseURLMoves, DiscoveryRefresh, StoreKnows
<1>3. CASE Restart
  BY <1>3 DEF Restart, StoreKnows, BareIsBlank, Exists, TypeOK, Offer
<1>4. CASE UNCHANGED vars
  BY <1>4 DEF vars, StoreKnows
<1> QED BY <1>1, <1>2, <1>3, <1>4 DEF Next, StepOf

----------------------------------------------------------------------------
(***************************************************************************)
(* Dangling routes.                                                        *)
(***************************************************************************)

\* An offer without children has no dangling route.
LEMMA NoKidsHang ==
  ASSUME NEW o \in Offers
  PROVE  /\ kids[o] = NoKids => ~Dangling(o)
         /\ kids'[o] = NoKids => ~Dangling(o)'
BY DEF NoKids, NoRoute, Dangling

\* The same children hang the same.
LEMMA SameKidsHang ==
  ASSUME NEW o \in Offers, kids'[o] = kids[o] PROVE Dangling(o)' <=> Dangling(o)
BY DEF Dangling

\* The step of an offer never leaves its own dangling route to itself.
LEMMA DanglingHere ==
  ASSUME TypeOK, NEW o \in Offers, CopyFits(o), BareIsBlank(o), DeletionEmpties(o),
      StoreKnows(o), DanglingIsOwed(o), StepOf(o)
  PROVE  DanglingIsOwed(o)'
<1>1. CASE Create(o)
  BY <1>1, CreateShape, NoKidsHang DEF BareIsBlank, DanglingIsOwed, TypeOK
<1>2. CASE Edit(o)
  <2>1. /\ kids' = kids /\ pc' = pc /\ queue \subseteq queue' /\ news \subseteq news'
        /\ env'.agents = env.agents
        /\ work'[o].spec.limits = work[o].spec.limits /\ work'[o].st = work[o].st
    BY <1>2 DEF Edit, Event, TypeOK, Offer, SpecOf
  <2> QED BY <2>1, SameKidsHang DEF DanglingIsOwed, Owed, AgentResolved
<1>3. CASE Delete(o)
  <2>1. /\ kids' = kids /\ pc' = pc /\ queue \subseteq queue' /\ news \subseteq news'
        /\ env'.agents = env.agents
        /\ work'[o].spec.limits = work[o].spec.limits /\ work'[o].st = work[o].st
    BY <1>3 DEF Delete, Event, TypeOK, Offer, SpecOf
  <2> QED BY <2>1, SameKidsHang DEF DanglingIsOwed, Owed, AgentResolved
<1>4. CASE DrainEnds(o)
  <2>1. /\ kids' = kids /\ pc' = pc /\ queue \subseteq queue' /\ news \subseteq news'
        /\ env'.agents = env.agents
        /\ work'[o].spec.limits = work[o].spec.limits /\ work'[o].st = work[o].st
    BY <1>4 DEF DrainEnds, TypeOK, Offer, SpecOf
  <2> QED BY <2>1, SameKidsHang DEF DanglingIsOwed, Owed, AgentResolved
<1>5. CASE UpstreamFlips(o)
  <2>1. /\ kids' = kids /\ pc' = pc /\ queue \subseteq queue' /\ news \subseteq news'
        /\ env'.agents = env.agents
        /\ work'[o].spec.limits = work[o].spec.limits /\ work'[o].st = work[o].st
    BY <1>5 DEF UpstreamFlips, Event, TypeOK, Offer, SpecOf
  <2> QED BY <2>1, SameKidsHang DEF DanglingIsOwed, Owed, AgentResolved
<1>6. CASE AgentFlips(o)
  <2>1. kids' = kids /\ pc' = pc /\ work' = work /\ news' = news /\ queue \subseteq queue'
    BY <1>6 DEF AgentFlips
  <2>2. CASE Dangling(o)
    <3>1. seen[o].phase \in {"live", "deleting"}
      BY <2>2, NoKidsHang DEF BareIsBlank, StoreKnows, TypeOK, View
    <3> QED BY <1>6, <2>1, <3>1, SameKidsHang DEF AgentFlips, DanglingIsOwed, Owed
  <2>3. CASE ~Dangling(o)
    BY <2>1, <2>3, SameKidsHang DEF DanglingIsOwed
  <2> QED BY <2>2, <2>3
<1>7. CASE TimerFires(o)
  <2>1. /\ kids' = kids /\ pc' = pc /\ queue \subseteq queue' /\ news \subseteq news'
        /\ env'.agents = env.agents
        /\ work'[o].spec.limits = work[o].spec.limits /\ work'[o].st = work[o].st
    BY <1>7 DEF TimerFires, TypeOK, Offer, SpecOf
  <2> QED BY <2>1, SameKidsHang DEF DanglingIsOwed, Owed, AgentResolved
<1>8. CASE TraefikAccepts(o)
  <2>1. PICK r \in {"route", "host"} : kids' = [kids EXCEPT ![o][r].accepted = TRUE]
    BY <1>8 DEF TraefikAccepts
  <2>2. /\ kids'[o].filters = kids[o].filters
        /\ \A s \in {"route", "host"} : kids'[o][s].at = kids[o][s].at /\ kids'[o][s].limits = kids[o][s].limits
    BY <2>1 DEF TypeOK, Kids, RouteOf
  <2>3. pc' = pc /\ work' = work /\ queue' = queue /\ news' = news /\ env' = env
    BY <1>8 DEF TraefikAccepts
  <2> QED BY <2>2, <2>3 DEF DanglingIsOwed, Dangling, Owed, AgentResolved
<1>9. CASE InformerDelivers(o)
  <2>1. kids' = kids /\ pc' = pc /\ work' = work /\ o \in queue'
    BY <1>9 DEF InformerDelivers
  <2> QED BY <2>1, SameKidsHang DEF DanglingIsOwed, Owed
<1>10. CASE FetchMissing(o)
  <2>1. kids' = kids /\ pc' = pc /\ pc[o] = "idle" /\ kids[o] = NoKids
    BY <1>10 DEF FetchMissing, Take, Exists, BareIsBlank, TypeOK, Offer
  <2> QED BY <2>1, SameKidsHang, NoKidsHang DEF DanglingIsOwed
<1>11. CASE AddFinalizer(o)
  <2>1. /\ kids' = kids /\ pc' = pc /\ queue \subseteq queue' /\ news \subseteq news'
        /\ env'.agents = env.agents
        /\ work'[o].spec.limits = work[o].spec.limits /\ work'[o].st = work[o].st
    BY <1>11 DEF AddFinalizer, Take, TypeOK, Offer, SpecOf
  <2> QED BY <2>1, SameKidsHang DEF DanglingIsOwed, Owed, AgentResolved
<1>12. CASE Fetch(o)
  BY <1>12 DEF Fetch, Goto, TypeOK, DanglingIsOwed
<1>13. CASE FetchDeleting(o)
  BY <1>13 DEF FetchDeleting, Goto, TypeOK, DanglingIsOwed
<1>14. CASE WaitForAgent(o)
  BY <1>14 DEF WaitForAgent, Goto, TypeOK, DanglingIsOwed, AgentResolved
<1>15. CASE Decide(o)
  <2>1. CASE pc'[o] \in {"teardown", "gate"}
    BY <2>1 DEF DanglingIsOwed
  <2>2. CASE pc'[o] \notin {"teardown", "gate"}
    <3>1. pc'[o] = "status" /\ ~Ready(work'[o].st)
      <4> DEFINE st == [work[o].st EXCEPT !.model = ModelReady(o), !.up = UpstreamHealthy(o)]
      <4>1. work[o].st \in StatusOf
        BY DEF TypeOK, Offer
      <4>2. /\ pc' = [pc EXCEPT ![o] = "status"] /\ ~(st.model /\ st.up)
            /\ work' = [work EXCEPT ![o].st = [st EXCEPT !.gate = FALSE, !.route = FALSE]]
        BY <1>15, <2>2 DEF Decide, SetStatus, Goto, TypeOK
      <4>3. work'[o].st = [st EXCEPT !.gate = FALSE, !.route = FALSE]
        BY <4>2 DEF TypeOK, Offer
      <4> QED BY <4>1, <4>2, <4>3 DEF TypeOK, StatusOf, Ready
    <3> QED BY <3>1 DEF DanglingIsOwed
  <2> QED BY <2>1, <2>2
<1>16. CASE DeleteRouteChildren(o)
  <2>1. kids'[o] = NoKids /\ pc'[o] # "route"
    BY <1>16 DEF DeleteRouteChildren, Goto, AfterTeardown, TypeOK
  <2> QED BY <2>1, NoKidsHang DEF DanglingIsOwed
<1>17. CASE TeardownFails(o)
  <2>1. pc'[o] = "idle" /\ o \in queue'
    BY <1>17 DEF TeardownFails, Event, Done, TypeOK
  <2> QED BY <2>1 DEF DanglingIsOwed, Owed
<1>18. CASE GateAndFilters(o)
  <2>1. CASE env.gateway
    <3>1. kids'[o].filters = work[o].spec.limits /\ pc'[o] = "route" /\ work'[o].spec = work[o].spec
      BY <1>18, <2>1 DEF GateAndFilters, Goto, SetStatus, LimitMiddlewares, TypeOK, Kids, Offer
    <3> QED BY <3>1 DEF DanglingIsOwed
  <2>2. CASE ~env.gateway
    <3>1. pc'[o] = "status" /\ ~work'[o].st.gate
      BY <1>18, <2>2 DEF GateAndFilters, Goto, SetStatus, TypeOK, Offer, StatusOf
    <3> QED BY <3>1 DEF DanglingIsOwed, Ready
  <2> QED BY <2>1, <2>2
<1>19. CASE PublishRoute(o)
  <2> DEFINE s == work[o].spec
             route == Applied(kids[o].route, SharedOriginRoute(s))
             host == IF ~RouteAccepted(route) THEN kids[o].host
                     ELSE IF s.host = NoHost THEN NoRoute
                     ELSE Applied(kids[o].host, HostRoute(s))
             up == RouteAccepted(route) /\ (s.host # NoHost => RouteAccepted(host))
  <2>1. /\ kids' = [kids EXCEPT ![o].route = route, ![o].host = host]
        /\ work' = [work EXCEPT ![o].st = [work[o].st EXCEPT !.route = up]]
        /\ pc[o] = "route" /\ pc'[o] = "status"
    BY <1>19 DEF PublishRoute, SetStatus, Goto, TypeOK
  <2>2. kids[o].filters = s.limits /\ route.limits = s.limits
    BY <2>1 DEF DanglingIsOwed, Applied, SharedOriginRoute
  <2>3. RouteAccepted(route) => host = NoRoute \/ host.limits = s.limits
    BY DEF Applied, HostRoute
  <2>4. work[o].st \in StatusOf /\ kids[o] \in Kids
    BY DEF TypeOK, Offer
  <2> HIDE DEF route, host, up
  <2>5. kids'[o].filters = kids[o].filters /\ kids'[o].route = route /\ kids'[o].host = host
    BY <2>1, <2>4 DEF TypeOK, Kids
  <2>6. work'[o].st.route => RouteAccepted(route)
    <3>1. work'[o].st.route = up
      BY <2>1, <2>4 DEF TypeOK, Offer, StatusOf
    <3> QED BY <3>1 DEF up
  <2>7. Dangling(o)' => ~Ready(work'[o].st)
    BY <2>2, <2>3, <2>5, <2>6 DEF Dangling, NoRoute, Ready
  <2> QED BY <2>1, <2>7 DEF DanglingIsOwed
<1>20. CASE ChildFails(o)
  <2>1. pc'[o] = "idle" /\ o \in queue'
    BY <1>20 DEF ChildFails, Event, Done, TypeOK
  <2> QED BY <2>1 DEF DanglingIsOwed, Owed
<1>21. CASE StatusConflicts(o)
  <2>1. pc'[o] = "idle" /\ o \in queue'
    BY <1>21 DEF StatusConflicts, Done, TypeOK
  <2> QED BY <2>1 DEF DanglingIsOwed, Owed
<1>22. CASE WriteStatus(o)
  <2> DEFINE st == [work[o].st EXCEPT !.ready = Ready(work[o].st)]
  <2>1. kids' = kids /\ news' = news /\ queue \subseteq queue' /\ env' = env
    BY <1>22 DEF WriteStatus
  <2>2. CASE pc[o] = "waiting"
    BY <1>22, <2>1, <2>2, SameKidsHang DEF WriteStatus, Goto, TypeOK, DanglingIsOwed, Owed, AgentResolved
  <2>3. CASE pc[o] = "status"
    <3>1. pc'[o] = "list" /\ (~st.ready => o \in queue')
      BY <1>22, <2>3 DEF WriteStatus, Goto, TypeOK
    <3>2. Dangling(o) => ~st.ready
      BY <2>3 DEF DanglingIsOwed, TypeOK, Offer, StatusOf
    <3> QED BY <2>1, <3>1, <3>2, SameKidsHang DEF DanglingIsOwed, Owed
  <2> QED BY <1>22, <2>2, <2>3 DEF WriteStatus
<1>23. CASE ListOffers(o)
  <2>1. kids' = kids /\ news' = news /\ queue' = queue /\ env' = env /\ pc[o] = "list" /\ pc'[o] = "publish"
    BY <1>23 DEF ListOffers, Goto, TypeOK
  <2> QED BY <2>1, SameKidsHang DEF DanglingIsOwed, Owed, AgentResolved
<1>24. CASE PublishSite(o)
  <2>1. kids' = kids /\ news' = news /\ queue \subseteq queue' /\ env' = env /\ pc[o] = "publish"
    BY <1>24 DEF PublishSite, ReleaseSite, Done
  <2>2. pc' = [pc EXCEPT ![o] = "finalize"] \/ pc' = [pc EXCEPT ![o] = "idle"]
    BY <1>24 DEF PublishSite, ReleaseSite, Goto, Done
  <2> QED BY <2>1, <2>2, SameKidsHang DEF DanglingIsOwed, Owed, AgentResolved, TypeOK
<1>25. CASE PublishSiteBlind(o)
  <2>1. kids' = kids /\ news' = news /\ queue \subseteq queue' /\ env' = env /\ pc[o] = "publish"
    BY <1>25 DEF PublishSiteBlind, ReleaseSite, Done
  <2>2. pc' = [pc EXCEPT ![o] = "finalize"] \/ pc' = [pc EXCEPT ![o] = "idle"]
    BY <1>25 DEF PublishSiteBlind, ReleaseSite, Goto, Done
  <2> QED BY <2>1, <2>2, SameKidsHang DEF DanglingIsOwed, Owed, AgentResolved, TypeOK
<1>26. CASE PublishSiteFails(o)
  <2>1. kids' = kids /\ news' = news /\ queue \subseteq queue' /\ env' = env /\ pc[o] = "publish"
    BY <1>26 DEF PublishSiteFails, ReleaseSite, Done
  <2>2. pc' = [pc EXCEPT ![o] = "finalize"] \/ pc' = [pc EXCEPT ![o] = "idle"]
    BY <1>26 DEF PublishSiteFails, ReleaseSite, Goto, Done
  <2> QED BY <2>1, <2>2, SameKidsHang DEF DanglingIsOwed, Owed, AgentResolved, TypeOK
<1>27. CASE RemoveFinalizer(o)
  <2>1. kids' = kids /\ pc'[o] = "idle" /\ kids[o] = NoKids
    BY <1>27 DEF RemoveFinalizer, Done, TypeOK, CopyFits, DeletionEmpties
  <2> QED BY <2>1, SameKidsHang, NoKidsHang DEF DanglingIsOwed
<1> QED BY <1>1, <1>2, <1>3, <1>4, <1>5, <1>6, <1>7, <1>8, <1>9, <1>10, <1>11, <1>12,
    <1>13, <1>14, <1>15, <1>16, <1>17, <1>18, <1>19, <1>20, <1>21, <1>22, <1>23, <1>24,
    <1>25, <1>26, <1>27 DEF StepOf, User, World, Dequeue, Reconcile

\* No step does.
LEMMA DanglingStep ==
  ASSUME TypeOK, \A r \in Offers : Kept(r), [Next]_vars, NEW q \in Offers
  PROVE  DanglingIsOwed(q)'
<1>1. ASSUME NEW o \in Offers, StepOf(o) PROVE DanglingIsOwed(q)'
  <2>1. CASE o = q
    BY <1>1, <2>1, DanglingHere DEF Kept
  <2>2. CASE o # q
    BY <1>1, <2>2, Elsewhere DEF Kept, SameAt, DanglingIsOwed, Dangling, Owed, AgentResolved
  <2> QED BY <2>1, <2>2
<1>2. CASE GatewayFlips \/ BaseURLMoves \/ DiscoveryRefresh
  <2>1. /\ kids' = kids /\ pc' = pc /\ work' = work /\ news' = news /\ queue \subseteq queue'
        /\ env'.agents = env.agents
    BY <1>2 DEF GatewayFlips, BaseURLMoves, DiscoveryRefresh, TypeOK
  <2> QED BY <2>1 DEF Kept, DanglingIsOwed, Dangling, Owed, AgentResolved
<1>3. CASE Restart
  <2>1. kids' = kids /\ pc'[q] = "idle" /\ (Exists(q) => q \in queue')
    BY <1>3 DEF Restart
  <2>2. Dangling(q) => Exists(q)
    BY NoKidsHang DEF Kept, BareIsBlank, Exists, TypeOK, Offer
  <2> QED BY <2>1, <2>2, SameKidsHang DEF DanglingIsOwed, Owed
<1>4. CASE UNCHANGED vars
  BY <1>4 DEF vars, Kept, DanglingIsOwed, Dangling, Owed, AgentResolved
<1> QED BY <1>1, <1>2, <1>3, <1>4 DEF Next, StepOf

----------------------------------------------------------------------------
(***************************************************************************)
(* Ready offers.                                                           *)
(***************************************************************************)

\* The same children carry the same spec.
LEMMA SameKidsCarry ==
  ASSUME NEW o \in Offers, NEW s, NEW t, kids'[o] = kids[o],
         t.path = s.path, t.host = s.host, t.limits = s.limits, RoutedAs(o, s)
  PROVE  RoutedAs(o, t)'
BY DEF RoutedAs

\* The step of an offer keeps its own Ready routed.
LEMMA ReadyHere ==
  ASSUME TypeOK, NEW o \in Offers, CopyFits(o), BareIsBlank(o), DeletionEmpties(o),
      DanglingIsOwed(o), ReadyHasRoutes(o), StepOf(o)
  PROVE  ReadyHasRoutes(o)'
<1>1. CASE Create(o)
  BY <1>1, CreateShape DEF BareIsBlank, ReadyHasRoutes, NoStatus
<1>2. CASE Edit(o)
  <2>1. kids' = kids /\ pc' = pc /\ work' = work /\ o \in news'
    BY <1>2 DEF Edit
  <2> QED BY <2>1, SameKidsCarry DEF ReadyHasRoutes, Owed
<1>3. CASE Delete(o)
  <2>1. kids' = kids /\ pc' = pc /\ work' = work /\ obj'[o].phase # "live"
    BY <1>3 DEF Delete, TypeOK, Offer
  <2> QED BY <2>1, SameKidsCarry DEF ReadyHasRoutes
<1>4. CASE DrainEnds(o)
  <2>1. /\ kids' = kids /\ pc' = pc /\ news' = news /\ queue' = queue
        /\ work'[o].phase = work[o].phase /\ work'[o].st = work[o].st
        /\ obj'[o].phase = obj[o].phase /\ obj'[o].st = obj[o].st
        /\ work'[o].spec.path = work[o].spec.path /\ work'[o].spec.host = work[o].spec.host
        /\ work'[o].spec.limits = work[o].spec.limits
        /\ obj'[o].spec.path = obj[o].spec.path /\ obj'[o].spec.host = obj[o].spec.host
        /\ obj'[o].spec.limits = obj[o].spec.limits
    BY <1>4 DEF DrainEnds, TypeOK, Offer, SpecOf
  <2> QED BY <2>1, SameKidsCarry DEF ReadyHasRoutes, Owed
<1>5. CASE UpstreamFlips(o)
  <2>1. kids' = kids /\ pc' = pc /\ work' = work /\ obj' = obj /\ news' = news /\ queue \subseteq queue'
    BY <1>5 DEF UpstreamFlips, Event
  <2> QED BY <2>1, SameKidsCarry DEF ReadyHasRoutes, Owed
<1>6. CASE AgentFlips(o)
  <2>1. kids' = kids /\ pc' = pc /\ work' = work /\ obj' = obj /\ news' = news /\ queue \subseteq queue'
    BY <1>6 DEF AgentFlips, Event
  <2> QED BY <2>1, SameKidsCarry DEF ReadyHasRoutes, Owed
<1>7. CASE TimerFires(o)
  <2>1. kids' = kids /\ pc' = pc /\ work' = work /\ obj' = obj /\ news' = news /\ queue \subseteq queue'
    BY <1>7 DEF TimerFires
  <2> QED BY <2>1, SameKidsCarry DEF ReadyHasRoutes, Owed
<1>8. CASE TraefikAccepts(o)
  <2>1. pc' = pc /\ work' = work /\ obj' = obj /\ news' = news /\ queue' = queue
    BY <1>8 DEF TraefikAccepts
  <2>2. \A s : ~RoutedAs(o, s)
    <3> SUFFICES ASSUME NEW s, RoutedAs(o, s) PROVE FALSE
      OBVIOUS
    <3>1. PICK r \in {"route", "host"} : kids[o][r].at # NoHost /\ ~kids[o][r].accepted
      BY <1>8 DEF TraefikAccepts
    <3> QED BY <3>1 DEF RoutedAs, NoRoute
  <2> QED BY <2>1, <2>2 DEF ReadyHasRoutes, Owed
<1>9. CASE InformerDelivers(o)
  <2>1. kids' = kids /\ pc' = pc /\ work' = work /\ o \in queue'
    BY <1>9 DEF InformerDelivers
  <2> QED BY <2>1, SameKidsCarry DEF ReadyHasRoutes, Owed
<1>10. CASE FetchMissing(o)
  <2>1. obj' = obj /\ pc' = pc /\ pc[o] = "idle" /\ obj[o].phase # "live"
    BY <1>10 DEF FetchMissing, Take, Exists
  <2> QED BY <2>1 DEF ReadyHasRoutes
<1>11. CASE AddFinalizer(o)
  <2>1. pc' = pc /\ pc[o] = "idle" /\ obj'[o].st = obj[o].st /\ ~obj[o].st.ready
    BY <1>11 DEF AddFinalizer, Take, TypeOK, Offer, BareIsBlank, NoStatus
  <2> QED BY <2>1 DEF ReadyHasRoutes
<1>12. CASE Fetch(o)
  BY <1>12 DEF Fetch, Goto, TypeOK, ReadyHasRoutes
<1>13. CASE FetchDeleting(o)
  <2>1. pc'[o] = "teardown" /\ work'[o].phase = "deleting"
    BY <1>13 DEF FetchDeleting, Goto, TypeOK
  <2> QED BY <2>1 DEF ReadyHasRoutes
<1>14. CASE WaitForAgent(o)
  <2>1. pc'[o] \in {"teardown", "waiting"} /\ ~work'[o].st.route
    BY <1>14 DEF WaitForAgent, SetStatus, Goto, TypeOK, Offer, NoStatus
  <2> QED BY <2>1 DEF ReadyHasRoutes
<1>15. CASE Decide(o)
  <2> DEFINE st == [work[o].st EXCEPT !.model = ModelReady(o), !.up = UpstreamHealthy(o)]
  <2>1. st \in StatusOf
    <3>1. work[o].st \in StatusOf /\ ModelReady(o) \in BOOLEAN /\ UpstreamHealthy(o) \in BOOLEAN
      BY DEF TypeOK, Offer, SpecOf, ModelReady, UpstreamHealthy, IsAgent
    <3> QED BY <3>1 DEF StatusOf
  <2>2. \/ pc'[o] = "gate"
        \/ /\ pc'[o] \in {"teardown", "status"}
           /\ work' = [work EXCEPT ![o].st = [st EXCEPT !.gate = FALSE, !.route = FALSE]]
    BY <1>15 DEF Decide, SetStatus, Goto, TypeOK
  <2> HIDE DEF st
  <2>3. CASE pc'[o] = "gate"
    BY <2>3 DEF ReadyHasRoutes
  <2>4. CASE pc'[o] # "gate"
    <3>1. work'[o].st = [st EXCEPT !.gate = FALSE, !.route = FALSE]
      BY <2>2, <2>4 DEF TypeOK, Offer
    <3>2. ~work'[o].st.route /\ ~Ready(work'[o].st)
      BY <2>1, <3>1 DEF StatusOf, Ready
    <3> QED BY <2>2, <2>4, <3>2 DEF ReadyHasRoutes
  <2> QED BY <2>3, <2>4
<1>16. CASE DeleteRouteChildren(o)
  <2>1. /\ pc[o] = "teardown" /\ obj' = obj /\ work' = work
        /\ \/ work[o].phase = "deleting" /\ pc'[o] = "list"
           \/ work[o].phase # "deleting" /\ pc'[o] \in {"waiting", "status"}
    BY <1>16 DEF DeleteRouteChildren, AfterTeardown, Goto, TypeOK
  <2>2. CASE work[o].phase = "deleting"
    BY <2>1, <2>2 DEF CopyFits, ReadyHasRoutes
  <2>3. CASE work[o].phase # "deleting"
    <3>1. ~work[o].st.route
      BY <2>1, <2>3 DEF CopyFits, ReadyHasRoutes
    <3> QED BY <2>1, <2>3, <3>1 DEF ReadyHasRoutes, Ready
  <2> QED BY <2>2, <2>3
<1>17. CASE TeardownFails(o)
  <2>1. pc'[o] = "idle" /\ o \in queue'
    BY <1>17 DEF TeardownFails, Event, Done, TypeOK
  <2> QED BY <2>1 DEF ReadyHasRoutes, Owed
<1>18. CASE GateAndFilters(o)
  <2>1. CASE env.gateway
    BY <1>18, <2>1 DEF GateAndFilters, Goto, TypeOK, ReadyHasRoutes
  <2>2. CASE ~env.gateway
    <3>1. pc'[o] = "status" /\ ~work'[o].st.gate
      BY <1>18, <2>2 DEF GateAndFilters, Goto, SetStatus, TypeOK, Offer, StatusOf
    <3> QED BY <3>1 DEF ReadyHasRoutes, Ready
  <2> QED BY <2>1, <2>2
<1>19. CASE PublishRoute(o)
  <2> DEFINE s == work[o].spec
             route == Applied(kids[o].route, SharedOriginRoute(s))
             host == IF ~RouteAccepted(route) THEN kids[o].host
                     ELSE IF s.host = NoHost THEN NoRoute
                     ELSE Applied(kids[o].host, HostRoute(s))
             up == RouteAccepted(route) /\ (s.host # NoHost => RouteAccepted(host))
  <2>1. /\ kids' = [kids EXCEPT ![o].route = route, ![o].host = host]
        /\ work' = [work EXCEPT ![o].st = [work[o].st EXCEPT !.route = up]]
        /\ pc[o] = "route" /\ pc'[o] = "status"
    BY <1>19 DEF PublishRoute, SetStatus, Goto, TypeOK
  <2>2. work[o].st \in StatusOf /\ kids[o] \in Kids /\ route \in RouteOf /\ host \in RouteOf
    BY RoutesTyped DEF TypeOK, Offer
  <2>3. up => route = [at |-> s.path, limits |-> s.limits, accepted |-> TRUE]
    <3>1. route.at = s.path /\ route.limits = s.limits
      BY DEF Applied, SharedOriginRoute
    <3> QED BY <2>2, <3>1 DEF RouteAccepted, RouteOf
  <2>4. up => host = IF s.host = NoHost THEN NoRoute
                     ELSE [at |-> s.host, limits |-> s.limits, accepted |-> TRUE]
    <3>1. CASE s.host = NoHost
      BY <3>1
    <3>2. CASE s.host # NoHost /\ RouteAccepted(route)
      <4>1. host.at = s.host /\ host.limits = s.limits
        BY <3>2 DEF Applied, HostRoute
      <4> QED BY <2>2, <3>2, <4>1 DEF RouteAccepted, RouteOf
    <3> QED BY <3>1, <3>2
  <2> HIDE DEF route, host, up
  <2>5. kids'[o].route = route /\ kids'[o].host = host
    BY <2>1, <2>2 DEF TypeOK, Kids
  <2>6. work'[o].st.route = up /\ work'[o].spec = s
    BY <2>1, <2>2 DEF TypeOK, Offer, StatusOf
  <2>7. Ready(work'[o].st) => RoutedAs(o, work[o].spec)'
    <3>1. Ready(work'[o].st) => up
      BY <2>6 DEF Ready
    <3> QED BY <2>3, <2>4, <2>5, <2>6, <3>1 DEF RoutedAs
  <2> QED BY <2>1, <2>7 DEF ReadyHasRoutes
<1>20. CASE ChildFails(o)
  <2>1. pc'[o] = "idle" /\ o \in queue'
    BY <1>20 DEF ChildFails, Event, Done, TypeOK
  <2> QED BY <2>1 DEF ReadyHasRoutes, Owed
<1>21. CASE StatusConflicts(o)
  <2>1. pc'[o] = "idle" /\ o \in queue'
    BY <1>21 DEF StatusConflicts, Done, TypeOK
  <2> QED BY <2>1 DEF ReadyHasRoutes, Owed
<1>22. CASE WriteStatus(o)
  <2> DEFINE st == [work[o].st EXCEPT !.ready = Ready(work[o].st)]
  <2>1. /\ kids' = kids /\ Unmoved(o)
        /\ obj' = [obj EXCEPT ![o].st = st]
        /\ \/ pc[o] = "waiting" /\ pc'[o] = "idle"
           \/ pc[o] = "status" /\ pc'[o] = "list"
    BY <1>22 DEF WriteStatus, Goto, TypeOK
  <2>2. work[o].phase = "live" /\ work[o].spec = obj[o].spec
    BY <2>1 DEF CopyFits
  <2>3. obj'[o].spec = obj[o].spec /\ (obj'[o].st.ready <=> Ready(work[o].st))
    BY <2>1 DEF TypeOK, Offer, StatusOf, Ready
  <2>4. Ready(work[o].st) => RoutedAs(o, obj[o].spec)
    BY <2>1, <2>2 DEF ReadyHasRoutes, Ready
  <2> QED BY <2>1, <2>3, <2>4, SameKidsCarry DEF ReadyHasRoutes
<1>23. CASE ListOffers(o)
  <2>1. /\ kids' = kids /\ news' = news /\ queue' = queue /\ obj' = obj
        /\ pc[o] = "list" /\ pc'[o] = "publish"
    BY <1>23 DEF ListOffers, Goto, TypeOK
  <2> QED BY <2>1, SameKidsCarry DEF ReadyHasRoutes, Owed
<1>24. CASE PublishSite(o)
  <2>1. kids' = kids /\ news' = news /\ queue \subseteq queue' /\ obj' = obj /\ pc[o] = "publish"
    BY <1>24 DEF PublishSite, ReleaseSite, Done
  <2>2. pc' = [pc EXCEPT ![o] = "finalize"] \/ pc' = [pc EXCEPT ![o] = "idle"]
    BY <1>24 DEF PublishSite, ReleaseSite, Goto, Done
  <2> QED BY <2>1, <2>2, SameKidsCarry DEF ReadyHasRoutes, Owed, TypeOK
<1>25. CASE PublishSiteBlind(o)
  <2>1. kids' = kids /\ news' = news /\ queue \subseteq queue' /\ obj' = obj /\ pc[o] = "publish"
    BY <1>25 DEF PublishSiteBlind, ReleaseSite, Done
  <2>2. pc' = [pc EXCEPT ![o] = "finalize"] \/ pc' = [pc EXCEPT ![o] = "idle"]
    BY <1>25 DEF PublishSiteBlind, ReleaseSite, Goto, Done
  <2> QED BY <2>1, <2>2, SameKidsCarry DEF ReadyHasRoutes, Owed, TypeOK
<1>26. CASE PublishSiteFails(o)
  <2>1. kids' = kids /\ news' = news /\ queue \subseteq queue' /\ obj' = obj /\ pc[o] = "publish"
    BY <1>26 DEF PublishSiteFails, ReleaseSite, Done
  <2>2. pc' = [pc EXCEPT ![o] = "finalize"] \/ pc' = [pc EXCEPT ![o] = "idle"]
    BY <1>26 DEF PublishSiteFails, ReleaseSite, Goto, Done
  <2> QED BY <2>1, <2>2, SameKidsCarry DEF ReadyHasRoutes, Owed, TypeOK
<1>27. CASE RemoveFinalizer(o)
  <2>1. pc'[o] = "idle" /\ obj'[o].phase # "live"
    BY <1>27 DEF RemoveFinalizer, Done, TypeOK, CopyFits, Offer
  <2> QED BY <2>1 DEF ReadyHasRoutes
<1> QED BY <1>1, <1>2, <1>3, <1>4, <1>5, <1>6, <1>7, <1>8, <1>9, <1>10, <1>11, <1>12,
    <1>13, <1>14, <1>15, <1>16, <1>17, <1>18, <1>19, <1>20, <1>21, <1>22, <1>23, <1>24,
    <1>25, <1>26, <1>27 DEF StepOf, User, World, Dequeue, Reconcile

\* Every step does.
LEMMA ReadyStep ==
  ASSUME TypeOK, \A r \in Offers : Kept(r), [Next]_vars, NEW q \in Offers
  PROVE  ReadyHasRoutes(q)'
<1>1. ASSUME NEW o \in Offers, StepOf(o) PROVE ReadyHasRoutes(q)'
  <2>1. CASE o = q
    BY <1>1, <2>1, ReadyHere DEF Kept
  <2>2. CASE o # q
    <3>1. SameAt(q)
      BY <1>1, <2>2, Elsewhere
    <3>2. /\ RoutedAs(q, work[q].spec) => RoutedAs(q, work[q].spec)'
          /\ RoutedAs(q, obj[q].spec) => RoutedAs(q, obj[q].spec)'
      BY <3>1, SameKidsCarry DEF SameAt
    <3>3. ReadyHasRoutes(q)
      BY DEF Kept
    <3> QED BY <3>1, <3>2, <3>3 DEF SameAt, ReadyHasRoutes, Owed
  <2> QED BY <2>1, <2>2
<1>2. CASE GatewayFlips \/ BaseURLMoves \/ DiscoveryRefresh
  <2>1. /\ kids' = kids /\ pc' = pc /\ work' = work /\ news' = news /\ queue \subseteq queue'
        /\ obj' = obj
    BY <1>2 DEF GatewayFlips, BaseURLMoves, DiscoveryRefresh
  <2> QED BY <2>1 DEF Kept, ReadyHasRoutes, RoutedAs, Owed
<1>3. CASE Restart
  <2>1. obj' = obj /\ pc'[q] = "idle" /\ (Exists(q) => q \in queue')
    BY <1>3 DEF Restart
  <2> QED BY <2>1 DEF ReadyHasRoutes, Owed, Exists
<1>4. CASE UNCHANGED vars
  BY <1>4 DEF vars, Kept, ReadyHasRoutes, RoutedAs, Owed
<1> QED BY <1>1, <1>2, <1>3, <1>4 DEF Next, StepOf

----------------------------------------------------------------------------
(***************************************************************************)
(* The published site.                                                     *)
(***************************************************************************)

\* An object that is not live, or has no status, has no entry.
LEMMA BlankEntry ==
  ASSUME NEW q \in Offers, obj[q].phase # "live" \/ obj[q].st = NoStatus
  PROVE  CatalogEntry(q) = NoEntry
<1>1. ~Included(q)
  <2>1. CASE obj[q].phase # "live"
    BY <2>1 DEF Included
  <2>2. CASE obj[q].st = NoStatus
    <3>1. ~obj[q].st.ready /\ ~obj[q].st.model
      BY <2>2 DEF NoStatus
    <3> QED BY <3>1 DEF Included, OperationallyReady, Ready
  <2> QED BY <2>1, <2>2
<1>2. AvailabilityOf(q) = "no"
  BY <1>1 DEF AvailabilityOf
<1>3. Included(q) = FALSE
  BY <1>1 DEF Included
<1> QED BY <1>2, <1>3 DEF CatalogEntry, SkillMarkdown, ServiceCatalog, OpenAPIDocument,
    AggregateWellKnown, NoEntry

\* Only a reconcile that holds the lock writes the site, and only with what it
\* has listed; and listings come from the list under that lock.
LEMMA SiteMoves ==
  ASSUME TypeOK, NEW o \in Offers, StepOf(o)
  PROVE  \/ site' = site /\ listing' = listing
         \/ site' = site /\ ListOffers(o)
         \/ /\ PublishSite(o) \/ PublishSiteBlind(o) \/ PublishSiteFails(o)
            /\ pc[o] = "publish" /\ listing' = [listing EXCEPT ![o] = NoListing]
            /\ \/ site' = site
               \/ \E published \in {site.cm.bundle, [q \in Offers |-> "none"]} :
                    site'.cm = Rendered(o, published)
<1>1. CASE Create(o)
  BY <1>1 DEF Create
<1>2. CASE Edit(o)
  BY <1>2 DEF Edit, Event
<1>3. CASE Delete(o)
  BY <1>3 DEF Delete, Event
<1>4. CASE DrainEnds(o)
  BY <1>4 DEF DrainEnds
<1>5. CASE UpstreamFlips(o)
  BY <1>5 DEF UpstreamFlips, Event
<1>6. CASE AgentFlips(o)
  BY <1>6 DEF AgentFlips, Event
<1>7. CASE TimerFires(o)
  BY <1>7 DEF TimerFires
<1>8. CASE TraefikAccepts(o)
  BY <1>8 DEF TraefikAccepts
<1>9. CASE InformerDelivers(o)
  BY <1>9 DEF InformerDelivers
<1>10. CASE FetchMissing(o)
  BY <1>10 DEF FetchMissing, Take
<1>11. CASE AddFinalizer(o)
  BY <1>11 DEF AddFinalizer, Take
<1>12. CASE Fetch(o)
  BY <1>12 DEF Fetch, Take, Goto
<1>13. CASE FetchDeleting(o)
  BY <1>13 DEF FetchDeleting, Take, Goto
<1>14. CASE WaitForAgent(o)
  BY <1>14 DEF WaitForAgent, SetStatus, Goto
<1>15. CASE Decide(o)
  BY <1>15 DEF Decide, SetStatus, Goto
<1>16. CASE DeleteRouteChildren(o)
  BY <1>16 DEF DeleteRouteChildren, Goto
<1>17. CASE TeardownFails(o)
  BY <1>17 DEF TeardownFails, Event, Done
<1>18. CASE GateAndFilters(o)
  BY <1>18 DEF GateAndFilters, SetStatus, Goto
<1>19. CASE PublishRoute(o)
  BY <1>19 DEF PublishRoute, SetStatus, Goto
<1>20. CASE ChildFails(o)
  BY <1>20 DEF ChildFails, Event, Done
<1>21. CASE StatusConflicts(o)
  BY <1>21 DEF StatusConflicts, Done
<1>22. CASE WriteStatus(o)
  BY <1>22 DEF WriteStatus, Goto, RefreshDocument
<1>23. CASE RemoveFinalizer(o)
  BY <1>23 DEF RemoveFinalizer, Event, Done
<1>24. CASE ListOffers(o)
  BY <1>24 DEF ListOffers
<1>25. CASE PublishSite(o)
  BY <1>25 DEF PublishSite, ReleaseSite, Published
<1>26. CASE PublishSiteBlind(o)
  BY <1>26 DEF PublishSiteBlind, ReleaseSite, Published
<1>27. CASE PublishSiteFails(o)
  BY <1>27 DEF PublishSiteFails, ReleaseSite, Published
<1> QED BY <1>1, <1>2, <1>3, <1>4, <1>5, <1>6, <1>7, <1>8, <1>9, <1>10, <1>11, <1>12,
    <1>13, <1>14, <1>15, <1>16, <1>17, <1>18, <1>19, <1>20, <1>21, <1>22, <1>23, <1>24,
    <1>25, <1>26, <1>27 DEF StepOf, User, World, Dequeue, Reconcile

\* An offer without an entry that is not to get one stays without.
LEMMA UnlistedStays ==
  ASSUME TypeOK, NEW o \in Offers, StepOf(o), NEW q \in Offers, Unlisted(q),
         CatalogEntry(q) = NoEntry
  PROVE  Unlisted(q)'
<1>1. CASE site' = site /\ listing' = listing
  BY <1>1 DEF Unlisted
<1>2. CASE site' = site /\ ListOffers(o)
  <2>1. /\ listing'[o].catalog[q] = NoEntry
        /\ \A r \in Offers \ {o} : listing'[r] = listing[r]
    BY <1>2 DEF ListOffers, TypeOK
  <2> QED BY <1>2, <2>1 DEF Unlisted
<1>3. CASE /\ pc[o] = "publish" /\ listing' = [listing EXCEPT ![o] = NoListing]
           /\ \/ site' = site
              \/ \E published \in {site.cm.bundle, [r \in Offers |-> "none"]} :
                   site'.cm = Rendered(o, published)
  <2>1. \A r \in Offers : listing'[r].catalog[q] = NoEntry
    BY <1>3 DEF TypeOK, NoListing, Unlisted
  <2>2. site'.cm.catalog[q] = NoEntry
    <3>1. CASE site' = site
      BY <3>1 DEF Unlisted
    <3>2. CASE site' # site
      BY <1>3, <3>2 DEF Rendered, Unlisted
    <3> QED BY <3>1, <3>2
  <2> QED BY <2>1, <2>2 DEF Unlisted
<1> QED BY <1>1, <1>2, <1>3, SiteMoves

\* A bundle comes out rich only of a document, or of a rich one published before.
LEMMA RichRendered ==
  ASSUME NEW o \in Offers, NEW q \in Offers, NEW published,
         Rendered(o, published).bundle[q] = "rich"
  PROVE  cache[q] = "doc" \/ published[q] = "rich"
BY DEF Rendered, BundleOf

\* The cache and the bundles keep to the offers that front a Service.
LEMMA ProbedStep ==
  ASSUME TypeOK, \A r \in Offers : Probed(r), [Next]_vars, NEW q \in Offers
  PROVE  Probed(q)'
<1>1. ASSUME NEW o \in Offers, StepOf(o) PROVE Probed(q)'
  <2>1. site'.cm.bundle[q] = "rich" => ~IsAgent(q)
    <3> SUFFICES ASSUME site'.cm.bundle[q] = "rich" PROVE ~IsAgent(q)
      OBVIOUS
    <3>1. CASE site' = site
      BY <3>1 DEF Probed
    <3>2. CASE site' # site
      <4>1. PICK published \in {site.cm.bundle, [r \in Offers |-> "none"]} :
               site'.cm = Rendered(o, published)
        BY <1>1, <3>2, SiteMoves
      <4>2. cache[q] = "doc" \/ published[q] = "rich"
        BY <4>1, RichRendered
      <4> QED BY <4>1, <4>2 DEF Probed
    <3> QED BY <3>1, <3>2
  <2>2. cache'[q] = cache[q] \/ cache'[q] = "unsettled"
        \/ cache'[q] = (IF IsAgent(q) THEN "nil" ELSE "doc")
    <3>1. CASE o # q
      BY <1>1, <3>1, Elsewhere DEF SameAt
    <3>2. CASE o = q /\ Create(o)
      BY <3>2 DEF Create
    <3>3. CASE o = q /\ Edit(o)
      BY <3>3 DEF Edit, Event
    <3>4. CASE o = q /\ Delete(o)
      BY <3>4 DEF Delete, Event
    <3>5. CASE o = q /\ DrainEnds(o)
      BY <3>5 DEF DrainEnds
    <3>6. CASE o = q /\ UpstreamFlips(o)
      BY <3>6 DEF UpstreamFlips, Event
    <3>7. CASE o = q /\ AgentFlips(o)
      BY <3>7 DEF AgentFlips, Event
    <3>8. CASE o = q /\ TimerFires(o)
      BY <3>8 DEF TimerFires
    <3>9. CASE o = q /\ TraefikAccepts(o)
      BY <3>9 DEF TraefikAccepts
    <3>10. CASE o = q /\ InformerDelivers(o)
      BY <3>10 DEF InformerDelivers
    <3>11. CASE o = q /\ FetchMissing(o)
      BY <3>11 DEF FetchMissing, Take
    <3>12. CASE o = q /\ AddFinalizer(o)
      BY <3>12 DEF AddFinalizer, Take
    <3>13. CASE o = q /\ Fetch(o)
      BY <3>13 DEF Fetch, Take, Goto
    <3>14. CASE o = q /\ FetchDeleting(o)
      BY <3>14 DEF FetchDeleting, Take, Goto
    <3>15. CASE o = q /\ WaitForAgent(o)
      BY <3>15 DEF WaitForAgent, SetStatus, Goto
    <3>16. CASE o = q /\ Decide(o)
      BY <3>16 DEF Decide, SetStatus, Goto
    <3>17. CASE o = q /\ DeleteRouteChildren(o)
      BY <3>17 DEF DeleteRouteChildren, Goto
    <3>18. CASE o = q /\ TeardownFails(o)
      BY <3>18 DEF TeardownFails, Event, Done
    <3>19. CASE o = q /\ GateAndFilters(o)
      BY <3>19 DEF GateAndFilters, SetStatus, Goto
    <3>20. CASE o = q /\ PublishRoute(o)
      BY <3>20 DEF PublishRoute, SetStatus, Goto
    <3>21. CASE o = q /\ ChildFails(o)
      BY <3>21 DEF ChildFails, Event, Done
    <3>22. CASE o = q /\ StatusConflicts(o)
      BY <3>22 DEF StatusConflicts, Done
    <3>23. CASE o = q /\ WriteStatus(o)
      BY <3>23 DEF WriteStatus, Goto, RefreshDocument, ProbeOutcomes, TypeOK
    <3>24. CASE o = q /\ ListOffers(o)
      BY <3>24 DEF ListOffers, Goto
    <3>25. CASE o = q /\ PublishSite(o)
      BY <3>25 DEF PublishSite, ReleaseSite, Goto, Done, Published
    <3>26. CASE o = q /\ PublishSiteBlind(o)
      BY <3>26 DEF PublishSiteBlind, Event, ReleaseSite, Goto, Done, Published
    <3>27. CASE o = q /\ PublishSiteFails(o)
      BY <3>27 DEF PublishSiteFails, Event, ReleaseSite, Goto, Done, Published
    <3>28. CASE o = q /\ RemoveFinalizer(o)
      BY <3>28 DEF RemoveFinalizer, Event, Done, TypeOK
    <3> QED BY <1>1, <3>1, <3>2, <3>3, <3>4, <3>5, <3>6, <3>7, <3>8, <3>9, <3>10, <3>11,
        <3>12, <3>13, <3>14, <3>15, <3>16, <3>17, <3>18, <3>19, <3>20, <3>21, <3>22, <3>23,
        <3>24, <3>25, <3>26, <3>27, <3>28 DEF StepOf, User, World, Dequeue, Reconcile
  <2> QED BY <2>1, <2>2 DEF Probed
<1>2. CASE GatewayFlips \/ BaseURLMoves \/ DiscoveryRefresh
  BY <1>2 DEF GatewayFlips, BaseURLMoves, DiscoveryRefresh, Probed
<1>3. CASE Restart
  BY <1>3 DEF Restart, Probed
<1>4. CASE UNCHANGED vars
  BY <1>4 DEF vars, Probed
<1> QED BY <1>1, <1>2, <1>3, <1>4 DEF Next, StepOf

----------------------------------------------------------------------------
(***************************************************************************)
(* Blank objects and deletions.                                            *)
(***************************************************************************)

\* The step of an offer leaves nothing on an object without finalizer, or gone.
LEMMA BareHere ==
  ASSUME TypeOK, NEW o \in Offers, CopyFits(o), BareIsBlank(o), DeletionEmpties(o),
      StepOf(o)
  PROVE  BareIsBlank(o)'
<1>0. ~obj[o].finalizer \/ obj[o].phase = "gone" => Unlisted(o)'
  BY UnlistedStays, BlankEntry DEF BareIsBlank
<1>1. CASE WaitForAgent(o) \/ Decide(o) \/ DeleteRouteChildren(o) \/ TeardownFails(o) \/
    GateAndFilters(o) \/ PublishRoute(o) \/ ChildFails(o) \/ StatusConflicts(o) \/
    ListOffers(o) \/ PublishSite(o) \/ PublishSiteBlind(o) \/ PublishSiteFails(o)
  <2>1. obj' = obj /\ pc[o] # "idle"
    BY <1>1 DEF WaitForAgent, Decide, DeleteRouteChildren, TeardownFails, GateAndFilters, PublishRoute, ChildFails, StatusConflicts, ListOffers, PublishSite, PublishSiteBlind, PublishSiteFails
  <2> QED BY <2>1 DEF BareIsBlank, CopyFits, Exists
<1>2. CASE Create(o)
  BY <1>2, <1>0, CreateShape DEF BareIsBlank
<1>3. CASE Edit(o)
  <2>1. /\ kids' = kids /\ pc' = pc /\ seen' = seen
        /\ obj[o].phase = "live" /\ obj'[o].phase = "live"
        /\ obj'[o].finalizer = obj[o].finalizer /\ obj'[o].st = obj[o].st
    BY <1>3 DEF Edit, TypeOK, Offer
  <2> QED BY <1>0, <2>1 DEF BareIsBlank
<1>4. CASE Delete(o)
  <2>1. /\ kids' = kids /\ pc' = pc /\ seen' = seen
        /\ obj[o].phase = "live"
        /\ obj'[o].phase = (IF obj[o].finalizer THEN "deleting" ELSE "gone")
        /\ obj'[o].finalizer = obj[o].finalizer /\ obj'[o].st = obj[o].st
    BY <1>4 DEF Delete, TypeOK, Offer
  <2> QED BY <1>0, <2>1 DEF BareIsBlank
<1>5. CASE DrainEnds(o)
  <2>1. /\ kids' = kids /\ pc' = pc /\ seen' = seen
        /\ obj[o].phase = "live" /\ obj'[o].phase = "live"
        /\ obj'[o].finalizer = obj[o].finalizer /\ obj'[o].st = obj[o].st
    BY <1>5 DEF DrainEnds, TypeOK, Offer
  <2> QED BY <1>0, <2>1 DEF BareIsBlank
<1>6. CASE UpstreamFlips(o)
  <2>1. obj' = obj /\ seen' = seen /\ news' = news /\ kids' = kids /\ pc' = pc
    BY <1>6 DEF UpstreamFlips, Event
  <2> QED BY <1>0, <2>1 DEF BareIsBlank
<1>7. CASE AgentFlips(o)
  <2>1. obj' = obj /\ seen' = seen /\ news' = news /\ kids' = kids /\ pc' = pc
    BY <1>7 DEF AgentFlips, Event
  <2> QED BY <1>0, <2>1 DEF BareIsBlank
<1>8. CASE TimerFires(o)
  <2>1. obj' = obj /\ seen' = seen /\ news' = news /\ kids' = kids /\ pc' = pc
    BY <1>8 DEF TimerFires
  <2> QED BY <1>0, <2>1 DEF BareIsBlank
<1>9. CASE TraefikAccepts(o)
  <2>1. obj' = obj /\ seen' = seen /\ news' = news /\ pc' = pc
    BY <1>9 DEF TraefikAccepts
  <2>2. kids[o] # NoKids
    <3> SUFFICES ASSUME kids[o] = NoKids PROVE FALSE
      OBVIOUS
    <3>1. PICK r \in {"route", "host"} : kids[o][r].at # NoHost
      BY <1>9 DEF TraefikAccepts
    <3> QED BY <3>1 DEF NoKids, NoRoute
  <2> QED BY <1>0, <2>1, <2>2 DEF BareIsBlank
<1>10. CASE InformerDelivers(o)
  <2>1. /\ obj' = obj /\ kids' = kids /\ pc' = pc /\ o \in news
    BY <1>10 DEF InformerDelivers
  <2> QED BY <1>0, <2>1 DEF BareIsBlank
<1>11. CASE FetchMissing(o)
  <2>1. obj' = obj /\ seen' = seen /\ news' = news /\ kids' = kids /\ pc' = pc
    BY <1>11 DEF FetchMissing, Take
  <2> QED BY <1>0, <2>1 DEF BareIsBlank
<1>12. CASE AddFinalizer(o)
  <2>1. obj[o].phase = "live" /\ obj'[o].phase = "live" /\ obj'[o].finalizer
    BY <1>12 DEF AddFinalizer, TypeOK, Offer
  <2> QED BY <2>1 DEF BareIsBlank
<1>13. CASE Fetch(o)
  <2>1. obj' = obj /\ obj[o].phase \in {"live", "deleting"} /\ obj[o].finalizer
    BY <1>13 DEF Fetch, BareIsBlank
  <2> QED BY <2>1 DEF BareIsBlank
<1>14. CASE FetchDeleting(o)
  <2>1. obj' = obj /\ obj[o].phase \in {"live", "deleting"} /\ obj[o].finalizer
    BY <1>14 DEF FetchDeleting, BareIsBlank
  <2> QED BY <2>1 DEF BareIsBlank
<1>15. CASE WriteStatus(o)
  <2>1. pc[o] # "idle" /\ obj'[o].phase = obj[o].phase /\ obj'[o].finalizer = obj[o].finalizer
    BY <1>15 DEF WriteStatus, TypeOK, Offer
  <2> QED BY <2>1 DEF BareIsBlank, CopyFits, Exists
<1>16. CASE RemoveFinalizer(o)
  <2>1. /\ pc[o] = "finalize" /\ kids' = kids /\ pc'[o] = "idle" /\ site' = site /\ listing' = listing
        /\ obj'[o].finalizer = obj[o].finalizer
        /\ obj'[o].phase = obj[o].phase \/ obj'[o].phase = "gone"
    BY <1>16 DEF RemoveFinalizer, Done, TypeOK, Offer
  <2>2. obj[o].phase = "deleting" /\ obj[o].finalizer /\ kids[o] = NoKids /\ Unlisted(o)
    BY <2>1 DEF CopyFits, DeletionEmpties
  <2>3. Unlisted(o)'
    BY <2>1, <2>2 DEF Unlisted
  <2> QED BY <2>1, <2>2, <2>3 DEF BareIsBlank
<1> QED BY <1>1, <1>2, <1>3, <1>4, <1>5, <1>6, <1>7, <1>8, <1>9, <1>10, <1>11, <1>12,
    <1>13, <1>14, <1>15, <1>16 DEF StepOf, User, World, Dequeue, Reconcile

\* Every step does.
LEMMA BareStep ==
  ASSUME TypeOK, \A r \in Offers : Kept(r), [Next]_vars, NEW q \in Offers
  PROVE  BareIsBlank(q)'
<1>1. ASSUME NEW o \in Offers, StepOf(o) PROVE BareIsBlank(q)'
  <2>1. CASE o = q
    BY <1>1, <2>1, BareHere DEF Kept
  <2>2. CASE o # q
    <3>1. SameAt(q) /\ BareIsBlank(q)
      BY <1>1, <2>2, Elsewhere DEF Kept
    <3>2. ~obj[q].finalizer \/ obj[q].phase = "gone" => Unlisted(q)'
      BY <1>1, <3>1, UnlistedStays, BlankEntry DEF BareIsBlank
    <3> QED BY <3>1, <3>2 DEF SameAt, BareIsBlank
  <2> QED BY <2>1, <2>2
<1>2. CASE GatewayFlips \/ BaseURLMoves \/ DiscoveryRefresh
  <2>1. /\ obj' = obj /\ seen' = seen /\ news' = news /\ kids' = kids /\ pc' = pc
        /\ site' = site /\ listing' = listing
    BY <1>2 DEF GatewayFlips, BaseURLMoves, DiscoveryRefresh
  <2> QED BY <2>1 DEF Kept, BareIsBlank, Unlisted
<1>3. CASE Restart
  <2>1. /\ obj' = obj /\ news' = {} /\ kids' = kids /\ pc'[q] = "idle"
        /\ site' = site /\ seen'[q].phase = obj[q].phase
        /\ \A r \in Offers : listing'[r].catalog[q] = NoEntry
    BY <1>3 DEF Restart, NoListing
  <2> QED BY <2>1 DEF Kept, BareIsBlank, Unlisted
<1>4. CASE UNCHANGED vars
  BY <1>4 DEF vars, Kept, BareIsBlank, Unlisted
<1> QED BY <1>1, <1>2, <1>3, <1>4 DEF Next, StepOf

\* The step of an offer keeps its own deletion emptying.
LEMMA EmptiesHere ==
  ASSUME TypeOK, NEW o \in Offers, Locked, CopyFits(o), DeletionEmpties(o), StepOf(o)
  PROVE  DeletionEmpties(o)'
<1>0. pc[o] = "finalize" => Unlisted(o)'
  BY UnlistedStays, BlankEntry DEF CopyFits, DeletionEmpties
<1>1. CASE Create(o)
  <2>1. pc' = pc /\ work' = work /\ kids' = kids /\ listing' = listing
    BY <1>1 DEF Create
  <2> QED BY <1>0, <2>1 DEF DeletionEmpties
<1>2. CASE Edit(o)
  <2>1. pc' = pc /\ work' = work /\ kids' = kids /\ listing' = listing
    BY <1>2 DEF Edit, Event
  <2> QED BY <1>0, <2>1 DEF DeletionEmpties
<1>3. CASE Delete(o)
  <2>1. pc' = pc /\ work' = work /\ kids' = kids /\ listing' = listing
    BY <1>3 DEF Delete, Event
  <2> QED BY <1>0, <2>1 DEF DeletionEmpties
<1>4. CASE DrainEnds(o)
  <2>1. pc' = pc /\ work'[o].phase = work[o].phase /\ kids' = kids /\ listing' = listing
    BY <1>4 DEF DrainEnds, TypeOK, Offer
  <2> QED BY <1>0, <2>1 DEF DeletionEmpties
<1>5. CASE UpstreamFlips(o)
  <2>1. pc' = pc /\ work' = work /\ kids' = kids /\ listing' = listing
    BY <1>5 DEF UpstreamFlips, Event
  <2> QED BY <1>0, <2>1 DEF DeletionEmpties
<1>6. CASE AgentFlips(o)
  <2>1. pc' = pc /\ work' = work /\ kids' = kids /\ listing' = listing
    BY <1>6 DEF AgentFlips, Event
  <2> QED BY <1>0, <2>1 DEF DeletionEmpties
<1>7. CASE TimerFires(o)
  <2>1. pc' = pc /\ work' = work /\ kids' = kids /\ listing' = listing
    BY <1>7 DEF TimerFires
  <2> QED BY <1>0, <2>1 DEF DeletionEmpties
<1>8. CASE TraefikAccepts(o)
  <2>1. pc' = pc /\ work' = work /\ listing' = listing
    BY <1>8 DEF TraefikAccepts
  <2>2. kids[o] # NoKids
    <3> SUFFICES ASSUME kids[o] = NoKids PROVE FALSE
      OBVIOUS
    <3>1. PICK r \in {"route", "host"} : kids[o][r].at # NoHost
      BY <1>8 DEF TraefikAccepts
    <3> QED BY <3>1 DEF NoKids, NoRoute
  <2> QED BY <1>0, <2>1, <2>2 DEF DeletionEmpties
<1>9. CASE InformerDelivers(o)
  <2>1. pc' = pc /\ work' = work /\ kids' = kids /\ listing' = listing
    BY <1>9 DEF InformerDelivers
  <2> QED BY <1>0, <2>1 DEF DeletionEmpties
<1>10. CASE FetchMissing(o)
  <2>1. pc' = pc /\ work' = work /\ kids' = kids /\ listing' = listing
    BY <1>10 DEF FetchMissing, Take
  <2> QED BY <1>0, <2>1 DEF DeletionEmpties
<1>11. CASE AddFinalizer(o)
  <2>1. pc' = pc /\ work' = work /\ kids' = kids /\ listing' = listing
    BY <1>11 DEF AddFinalizer, Take
  <2> QED BY <1>0, <2>1 DEF DeletionEmpties
<1>12. CASE Fetch(o)
  BY <1>12 DEF Fetch, Goto, TypeOK, DeletionEmpties
<1>13. CASE FetchDeleting(o)
  BY <1>13 DEF FetchDeleting, Goto, TypeOK, DeletionEmpties
<1>14. CASE WaitForAgent(o)
  BY <1>14 DEF WaitForAgent, Goto, TypeOK, DeletionEmpties
<1>15. CASE Decide(o)
  BY <1>15 DEF Decide, Goto, TypeOK, DeletionEmpties
<1>16. CASE DeleteRouteChildren(o)
  <2>1. kids'[o] = NoKids /\ pc'[o] \notin {"publish", "finalize"}
    BY <1>16 DEF DeleteRouteChildren, Goto, AfterTeardown, TypeOK
  <2> QED BY <2>1 DEF DeletionEmpties
<1>17. CASE TeardownFails(o)
  BY <1>17 DEF TeardownFails, Done, TypeOK, DeletionEmpties
<1>18. CASE GateAndFilters(o)
  BY <1>18 DEF GateAndFilters, Goto, TypeOK, DeletionEmpties
<1>19. CASE PublishRoute(o)
  BY <1>19 DEF PublishRoute, Goto, TypeOK, DeletionEmpties
<1>20. CASE ChildFails(o)
  BY <1>20 DEF ChildFails, Done, TypeOK, DeletionEmpties
<1>21. CASE StatusConflicts(o)
  BY <1>21 DEF StatusConflicts, Done, TypeOK, DeletionEmpties
<1>22. CASE WriteStatus(o)
  <2>1. \/ pc'[o] = "idle"
        \/ pc'[o] = "list" /\ work' = work /\ work[o].phase # "deleting"
    BY <1>22 DEF WriteStatus, Goto, TypeOK, CopyFits
  <2> QED BY <2>1 DEF DeletionEmpties
<1>23. CASE ListOffers(o)
  <2>1. pc[o] = "list" /\ pc'[o] = "publish" /\ work' = work /\ kids' = kids
    BY <1>23 DEF ListOffers, Goto, TypeOK
  <2>2. work[o].phase = "deleting" => CatalogEntry(o) = NoEntry
    BY <2>1, BlankEntry DEF CopyFits
  <2>3. listing'[o].catalog[o] = CatalogEntry(o)
    BY <1>23 DEF ListOffers, TypeOK
  <2> QED BY <2>1, <2>2, <2>3 DEF DeletionEmpties
<1>24. CASE PublishSite(o)
  <2>1. /\ pc[o] = "publish" /\ kids' = kids /\ listing' = [listing EXCEPT ![o] = NoListing]
        /\ \E published : site'.cm = Rendered(o, published)
        /\ \/ pc'[o] = "finalize" /\ work[o].phase = "deleting" /\ work' = work
           \/ pc'[o] = "idle"
    BY <1>24 DEF PublishSite, Published, ReleaseSite, Goto, Done, TypeOK
  <2>2. CASE pc'[o] = "finalize"
    <3>1. kids[o] = NoKids /\ listing[o].catalog[o] = NoEntry
      BY <2>1, <2>2 DEF DeletionEmpties
    <3>2. \A r \in Offers \ {o} : listing[r] = NoListing
      BY <2>1 DEF Locked, TypeOK
    <3>3. \A r \in Offers : listing'[r].catalog[o] = NoEntry
      BY <2>1, <3>2 DEF NoListing, TypeOK
    <3>4. site'.cm.catalog[o] = NoEntry
      BY <2>1, <3>1 DEF Rendered
    <3> QED BY <2>1, <2>2, <3>1, <3>3, <3>4 DEF DeletionEmpties, Unlisted
  <2>3. CASE pc'[o] = "idle"
    BY <2>3 DEF DeletionEmpties
  <2> QED BY <2>1, <2>2, <2>3
<1>25. CASE PublishSiteBlind(o)
  <2>1. /\ pc[o] = "publish" /\ kids' = kids /\ listing' = [listing EXCEPT ![o] = NoListing]
        /\ \E published : site'.cm = Rendered(o, published)
        /\ \/ pc'[o] = "finalize" /\ work[o].phase = "deleting" /\ work' = work
           \/ pc'[o] = "idle"
    BY <1>25 DEF PublishSiteBlind, Published, ReleaseSite, Goto, Done, TypeOK
  <2>2. CASE pc'[o] = "finalize"
    <3>1. kids[o] = NoKids /\ listing[o].catalog[o] = NoEntry
      BY <2>1, <2>2 DEF DeletionEmpties
    <3>2. \A r \in Offers \ {o} : listing[r] = NoListing
      BY <2>1 DEF Locked, TypeOK
    <3>3. \A r \in Offers : listing'[r].catalog[o] = NoEntry
      BY <2>1, <3>2 DEF NoListing, TypeOK
    <3>4. site'.cm.catalog[o] = NoEntry
      BY <2>1, <3>1 DEF Rendered
    <3> QED BY <2>1, <2>2, <3>1, <3>3, <3>4 DEF DeletionEmpties, Unlisted
  <2>3. CASE pc'[o] = "idle"
    BY <2>3 DEF DeletionEmpties
  <2> QED BY <2>1, <2>2, <2>3
<1>26. CASE PublishSiteFails(o)
  <2>1. pc'[o] = "idle"
    BY <1>26 DEF PublishSiteFails, ReleaseSite, Goto, Done, TypeOK
  <2> QED BY <2>1 DEF DeletionEmpties
<1>27. CASE RemoveFinalizer(o)
  BY <1>27 DEF RemoveFinalizer, Done, TypeOK, DeletionEmpties
<1> QED BY <1>1, <1>2, <1>3, <1>4, <1>5, <1>6, <1>7, <1>8, <1>9, <1>10, <1>11, <1>12,
    <1>13, <1>14, <1>15, <1>16, <1>17, <1>18, <1>19, <1>20, <1>21, <1>22, <1>23, <1>24,
    <1>25, <1>26, <1>27 DEF StepOf, User, World, Dequeue, Reconcile

\* Every step does.
LEMMA EmptiesStep ==
  ASSUME TypeOK, Locked, \A r \in Offers : Kept(r), [Next]_vars, NEW q \in Offers
  PROVE  DeletionEmpties(q)'
<1>1. ASSUME NEW o \in Offers, StepOf(o) PROVE DeletionEmpties(q)'
  <2>1. CASE o = q
    BY <1>1, <2>1, EmptiesHere DEF Kept
  <2>2. CASE o # q
    <3>1. SameAt(q) /\ DeletionEmpties(q) /\ CopyFits(q)
      BY <1>1, <2>2, Elsewhere DEF Kept
    <3>2. pc[q] = "finalize" => Unlisted(q)'
      BY <1>1, <3>1, UnlistedStays, BlankEntry DEF CopyFits, DeletionEmpties
    <3> QED BY <3>1, <3>2 DEF SameAt, DeletionEmpties
  <2> QED BY <2>1, <2>2
<1>2. CASE GatewayFlips \/ BaseURLMoves \/ DiscoveryRefresh
  <2>1. work' = work /\ kids' = kids /\ pc' = pc /\ site' = site /\ listing' = listing
    BY <1>2 DEF GatewayFlips, BaseURLMoves, DiscoveryRefresh
  <2> QED BY <2>1 DEF Kept, DeletionEmpties, Unlisted
<1>3. CASE Restart
  <2>1. pc'[q] = "idle"
    BY <1>3 DEF Restart
  <2> QED BY <2>1 DEF DeletionEmpties
<1>4. CASE UNCHANGED vars
  BY <1>4 DEF vars, Kept, DeletionEmpties, Unlisted
<1> QED BY <1>1, <1>2, <1>3, <1>4 DEF Next, StepOf

----------------------------------------------------------------------------
(***************************************************************************)
(* The theorems.                                                           *)
(***************************************************************************)

\* The initial states have the invariant.
LEMMA OfferInit == Init => OfferIInv
<1> SUFFICES ASSUME Init PROVE OfferIInv
  OBVIOUS
<1>1. PICK used \in SUBSET Offers :
        /\ obj = [o \in Offers |-> IF o \in used THEN Absent
                                   ELSE [Absent EXCEPT !.phase = "gone"]]
        /\ left = MaxEvents[used]
  BY DEF Init
<1>2. \A o \in Offers : /\ obj[o].phase \in {"absent", "gone"} /\ ~obj[o].finalizer
                        /\ obj[o].st = NoStatus
  BY <1>1 DEF Absent
<1>3. [Absent EXCEPT !.phase = "gone"] \in Offer
  BY Blanks DEF Absent, Offer
<1>4. obj \in [Offers -> Offer] /\ left \in Nat
  BY <1>1, <1>3, Blanks, OfferAssumption DEF OfferAssumption
<1>5. /\ news = {} /\ queue = {} /\ timer = {} /\ lock = {}
      /\ pc = [o \in Offers |-> "idle"] /\ work = [o \in Offers |-> Absent]
      /\ seen = [o \in Offers |-> [phase |-> "absent", path |-> NoHost, host |-> NoHost]]
      /\ kids = [o \in Offers |-> NoKids] /\ cache = [o \in Offers |-> "unsettled"]
      /\ listing = [o \in Offers |-> NoListing]
      /\ site = [cm |-> NoContent, applied |-> Len(SiteObjects)]
      /\ edition = 0 /\ notice = FALSE
      /\ env = [healthy |-> Offers, agents |-> AgentOffers, gateway |-> TRUE]
  BY DEF Init
<1>6. TypeOK
  <2>1. seen \in [Offers -> View] /\ pc \in [Offers -> Stage]
    BY <1>5 DEF View, Stage
  <2>2. work \in [Offers -> Offer] /\ kids \in [Offers -> Kids]
    BY <1>5, Blanks
  <2>3. listing \in [Offers -> [catalog: [Offers -> Entry], hosted: SUBSET Offers,
                                edition: Nat]]
    BY <1>5, Blanks
  <2>4. site \in [cm: Content, applied: 0..Len(SiteObjects)]
    <3>1. Len(SiteObjects) \in Nat
      BY DEF SiteObjects, StaticSiteWorkload, StaticSiteRoutes
    <3> QED BY <1>5, <3>1, Blanks
  <2>5. env \in [healthy: SUBSET Offers, agents: SUBSET AgentOffers, gateway: BOOLEAN]
    BY <1>5
  <2> QED BY <1>4, <1>5, <2>1, <2>2, <2>3, <2>4, <2>5 DEF TypeOK
<1>7. Locked
  BY <1>5 DEF Locked
<1>8. ASSUME NEW o \in Offers PROVE Kept(o)
  <2>1. pc[o] = "idle" /\ kids[o] = NoKids /\ cache[o] = "unsettled" /\ Unlisted(o)
    BY <1>5 DEF Unlisted, NoContent, NoListing
  <2>2. site.cm.bundle[o] = "none" /\ seen[o].phase = "absent"
    BY <1>5 DEF NoContent
  <2>3. ~Dangling(o)
    BY <2>1, NoKidsHang
  <2>4. CopyFits(o) /\ DeletionEmpties(o)
    BY <2>1 DEF CopyFits, DeletionEmpties
  <2>5. BareIsBlank(o)
    BY <1>2, <1>5, <2>1, <2>2 DEF BareIsBlank
  <2>6. StoreKnows(o)
    BY <1>2, <1>5, <2>1, <2>2 DEF StoreKnows
  <2>7. DanglingIsOwed(o)
    BY <2>1, <2>3 DEF DanglingIsOwed
  <2>8. ReadyHasRoutes(o)
    BY <1>2, <2>1 DEF ReadyHasRoutes
  <2>9. Probed(o)
    BY <2>1, <2>2 DEF Probed
  <2> QED BY <2>4, <2>5, <2>6, <2>7, <2>8, <2>9 DEF Kept
<1> QED BY <1>6, <1>7, <1>8 DEF OfferIInv

\* Every step keeps it.
LEMMA OfferStep == OfferIInv /\ [Next]_vars => OfferIInv'
<1> SUFFICES ASSUME OfferIInv, [Next]_vars PROVE OfferIInv'
  OBVIOUS
<1>1. TypeOK /\ Locked /\ \A q \in Offers : Kept(q)
  BY DEF OfferIInv
<1>2. TypeOK' /\ Locked'
  BY <1>1, TypeStep, LockedStep
<1>3. ASSUME NEW q \in Offers PROVE Kept(q)'
  <2>1. \A r \in Offers : /\ CopyFits(r) /\ BareIsBlank(r) /\ StoreKnows(r) /\ Probed(r)
    BY <1>1 DEF Kept
  <2>2. CopyFits(q)' /\ StoreKnows(q)' /\ Probed(q)'
    BY <1>1, <2>1, CopyStep, StoreStep, ProbedStep
  <2>3. BareIsBlank(q)' /\ DeletionEmpties(q)'
    BY <1>1, BareStep, EmptiesStep
  <2>4. DanglingIsOwed(q)' /\ ReadyHasRoutes(q)'
    BY <1>1, DanglingStep, ReadyStep
  <2> QED BY <2>2, <2>3, <2>4 DEF Kept
<1> QED BY <1>2, <1>3 DEF OfferIInv

\* The invariant holds.
LEMMA OfferAlways == Spec => []OfferIInv
BY OfferInit, OfferStep, PTL DEF Spec

\* An offer that is gone has neither a child nor an entry in the published
\* catalog, and a route that refers to a missing limit Middleware belongs to an
\* offer that is owed a reconcile, or whose agent is away, whatever the
\* interleaving of the workers, the failed calls and the restarts
\* (reconcileDeletingOffer, reconcileRoute).
THEOREM OfferHolds == Spec => []OfferInv
<1>1. OfferIInv => OfferInv
  <2> SUFFICES ASSUME OfferIInv PROVE OfferInv
    OBVIOUS
  <2>1. TypeOK /\ \A o \in Offers : Kept(o)
    BY DEF OfferIInv
  <2>2. GoneLeavesNothing
    BY <2>1 DEF GoneLeavesNothing, Kept, BareIsBlank, Unlisted
  <2>3. DanglingOnlyWhileLimitsGo
    <3> SUFFICES ASSUME NEW o \in Offers, Dangling(o), pc[o] = "idle"
                 PROVE  o \in queue \cup news \/ ~AgentResolved(o)
      BY DEF DanglingOnlyWhileLimitsGo, Dangling
    <3> QED BY <2>1 DEF Kept, DanglingIsOwed, Owed
  <2> QED BY <2>1, <2>2, <2>3 DEF OfferInv
<1> QED BY <1>1, OfferAlways, PTL

\* When nothing is owed to an offer whose status says Ready, its routes are
\* those of its spec and accepted as such (httpRouteAccepted, updateOfferStatus).
THEOREM ReadyHolds == Spec => []ReadyIsRouted
<1>1. OfferIInv => ReadyIsRouted
  BY DEF OfferIInv, Kept, ReadyHasRoutes, Owed, ReadyIsRouted
<1> QED BY <1>1, OfferAlways, PTL

\* No rebuild that could read the published data replaces a rich bundle by the
\* fallback (buildOfferBundles).
THEOREM RichHolds == Spec => RichBundleIsKept
<1> DEFINE Keeps == \A o \in Offers :
             site.cm.bundle[o] = "rich" /\ site'.cm.bundle[o] = "thin" => left' < left
<1>1. OfferIInv /\ [Next]_vars => [Keeps]_vars
  <2> SUFFICES ASSUME OfferIInv, Next, NEW q \in Offers,
                      site.cm.bundle[q] = "rich", site'.cm.bundle[q] = "thin"
               PROVE  left' < left
    BY DEF Keeps
  <2>1. TypeOK /\ Probed(q)
    BY DEF OfferIInv, Kept
  <2>2. PICK o \in Offers : StepOf(o)
    <3>1. CASE GatewayFlips \/ BaseURLMoves \/ DiscoveryRefresh \/ Restart
      BY <3>1 DEF GatewayFlips, BaseURLMoves, DiscoveryRefresh, Restart
    <3> QED BY <3>1 DEF Next, StepOf
  <2>3. PublishSite(o) \/ PublishSiteBlind(o) \/ PublishSiteFails(o)
    BY <2>1, <2>2, SiteMoves
  <2>4. CASE PublishSiteBlind(o) \/ PublishSiteFails(o)
    BY <2>1, <2>4 DEF PublishSiteBlind, PublishSiteFails, Event, TypeOK
  <2>5. CASE PublishSite(o)
    <3>1. site'.cm = Rendered(o, site.cm.bundle)
      BY <2>5 DEF PublishSite, Published
    <3>2. cache[q] # "nil" /\ cache[q] \in {"unsettled", "doc", "nil"}
      BY <2>1 DEF Probed, TypeOK
    <3> QED BY <3>1, <3>2 DEF Rendered, BundleOf
  <2> QED BY <2>3, <2>4, <2>5
<1> QED BY <1>1, OfferAlways, PTL DEF Spec, RichBundleIsKept
=============================================================================
