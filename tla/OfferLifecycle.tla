--------------------------- MODULE OfferLifecycle ---------------------------
(***************************************************************************)
(* The ServiceOffer reconciler of the serviceoffer-controller              *)
(* (internal/serviceoffercontroller: controller.go, pathconflict.go,       *)
(* catalog.go, offerbundle.go, upstream_openapi.go, agent_resolver.go and  *)
(* the object builders of render.go), for offers without on-chain          *)
(* registration (Registration has that part).                              *)
(*                                                                         *)
(* An offer is published as a ReferenceGrant, limit Middlewares and one or *)
(* two HTTPRoutes, and advertised in one catalog ConfigMap that every      *)
(* reconcile of every offer rebuilds.  Reconciles read an informer store   *)
(* that lags the API server, work on a copy of the offer, and end in a     *)
(* status write that conflicts when the offer moved meanwhile.             *)
(*                                                                         *)
(* An offer name is used for one incarnation: created, deleted, gone.      *)
(***************************************************************************)
EXTENDS Naturals, FiniteSets, Sequences

CONSTANTS Offers,       \* ServiceOffers
          AgentOffers,  \* those of type agent; the others front a Service
          Limited,      \* those created with request limits
          Rank,         \* the order of their namespace/name
          Paths,        \* public paths an offer may ask for
          Reserved,     \* the ones under a reserved platform root
          Hosts,        \* dedicated hostnames
          NoHost,       \* "no hostname", also "no path" of a missing route
          Workers,      \* the controller's -workers flag (1 by default)
          Editable,     \* spec fields the users of an instance edit
          MaxEvents     \* bound: edits, deletions, failed calls, restarts, and
                        \* changes of upstreams, agents and the gateway together,
                        \* for each set of offers in use

ASSUME OfferAssumption ==
    /\ AgentOffers \subseteq Offers /\ Limited \subseteq Offers /\ Reserved \subseteq Paths
    /\ Rank \in [Offers -> Nat]
    /\ \A o, q \in Offers : Rank[o] = Rank[q] => o = q
    /\ NoHost \notin Hosts \cup Paths
    /\ Workers \in Nat \ {0}
    /\ Editable \subseteq {"path", "host", "limits", "model", "drain"}
    /\ MaxEvents \in [SUBSET Offers -> Nat]

VARIABLES obj,      \* the ServiceOffer objects in the API server
          seen,     \* what the informer's store holds of them
          news,     \* offers with a watch event under way
          queue,    \* keys in offerQueue, delayed and rate-limited ones too
          timer,    \* keys AddAfter brings back when their drain ends
          pc, work, \* the reconcile of each offer and its copy of it
          kids,     \* the children: grant, middlewares, the two routes
          cache,    \* upstreamOpenAPICache
          lock,     \* staticSiteMu: the offer whose reconcile holds it
          listing,  \* what each rebuild listed
          site,     \* the catalog ConfigMap, and the objects that are up to date with it
          edition,  \* version of the tunnel URL and storefront profile
          notice,   \* their watch event is under way
          env,      \* healthy upstreams, Ready agents, the gateway's replicas
          left      \* what remains of the bound

apiVars  == <<obj, seen, news>>
workVars == <<queue, timer, pc, work>>
siteVars == <<lock, listing, site>>
worldVars == <<edition, notice, env>>
vars == <<apiVars, workVars, kids, cache, siteVars, worldVars, left>>

NoStatus == [obs |-> 0, model |-> FALSE, up |-> FALSE, gate |-> FALSE,
             route |-> FALSE, ready |-> FALSE]
NoSpec == [path |-> NoHost, host |-> NoHost, limits |-> FALSE, model |-> TRUE,
           drain |-> "no"]
Absent == [phase |-> "absent", finalizer |-> FALSE, born |-> 0, gen |-> 0,
           spec |-> NoSpec, st |-> NoStatus]
NoRoute == [at |-> NoHost, limits |-> FALSE, accepted |-> FALSE]
NoKids == [grant |-> FALSE, filters |-> FALSE, route |-> NoRoute, host |-> NoRoute]
NoEntry == [skill |-> "no", services |-> "no", openapi |-> FALSE, x402 |-> FALSE]
NoContent == [catalog |-> [o \in Offers |-> NoEntry],
              bundle |-> [o \in Offers |-> "none"], edition |-> 0]
NoListing == [catalog |-> [o \in Offers |-> NoEntry], hosted |-> {}, edition |-> 0]

\* What reconcileStaticSite applies after the ConfigMap, in this order.
StaticSiteWorkload == <<"deployment", "service", "headers">>
StaticSiteRoutes == <<"routes">>
SiteObjects == StaticSiteWorkload \o StaticSiteRoutes

SpecOf == [path: Paths \cup {NoHost}, host: Hosts \cup {NoHost}, limits: BOOLEAN,
           model: BOOLEAN, drain: {"no", "window", "ended"}]
StatusOf == [obs: Nat, model: BOOLEAN, up: BOOLEAN, gate: BOOLEAN,
             route: BOOLEAN, ready: BOOLEAN]
Offer == [phase: {"absent", "live", "deleting", "gone"}, finalizer: BOOLEAN,
          born: Nat, gen: Nat,
          spec: SpecOf, st: StatusOf]
View == [phase: {"absent", "live", "deleting", "gone"}, path: Paths \cup {NoHost},
         host: Hosts \cup {NoHost}]
RouteOf == [at: Paths \cup Hosts \cup {NoHost}, limits: BOOLEAN, accepted: BOOLEAN]
Kids == [grant: BOOLEAN, filters: BOOLEAN, route: RouteOf, host: RouteOf]
Availability == {"no", "available", "draining"}
Entry == [skill: Availability, services: Availability, openapi: BOOLEAN, x402: BOOLEAN]
Content == [catalog: [Offers -> Entry],
            bundle: [Offers -> {"none", "thin", "rich"}], edition: Nat]
Stage == {"idle", "decide", "waiting", "teardown", "gate", "route",
          "status", "list", "publish", "finalize"}

TypeOK ==
    /\ obj \in [Offers -> Offer]
    /\ seen \in [Offers -> View]
    /\ news \subseteq Offers /\ queue \subseteq Offers /\ timer \subseteq Offers
    /\ pc \in [Offers -> Stage]
    /\ work \in [Offers -> Offer]
    /\ kids \in [Offers -> Kids]
    /\ cache \in [Offers -> {"unsettled", "doc", "nil"}]
    /\ lock \subseteq Offers /\ \A o, q \in lock : o = q
    /\ listing \in [Offers -> [catalog: [Offers -> Entry], hosted: SUBSET Offers,
                              edition: Nat]]
    /\ site \in [cm: Content, applied: 0..Len(SiteObjects)]
    /\ edition \in Nat /\ notice \in BOOLEAN
    /\ env \in [healthy: SUBSET Offers, agents: SUBSET AgentOffers, gateway: BOOLEAN]
    /\ left \in Nat

\* A behaviour uses some of the offer names.
Init ==
    /\ \E used \in SUBSET Offers :
         /\ obj = [o \in Offers |-> IF o \in used THEN Absent
                                    ELSE [Absent EXCEPT !.phase = "gone"]]
         /\ left = MaxEvents[used]
    /\ news = {}
    /\ seen = [o \in Offers |-> [phase |-> "absent", path |-> NoHost, host |-> NoHost]]
    /\ queue = {} /\ timer = {}
    /\ pc = [o \in Offers |-> "idle"]
    /\ work = [o \in Offers |-> Absent]
    /\ kids = [o \in Offers |-> NoKids]
    /\ cache = [o \in Offers |-> "unsettled"]
    /\ lock = {} /\ listing = [o \in Offers |-> NoListing]
    /\ site = [cm |-> NoContent, applied |-> Len(SiteObjects)]
    /\ edition = 0 /\ notice = FALSE
    /\ env = [healthy |-> Offers, agents |-> AgentOffers, gateway |-> TRUE]

----------------------------------------------------------------------------
\* Helpers.

Exists(o) == obj[o].phase \in {"live", "deleting"}
IsAgent(o) == o \in AgentOffers
Event == left > 0 /\ left' = left - 1
Goto(o, stage) == pc' = [pc EXCEPT ![o] = stage]
SetStatus(o, st) == work' = [work EXCEPT ![o].st = st]
\* The end of a reconcile: the copy is dropped; `keys` come back to the queue.
Done(o, keys) == /\ pc' = [pc EXCEPT ![o] = "idle"]
                 /\ work' = [work EXCEPT ![o] = Absent]
                 /\ queue' = queue \cup keys
\* claimPrecedes: older creationTimestamp, ties by namespace/name.
ClaimPrecedes(a, b) ==
    \/ obj[a].born < obj[b].born
    \/ obj[a].born = obj[b].born /\ Rank[a] < Rank[b]

\* pickPathConflict and pickHostnameConflict, over the informer's store.
PathConflict(o) ==
    \E q \in Offers \ {o} : /\ seen[q].phase = "live"
                            /\ seen[q].path = work[o].spec.path
                            /\ ClaimPrecedes(q, o)
HostnameConflict(o) ==
    /\ work[o].spec.host # NoHost
    /\ \E q \in Offers \ {o} : /\ seen[q].phase = "live"
                               /\ seen[q].host = work[o].spec.host
                               /\ ClaimPrecedes(q, o)

----------------------------------------------------------------------------
\* Users and the world around the controller.

\* Creation timestamps have a resolution of one second: offers may share one.
Instants == ({obj[q].born : q \in Offers} \cup {obj[q].born + 1 : q \in Offers}) \ {0}

\* The first reconcile adds the finalizer.
Create(o) ==
    /\ obj[o].phase = "absent"
    /\ \E path \in Paths \ Reserved, host \in Hosts \cup {NoHost}, born \in Instants :
         /\ \A q \in Offers : obj[q].born <= born
         /\ obj' = [obj EXCEPT ![o] =
           [Absent EXCEPT !.phase = "live", !.gen = 1, !.born = born,
                          !.spec = [NoSpec EXCEPT !.path = path, !.host = host,
                                                  !.limits = o \in Limited]]]
    /\ news' = news \cup {o}
    /\ UNCHANGED <<seen, workVars, kids, cache, siteVars, worldVars, left>>

If(field, values) == IF field \in Editable THEN values ELSE {}
Edited(s) ==
    {[s EXCEPT !.path = v] : v \in If("path", Paths)}
    \cup {[s EXCEPT !.host = v] : v \in If("host", Hosts \cup {NoHost})}
    \cup {[s EXCEPT !.limits = v] : v \in If("limits", BOOLEAN)}
    \cup {[s EXCEPT !.model = v] : v \in If("model", BOOLEAN)}
    \cup {[s EXCEPT !.drain = v] : v \in If("drain", {"no", "window", "ended"})}

\* obol sell update, sell stop (a grace period of 0 ends the drain at once),
\* sell resume, kubectl.
Edit(o) ==
    /\ obj[o].phase = "live" /\ Event
    /\ \E s \in Edited(obj[o].spec) \ {obj[o].spec} :
         obj' = [obj EXCEPT ![o].spec = s, ![o].gen = @ + 1]
    /\ news' = news \cup {o}
    /\ UNCHANGED <<seen, workVars, kids, cache, siteVars, worldVars>>

Delete(o) ==
    /\ obj[o].phase = "live" /\ Event
    /\ obj' = [obj EXCEPT ![o].gen = @ + 1, ![o].phase =
                 IF obj[o].finalizer THEN "deleting" ELSE "gone"]
    /\ news' = news \cup {o}
    /\ UNCHANGED <<seen, workVars, kids, cache, siteVars, worldVars>>

\* The clock passes DrainEndsAt; no event tells anyone.
DrainEnds(o) ==
    /\ obj[o].spec.drain = "window" /\ obj[o].phase = "live"
    /\ obj' = [obj EXCEPT ![o].spec.drain = "ended"]
    /\ work' = IF work[o].spec.drain = "window"
               THEN [work EXCEPT ![o].spec.drain = "ended"] ELSE work
    /\ UNCHANGED <<seen, news, queue, timer, pc, kids, cache, siteVars, worldVars, left>>

TimerFires(o) ==
    /\ o \in timer /\ obj[o].spec.drain # "window"
    /\ timer' = timer \ {o} /\ queue' = queue \cup {o}
    /\ UNCHANGED <<apiVars, pc, work, kids, cache, siteVars, worldVars, left>>

\* An upstream's health and the gateway's replicas change without an event for
\* the offers; a change of an Agent enqueues the offers that refer to it.
UpstreamFlips(o) ==
    /\ Event
    /\ env' = [env EXCEPT !.healthy = IF o \in @ THEN @ \ {o} ELSE @ \cup {o}]
    /\ UNCHANGED <<apiVars, workVars, kids, cache, siteVars, edition, notice>>

GatewayFlips ==
    /\ Event /\ env' = [env EXCEPT !.gateway = ~@]
    /\ UNCHANGED <<apiVars, workVars, kids, cache, siteVars, edition, notice>>

AgentFlips(o) ==
    /\ IsAgent(o) /\ Event
    /\ env' = [env EXCEPT !.agents = IF o \in @ THEN @ \ {o} ELSE @ \cup {o}]
    /\ queue' = IF seen[o].phase \in {"live", "deleting"} THEN queue \cup {o} ELSE queue
    /\ UNCHANGED <<apiVars, timer, pc, work, kids, cache, siteVars, edition, notice>>

\* The tunnel's URL in obol-stack-config changes.
BaseURLMoves ==
    /\ Event /\ edition' = edition + 1 /\ notice' = TRUE
    /\ UNCHANGED <<apiVars, workVars, kids, cache, siteVars, env>>

\* Traefik accepts the current generation of a route whose references resolve.
TraefikAccepts(o) ==
    /\ \E r \in {"route", "host"} :
         /\ kids[o][r].at # NoHost /\ ~kids[o][r].accepted
         /\ kids[o].grant /\ (kids[o][r].limits => kids[o].filters)
         /\ kids' = [kids EXCEPT ![o][r].accepted = TRUE]
    /\ UNCHANGED <<apiVars, workVars, cache, siteVars, worldVars, left>>

----------------------------------------------------------------------------
\* Informers.

InformerDelivers(o) ==
    /\ o \in news /\ news' = news \ {o}
    /\ seen' = [seen EXCEPT ![o] = [phase |-> obj[o].phase,
                   path |-> obj[o].spec.path, host |-> obj[o].spec.host]]
    /\ queue' = queue \cup {o}
    /\ UNCHANGED <<obj, timer, pc, work, kids, cache, siteVars, worldVars, left>>

\* enqueueDiscoveryRefresh: every offer of the store.
DiscoveryRefresh ==
    /\ notice /\ notice' = FALSE
    /\ queue' = queue \cup {o \in Offers : seen[o].phase \in {"live", "deleting"}}
    /\ UNCHANGED <<apiVars, timer, pc, work, kids, cache, siteVars, edition, env, left>>

\* A restart loses queue, timers, reconciles and the document cache; the new
\* process lists every offer, and every Add handler enqueues.
Restart ==
    /\ Event
    /\ seen' = [o \in Offers |-> [phase |-> obj[o].phase,
                  path |-> obj[o].spec.path, host |-> obj[o].spec.host]]
    /\ news' = {} /\ notice' = FALSE /\ timer' = {}
    /\ queue' = {o \in Offers : Exists(o)}
    /\ pc' = [o \in Offers |-> "idle"] /\ work' = [o \in Offers |-> Absent]
    /\ cache' = [o \in Offers |-> "unsettled"]
    /\ lock' = {} /\ listing' = [o \in Offers |-> NoListing]
    /\ UNCHANGED <<obj, kids, site, edition, env>>

----------------------------------------------------------------------------
\* reconcileOffer, up to its first branch.

Take(o) ==
    /\ o \in queue /\ pc[o] = "idle"
    /\ Cardinality({q \in Offers : pc[q] # "idle"}) < Workers

FetchMissing(o) ==
    /\ Take(o) /\ ~Exists(o)
    /\ queue' = queue \ {o}
    /\ UNCHANGED <<apiVars, timer, pc, work, kids, cache, siteVars, worldVars, left>>

\* The update's own watch event brings the key back.
AddFinalizer(o) ==
    /\ Take(o) /\ obj[o].phase = "live" /\ ~obj[o].finalizer
    /\ obj' = [obj EXCEPT ![o].finalizer = TRUE]
    /\ UNCHANGED <<seen, news, workVars, kids, cache, siteVars, worldVars, left>>

Fetch(o) ==
    /\ Take(o) /\ obj[o].phase = "live" /\ obj[o].finalizer
    /\ queue' = queue \ {o}
    /\ work' = [work EXCEPT ![o] = [obj[o] EXCEPT !.st.obs = obj[o].gen]]
    /\ Goto(o, "decide")
    /\ UNCHANGED <<apiVars, timer, kids, cache, siteVars, worldVars, left>>

FetchDeleting(o) ==
    /\ Take(o) /\ obj[o].phase = "deleting"
    /\ queue' = queue \ {o}
    /\ work' = [work EXCEPT ![o] = obj[o]]
    /\ Goto(o, "teardown")
    /\ UNCHANGED <<apiVars, timer, kids, cache, siteVars, worldVars, left>>

\* resolveAgentOffer, clearNonAgentResolution, reconcileModel, reconcileUpstream.
AgentResolved(o) == IsAgent(o) => o \in env.agents
ModelReady(o) == IsAgent(o) \/ work[o].spec.model
UpstreamHealthy(o) == o \in env.healthy

\* resolveAgentOffer is not ready: every condition is False, the children go
\* only when the drain has ended, and the reconcile ends with the status: no
\* requeue, no rebuild of the catalog.
WaitForAgent(o) ==
    /\ pc[o] = "decide" /\ ~AgentResolved(o)
    /\ SetStatus(o, [NoStatus EXCEPT !.obs = work[o].gen])
    /\ Goto(o, IF work[o].spec.drain = "ended" THEN "teardown" ELSE "waiting")
    /\ UNCHANGED <<apiVars, queue, timer, kids, cache, siteVars, worldVars, left>>

\* Mutant: a drain that has ended is not looked at.
MustGoUndrained(o) ==
    \/ work[o].spec.path \in Reserved \/ HostnameConflict(o) \/ PathConflict(o)

\* The branch of reconcileOffer that tears the children down.
MustGo(o) ==
    \/ work[o].spec.path \in Reserved
    \/ HostnameConflict(o) \/ PathConflict(o)
    \/ work[o].spec.drain = "ended"

\* reconcileModel, reconcileUpstream and the branches.  A losing claim and a
\* drain window bring the key back; a waiting offer keeps its children.
Decide(o) ==
    /\ pc[o] = "decide" /\ AgentResolved(o)
    /\ LET st == [work[o].st EXCEPT !.model = ModelReady(o),
                                    !.up = UpstreamHealthy(o)]
       IN  \/ /\ MustGo(o)
              /\ SetStatus(o, [st EXCEPT !.gate = FALSE, !.route = FALSE])
              /\ Goto(o, "teardown") /\ UNCHANGED timer
           \/ /\ ~MustGo(o)
              /\ timer' = IF work[o].spec.drain = "window"
                          THEN timer \cup {o} ELSE timer
              /\ \/ /\ st.model /\ st.up
                    /\ SetStatus(o, st) /\ Goto(o, "gate")
                 \/ /\ ~(st.model /\ st.up)
                    /\ SetStatus(o, [st EXCEPT !.gate = FALSE, !.route = FALSE])
                    /\ Goto(o, "status")
    /\ UNCHANGED <<apiVars, queue, kids, cache, siteVars, worldVars, left>>

----------------------------------------------------------------------------
\* Children.

\* deleteRouteChildren: grants, routes, then the middlewares they refer to.
\* After it: a deleted offer is taken off the catalog, a waiting agent offer
\* ends with its status.
AfterTeardown(o) ==
    IF work[o].phase = "deleting" THEN "list"
    ELSE IF IsAgent(o) /\ ~work[o].st.up /\ ~work[o].st.model THEN "waiting"
    ELSE "status"

DeleteRouteChildren(o) ==
    /\ pc[o] = "teardown"
    /\ kids' = [kids EXCEPT ![o] = NoKids]
    /\ Goto(o, AfterTeardown(o))
    /\ UNCHANGED <<apiVars, queue, timer, work, cache, siteVars, worldVars, left>>

\* A failed delete leaves the rest in place.
TeardownFails(o) ==
    /\ pc[o] = "teardown" /\ Event
    /\ LET k == [kids[o] EXCEPT !.grant = FALSE]
       IN  \E some \in {kids[o], k, [k EXCEPT !.route = NoRoute],
                        [k EXCEPT !.route = NoRoute, !.host = NoRoute]} :
             kids' = [kids EXCEPT ![o] = some]
    /\ Done(o, {o})
    /\ UNCHANGED <<apiVars, timer, cache, siteVars, worldVars>>

\* buildReferenceGrant and buildLimitsMiddlewares: the children besides the routes.
ReferenceGrant == TRUE
LimitMiddlewares(s) == s.limits

\* reconcilePaymentGate (a gateway that is away skips the route, whose condition
\* keeps its value), then the first half of reconcileRoute: the wanted limit
\* Middlewares are applied and the others deleted, before the routes.
GateAndFilters(o) ==
    /\ pc[o] = "gate"
    /\ kids' = [kids EXCEPT ![o].grant = ReferenceGrant,
         ![o].filters = IF env.gateway THEN LimitMiddlewares(work[o].spec) ELSE @]
    /\ SetStatus(o, [work[o].st EXCEPT !.gate = env.gateway])
    /\ Goto(o, IF env.gateway THEN "route" ELSE "status")
    /\ UNCHANGED <<apiVars, queue, timer, cache, siteVars, worldVars, left>>

\* buildHTTPRoute and buildHostHTTPRoute: where a route listens, and whether its
\* rules refer to the limit Middlewares.
SharedOriginRoute(s) == [at |-> s.path, limits |-> s.limits]
HostRoute(s) == [at |-> s.host, limits |-> s.limits]

\* Server-side apply: an equal spec keeps the generation, and its acceptance.
Applied(route, want) ==
    IF route.at = want.at /\ route.limits = want.limits THEN route
    ELSE [at |-> want.at, limits |-> want.limits, accepted |-> FALSE]

\* Mutant: an applied route counts as accepted.
RouteApplied(route) == route.at # NoHost

\* httpRouteAccepted: Accepted and ResolvedRefs for the current generation.
RouteAccepted(route) == route.accepted

\* Second half: the shared-origin route; once that is accepted the host route
\* is applied, or deleted when the spec has no hostname.
PublishRoute(o) ==
    /\ pc[o] = "route"
    /\ LET s == work[o].spec
           route == Applied(kids[o].route, SharedOriginRoute(s))
           host == IF ~RouteAccepted(route) THEN kids[o].host
                   ELSE IF s.host = NoHost THEN NoRoute
                   ELSE Applied(kids[o].host, HostRoute(s))
       IN  /\ kids' = [kids EXCEPT ![o].route = route, ![o].host = host]
           /\ SetStatus(o, [work[o].st EXCEPT !.route =
                /\ RouteAccepted(route)
                /\ s.host # NoHost => RouteAccepted(host)])
    /\ Goto(o, "status")
    /\ UNCHANGED <<apiVars, queue, timer, cache, siteVars, worldVars, left>>

\* Mutant: the key of a failed apply is forgotten.
ChildFailsForgets(o) ==
    /\ pc[o] \in {"gate", "route"} /\ Event
    /\ Done(o, {})
    /\ UNCHANGED <<apiVars, timer, kids, cache, siteVars, worldVars>>

\* An apply or get that fails: nothing more is done, the key comes back.
ChildFails(o) ==
    /\ pc[o] \in {"gate", "route"} /\ Event
    /\ Done(o, {o})
    /\ UNCHANGED <<apiVars, timer, kids, cache, siteVars, worldVars>>

----------------------------------------------------------------------------
\* Status.

Unmoved(o) == obj[o].gen = work[o].gen /\ obj[o].phase = "live"
Ready(st) == st.model /\ st.up /\ st.gate /\ st.route

\* updateOfferStatus: an equal status is not written, a conflict is an error
\* and rate-limits the key back.  The write's watch event brings the key back
\* (the store's view does not change by it), and an offer that is not Ready
\* comes back in 5 seconds, unless it waits for its agent.
StatusConflicts(o) ==
    /\ pc[o] \in {"status", "waiting"} /\ ~Unmoved(o)
    /\ Done(o, {o})
    /\ UNCHANGED <<apiVars, timer, kids, cache, siteVars, worldVars, left>>

\* upstreamOpenAPICache.refresh, by the reconcile of a hosted offer: a miss on
\* an upstream that could serve a document is not recorded.
ProbeOutcomes(o) ==
    IF IsAgent(o) THEN {"nil"} ELSE {"doc", cache[o]}
RefreshDocument(o) ==
    \/ work[o].spec.host = NoHost /\ UNCHANGED cache
    \/ /\ work[o].spec.host # NoHost
       /\ \E doc \in ProbeOutcomes(o) : cache' = [cache EXCEPT ![o] = doc]

WriteStatus(o) ==
    /\ pc[o] \in {"status", "waiting"} /\ Unmoved(o)
    /\ LET st == [work[o].st EXCEPT !.ready = Ready(work[o].st)]
       IN  /\ obj' = [obj EXCEPT ![o].st = st]
           /\ queue' = IF st # obj[o].st \/ (~st.ready /\ pc[o] = "status")
                       THEN queue \cup {o} ELSE queue
           /\ IF pc[o] = "waiting"
              THEN Goto(o, "idle") /\ work' = [work EXCEPT ![o] = Absent] /\ UNCHANGED cache
              ELSE Goto(o, "list") /\ RefreshDocument(o) /\ UNCHANGED work
    /\ UNCHANGED <<seen, news, timer, kids, siteVars, worldVars, left>>

----------------------------------------------------------------------------
\* reconcileStaticSite.

\* offerOperationallyReady: for these offers Ready says the same.
OperationallyReady(o) == obj[o].st.ready \/ Ready(obj[o].st)

\* The filter of the four catalog documents.
Included(o) ==
    obj[o].phase = "live" /\ obj[o].spec.drain # "ended" /\ OperationallyReady(o)
AvailabilityOf(o) ==
    IF ~Included(o) THEN "no"
    ELSE IF obj[o].spec.drain = "no" THEN "available" ELSE "draining"

SkillMarkdown(o) == AvailabilityOf(o)
ServiceCatalog(o) == AvailabilityOf(o)
OpenAPIDocument(o) == Included(o)
AggregateWellKnown(o) == Included(o)
CatalogEntry(o) ==
    [skill |-> SkillMarkdown(o), services |-> ServiceCatalog(o),
     openapi |-> OpenAPIDocument(o), x402 |-> AggregateWellKnown(o)]

Unlocked == lock = {}

\* staticSiteMu is taken, then the offers are listed from the API server.
ListOffers(o) ==
    /\ pc[o] = "list" /\ Unlocked
    /\ lock' = {o}
    /\ listing' = [listing EXCEPT ![o] =
         [catalog |-> [q \in Offers |-> CatalogEntry(q)], edition |-> edition,
          hosted |-> {q \in Offers : Exists(q) /\ obj[q].spec.host # NoHost}]]
    /\ Goto(o, "publish")
    /\ UNCHANGED <<apiVars, queue, timer, work, kids, cache, site, worldVars, left>>

\* Mutant: the fallback is published for an offer that was not asked.
BundleUnsettled(o, q, published) ==
    IF q \notin listing[o].hosted THEN "none"
    ELSE IF cache[q] = "doc" THEN "rich" ELSE "thin"

\* buildOfferBundles: hosted offers, whatever their status; an offer not probed
\* since the process started keeps the bundle that is being served.
BundleOf(o, q, published) ==
    IF q \notin listing[o].hosted THEN "none"
    ELSE IF cache[q] = "doc" THEN "rich"
    ELSE IF cache[q] = "unsettled" /\ published[q] # "none" THEN published[q]
    ELSE "thin"

Rendered(o, published) ==
    [catalog |-> listing[o].catalog, edition |-> listing[o].edition,
     bundle |-> [q \in Offers |-> BundleOf(o, q, published)]]

ReleaseSite(o, keys) ==
    /\ lock' = lock \ {o} /\ listing' = [listing EXCEPT ![o] = NoListing]
    /\ IF work[o].phase = "deleting" /\ keys = {}
       THEN Goto(o, "finalize") /\ UNCHANGED <<queue, work>>
       ELSE Done(o, keys)

\* Equal content ends the rebuild (staticSiteContentUnchanged compares the
\* ConfigMap only); else the ConfigMap is applied, then the objects around it.
Published(new, applied) ==
    site' = IF new = site.cm THEN site ELSE [cm |-> new, applied |-> applied]

PublishSite(o) ==
    /\ pc[o] = "publish"
    /\ Published(Rendered(o, site.cm.bundle), Len(SiteObjects))
    /\ ReleaseSite(o, {})
    /\ UNCHANGED <<apiVars, timer, kids, cache, worldVars, left>>

\* Reading the published data fails: everything is rendered from scratch.
PublishSiteBlind(o) ==
    /\ pc[o] = "publish" /\ Event
    /\ Published(Rendered(o, [q \in Offers |-> "none"]), Len(SiteObjects))
    /\ ReleaseSite(o, {})
    /\ UNCHANGED <<apiVars, timer, kids, cache, worldVars>>

\* The ConfigMap, or one of the objects after it, is not applied.
PublishSiteFails(o) ==
    /\ pc[o] = "publish" /\ Event
    /\ Rendered(o, site.cm.bundle) # site.cm
    /\ \/ UNCHANGED site
       \/ \E n \in 0..Len(SiteObjects) - 1 : Published(Rendered(o, site.cm.bundle), n)
    /\ ReleaseSite(o, {o})
    /\ UNCHANGED <<apiVars, timer, kids, cache, worldVars>>

\* forget and removeFinalizer; the update carries the resourceVersion of the
\* Get, and nobody writes a deleting offer besides this reconcile.
RemoveFinalizer(o) ==
    /\ pc[o] = "finalize"
    /\ cache' = [cache EXCEPT ![o] = "unsettled"]
    /\ \/ /\ obj' = [obj EXCEPT ![o].phase = "gone"]
          /\ news' = news \cup {o} /\ Done(o, {}) /\ UNCHANGED left
       \/ /\ Event /\ Done(o, {o}) /\ UNCHANGED <<obj, news>>
    /\ UNCHANGED <<seen, timer, kids, siteVars, worldVars>>

----------------------------------------------------------------------------
Dequeue(o) == FetchMissing(o) \/ AddFinalizer(o) \/ Fetch(o) \/ FetchDeleting(o)

Reconcile(o) ==
    \/ WaitForAgent(o) \/ Decide(o) \/ DeleteRouteChildren(o) \/ TeardownFails(o)
    \/ GateAndFilters(o) \/ PublishRoute(o) \/ ChildFails(o)
    \/ StatusConflicts(o) \/ WriteStatus(o)
    \/ ListOffers(o) \/ PublishSite(o) \/ PublishSiteBlind(o)
    \/ PublishSiteFails(o) \/ RemoveFinalizer(o)

User(o) == Create(o) \/ Edit(o) \/ Delete(o)
World(o) == DrainEnds(o) \/ UpstreamFlips(o) \/ AgentFlips(o)

Next ==
    \/ \E o \in Offers : \/ User(o) \/ World(o) \/ TimerFires(o) \/ TraefikAccepts(o)
                         \/ InformerDelivers(o) \/ Dequeue(o) \/ Reconcile(o)
    \/ GatewayFlips \/ BaseURLMoves \/ DiscoveryRefresh \/ Restart

Spec == Init /\ [][Next]_vars

\* Watch events arrive, time passes, delayed keys come back, Traefik accepts
\* what it can, every call returns, and the queue is first-in first-out
\* (strong: with one worker other keys take it in between; a reconcile waits
\* for the catalog's mutex).  Users and the world owe nothing.
Fairness ==
    /\ \A o \in Offers : /\ WF_vars(InformerDelivers(o))
                         /\ WF_vars(DrainEnds(o)) /\ WF_vars(TimerFires(o))
                         /\ WF_vars(TraefikAccepts(o))
                         /\ SF_vars(Dequeue(o)) /\ SF_vars(Reconcile(o))
    /\ WF_vars(DiscoveryRefresh)

FairSpec == Spec /\ Fairness

----------------------------------------------------------------------------
(***************************************************************************)
(* Properties.                                                             *)
(***************************************************************************)

\* Nothing of a deleted offer survives it: no grant, middleware or route, and
\* no catalog entry, although rebuilds run for other offers at the same time
\* and any delete or write may fail (the finalizer comes off last, the catalog
\* is listed and written under one mutex).
GoneLeavesNothing ==
    \A o \in Offers : obj[o].phase = "gone" =>
        kids[o] = NoKids /\ site.cm.catalog[o] = NoEntry

\* When the controller has nothing left to do for an offer whose status says
\* Ready, its routes are the ones its spec asks for, and Traefik has accepted
\* that very generation of them (httpRouteAccepted).
RoutedAs(o, s) ==
    /\ kids[o].route = [at |-> s.path, limits |-> s.limits, accepted |-> TRUE]
    /\ kids[o].host = IF s.host = NoHost THEN NoRoute
                      ELSE [at |-> s.host, limits |-> s.limits, accepted |-> TRUE]
ReadyIsRouted ==
    \A o \in Offers :
        /\ obj[o].phase = "live" /\ obj[o].st.ready
        /\ pc[o] = "idle" /\ o \notin queue \cup news
        => RoutedAs(o, obj[o].spec)

\* A route refers to a limit Middleware that is missing only between the two
\* halves of a reconcile that takes the limits away, or after one that stopped
\* there (a failed call, or the host route kept until the other is accepted):
\* the key is then still owed a reconcile, unless the offer's agent went away
\* meanwhile, whose return is an event for it.
DanglingOnlyWhileLimitsGo ==
    \A o \in Offers : \A r \in {"route", "host"} :
        kids[o][r].at # NoHost /\ kids[o][r].limits /\ ~kids[o].filters
        => pc[o] # "idle" \/ o \in queue \cup news \/ ~AgentResolved(o)

\* The state of every offer, its children and the published site, at every step.
OfferInv == TypeOK /\ GoneLeavesNothing /\ DanglingOnlyWhileLimitsGo

\* A rebuild never replaces the bundle made from an offer's upstream document
\* by the route-table fallback, restarts and missed probes included; only one
\* that could not read the published data may (buildOfferBundles, !settled).
RichBundleIsKept ==
    [][\A o \in Offers :
         site.cm.bundle[o] = "rich" /\ site'.cm.bundle[o] = "thin"
         => left' < left]_vars

\* No live offer with an older claim on o's path or hostname.
FirstClaimant(o) ==
    \A q \in Offers \ {o} :
        obj[q].phase = "live" /\ ClaimPrecedes(q, o)
        => /\ obj[q].spec.path # obj[o].spec.path
           /\ obj[o].spec.host = NoHost \/ obj[q].spec.host # obj[o].spec.host

Eligible(o) ==
    /\ obj[o].phase = "live" /\ obj[o].spec.drain = "no"
    /\ IsAgent(o) \/ obj[o].spec.model
    /\ obj[o].spec.path \notin Reserved /\ FirstClaimant(o)
    /\ UpstreamHealthy(o) /\ env.gateway /\ AgentResolved(o)

\* An offer that stays first claimant of its path and hostname, with its
\* upstream and the gateway up, is published and Ready in the end: whatever
\* lost the claim before, a stale store, a conflict, a fault or a restart
\* (the 30 second poll has no event edge to rely on).
EligibleIsPublished ==
    \A o \in Offers : <>[]Eligible(o) => <>[](obj[o].st.ready /\ kids[o].route.accepted)

\* When the drain of an offer that fronts a Service has ended, its children go.
DrainEndedIsTornDown ==
    \A o \in Offers \ AgentOffers :
        obj[o].phase = "live" /\ obj[o].spec.drain = "ended"
        ~> kids[o] = NoKids \/ obj[o].spec.drain # "ended"

\* The catalog follows the offers that front a Service: an entry that stays
\* wrong is corrected, and while such an offer exists the catalog takes on the
\* current base URL (every such reconcile ends in a rebuild).
CatalogConverges ==
    \A o \in Offers \ AgentOffers :
        /\ []<>(site.cm.catalog[o] = CatalogEntry(o))
        /\ obj[o].phase = "live" ~> site.cm.edition = edition \/ obj[o].phase # "live"

\* What the controller owes its offers in the end: publication, the end of a
\* drain and a catalog that follows (the rate-limited queue, the 30 second poll
\* and the catalog rebuild behind every reconcile).
OffersConverge == EligibleIsPublished /\ DrainEndedIsTornDown /\ CatalogConverges
=============================================================================
