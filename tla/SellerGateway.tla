--------------------------- MODULE SellerGateway ---------------------------
(***************************************************************************)
(* The x402-verifier in front of the payment middleware: where its route   *)
(* table comes from (serviceoffer_source.go, source.go, watcher.go and     *)
(* Verifier.load), which rule a request meets (matcher.go) and which gate  *)
(* it passes (verifier.go, authgate.go, unlockgate.go, siwx.go, quota.go,  *)
(* body_policy.go, upstream_paths.go); and what the controller's OpenAPI   *)
(* document says about the same routes (openapi.go).  The paid gate itself *)
(* is PaymentGate.                                                         *)
(*                                                                         *)
(* A path is a sequence of segments of one length, so the length of a      *)
(* literal prefix is its number of segments.  Segment globs are left out.  *)
(***************************************************************************)
EXTENDS Integers, FiniteSets, Sequences

CONSTANTS Offers,      \* ServiceOffers
          Base,        \* their public paths
          Order,       \* their order by namespace/name
          Tables,      \* the route tables an offer may declare
          Kind,        \* "http", "agent" or "litellm": what serves the offer
          UnlockOffer, \* the offer of authCaptureUnlock, or a value outside Offers
          Paths,       \* paths that are asked for
          Requests,    \* concurrent requests
          Wallets,
          Messages,    \* signed EIP-4361 messages
          Signer, Issued, Expires, \* of a message
          Window, Skew, SessionTTL, DayLength,
          NonceCacheMax,
          FreeOffer, FreeQuota, \* the offer with a free tier, and its calls a day;
                                \* its one paid pattern is the counters' key
          MaxTime,     \* bound: clock
          MaxChanges,  \* bound: edits of offers, secrets and the file
          MaxRestarts  \* bound: restarts of the pod beside requests

\* The gates and methods the CRD admits.
RouteEntry == [segs: Seq(STRING), wild: BOOLEAN, gate: {"paid", "free", "auth"},
               methods: SUBSET {"GET", "POST", "PUT", "PATCH", "DELETE", "HEAD", "OPTIONS"}]

ASSUME GatewayAssumption ==
    /\ Tables \subseteq Seq(RouteEntry)
    /\ Base \in [Offers -> Seq(STRING)] /\ Order \in [Offers -> Nat]
    /\ \A o, q \in Offers : Order[o] = Order[q] => o = q
    /\ Signer \in [Messages -> Wallets] /\ Issued \in [Messages -> Int]
    /\ {Window, Skew, SessionTTL, FreeQuota, MaxTime, MaxChanges, MaxRestarts} \subseteq Nat
    /\ NonceCacheMax \in Nat \ {0} /\ DayLength \in Nat \ {0}

VARIABLES focus,    \* what a behaviour follows: the table, the requests, or the broker's jobs
          store,    \* the offers in the informer's store
          secret,   \* the upstream credential in the informer's store
          file,     \* pricing.yaml: its version, and whether it names a known chain
          news,     \* informers and the file watcher that have something to deliver
          refresh,  \* their running refreshes
          acc,      \* ConfigAccumulator: the base and the routes last set
          config,   \* the verifier's configuration
          prefixes, \* its paid prefixes, stored after the configuration
          ready,    \* MarkRoutesLoaded
          overlap,  \* two refreshes have overlapped, or a file load was missed
          now,
          nonces,   \* the replay cache: message -> time it was seen
          quota,    \* the free tier's day and counters
          epoch,    \* the process: its session secret
          tokens,   \* session tokens clients hold
          req,      \* requests between their reads of the clock and the lock
          accepted, freeCalls, late, evicted, \* what happened in this process
          left

routeVars == <<store, secret, file, news, refresh, acc, config, prefixes, ready, overlap>>
serveVars == <<now, nonces, quota, epoch, tokens, req, accepted, freeCalls, late, evicted>>
gatewayVars == <<focus, routeVars, serveVars, left>>

Sources == {"offers", "secrets", "main", "file"}
NotServing == [pc |-> "idle"]
Event == left > 0 /\ left' = left - 1

----------------------------------------------------------------------------
\* Routes.  A route is a pattern below the offer's path with a gate; methods
\* only matter to the document.

IsPrefixOf(p, s) == Len(p) <= Len(s) /\ SubSeq(s, 1, Len(p)) = p

\* matchPattern: an exact pattern, or a greedy prefix.
MatchPattern(r, path) == IF r.wild THEN IsPrefixOf(r.segs, path) ELSE r.segs = path

\* routeRuleFromOffer: the wiring all rules of an offer share.
RuleFromOffer(o, copy, auth) ==
    [offer |-> o, terms |-> copy.terms, auth |-> IF Kind[o] = "http" THEN "none" ELSE auth]

\* routeRulesFromOffer, with joinRoutePattern, in their order; an async offer
\* also publishes <offer>/jobs/*, after what it declares.
Rule(o, copy, auth, at, segs, wild, gate) ==
    [offer |-> o, at |-> at, segs |-> Base[o] \o segs, wild |-> wild, gate |-> gate,
     terms |-> copy.terms, auth |-> RuleFromOffer(o, copy, auth).auth]
RulesFromOffer(o, copy, auth) ==
    {Rule(o, copy, auth, i, copy.table[i].segs, copy.table[i].wild, copy.table[i].gate) :
        i \in DOMAIN copy.table}
      \cup (IF copy.async THEN {Rule(o, copy, auth, Len(copy.table) + 1, <<"jobs">>, TRUE, "free")} ELSE {})

\* sortRoutesBySpecificity: exact, then the longer literal prefix, then the
\* offer.  The sort is stable: two rules of one offer and pattern keep their order.
Before(r, s) ==
    \/ ~r.wild /\ s.wild
    \/ r.wild = s.wild /\ Len(r.segs) > Len(s.segs)
    \/ /\ r.wild = s.wild /\ Len(r.segs) = Len(s.segs)
       /\ (Order[r.offer] < Order[s.offer] \/ (r.offer = s.offer /\ r.at < s.at))

\* matchRoute: the first rule that matches, {} when none does.
MatchRoute(routes, path) ==
    LET hit == {r \in routes : MatchPattern(r, path)}
    IN  {r \in hit : ~\E s \in hit : Before(s, r)}

\* routesFromStore: an offer whose price cannot be rendered fails the table.
Published(copy) == copy.published
Renderable(offers) == \A o \in Offers : Published(offers[o]) => offers[o].terms # "badPrice"
RoutesFromStore(offers, auth) ==
    UNION {RulesFromOffer(o, offers[o], auth) : o \in {q \in Offers : Published(offers[q])}}

\* Verifier.load resolves every chain before it stores anything.
ChainsResolve(base, routes) == base.known /\ \A r \in routes : r.terms # "badChain"

\* Mutant: an offer without a wildcard route has no prefix.
PaidPrefixesOfWildcards(routes) == {r.segs : r \in {s \in routes : s.gate # "free" /\ s.wild}}

\* It then derives the prefixes that fail closed: those of the wildcards and of
\* the offers themselves, free rules excepted.
PaidPrefixes(routes) ==
    LET priced == {r \in routes : r.gate # "free"}
    IN  {r.segs : r \in {s \in priced : s.wild}} \cup {Base[r.offer] : r \in priced}

\* isUnderPaidPrefix: "<prefix>/" must begin the path, so the prefix itself does not.
UnderPaidPrefix(set, path) == \E p \in set : IsPrefixOf(p, path) /\ p # path

\* upstreamPathAllowed and paywallPreview: offers with a privileged credential
\* reach a list of paths only.
BuyerPaths(kind) == IF kind = "http" THEN {} ELSE {<<"chat">>}
Stripped(r, path) == SubSeq(path, Len(Base[r.offer]) + 1, Len(path))
PathAllowed(r, method, path) ==
    \/ Kind[r.offer] = "http"
    \/ r.gate = "free" /\ IsPrefixOf(Base[r.offer] \o <<"jobs">>, r.segs)
    \/ /\ method = "POST"  \* the bare base is taken for the chat path
       /\ \/ Stripped(r, path) \in BuyerPaths(Kind[r.offer])
          \/ Stripped(r, path) = <<>> /\ Kind[r.offer] = "agent"
PaywallPreview(r, method, path, paying) ==
    /\ Kind[r.offer] # "http" /\ ~paying /\ r.gate = "paid"
    /\ method = "GET" /\ Stripped(r, path) = <<>>

\* resolvePaidRoute: a paid rule without an option that can be priced.
Resolvable(r) == r.terms \notin {"badPrice", "badChain"}

\* HandleVerify (ForwardAuth): "allow", "refuse", or the gate that decides.
HandleVerify(cfg, set, method, path) ==
    LET hit == MatchRoute(cfg.routes, path)
    IN  IF hit = {} THEN {IF UnderPaidPrefix(set, path) THEN "refuse" ELSE "allow"}
        ELSE {IF ~PathAllowed(r, method, path) \/ Kind[r.offer] # "http" THEN "refuse"
              ELSE IF r.gate = "free" THEN "allow"
              ELSE IF r.gate = "paid" /\ ~Resolvable(r) THEN "refuse" ELSE r.gate : r \in hit}

----------------------------------------------------------------------------
\* What the OpenAPI document of an offer says: for a route table one operation
\* per collapsed path and method, the most specific route claiming it first.

Catchall == <<[segs |-> <<>>, wild |-> TRUE, gate |-> "paid", methods |-> {}]>>

\* defaultPaidMethod: POST at the root of an offer with a table, GET below.
DefaultMethods(rt) ==
    IF rt.methods # {} THEN rt.methods
    ELSE IF rt.gate = "paid" /\ rt.segs = <<>> THEN {"POST"} ELSE {"GET"}
\* Mutant: the least specific route claims the operation.
RouteBeforeReversed(r, s) == (r.wild /\ ~s.wild) \/ (r.wild = s.wild /\ Len(r.segs) < Len(s.segs))

RouteBefore(r, s) == (~r.wild /\ s.wild) \/ (r.wild = s.wild /\ Len(r.segs) > Len(s.segs))
Claims(table, i, m) ==
    /\ m \in DefaultMethods(table[i])
    /\ ~\E j \in DOMAIN table : /\ table[j].segs = table[i].segs /\ m \in DefaultMethods(table[j])
                              /\ \/ RouteBefore(table[j], table[i])
                                 \/ j < i /\ ~RouteBefore(table[i], table[j])
Operation(rt, m) == [key |-> rt.segs, method |-> m, gate |-> rt.gate]
OpenAPIPathsForRouteTable(table) ==
    UNION {{Operation(table[i], m) : m \in {n \in DefaultMethods(table[i]) : Claims(table, i, n)}} :
             i \in DOMAIN table}

Paid(method, key) == [key |-> key, method |-> method, gate |-> "paid"]
OpenAIOperations(kind) == {Paid("POST", key) : key \in BuyerPaths(kind)}

\* The status page of an async offer's jobs is documented as free.
JobPages == {[key |-> <<"jobs", "job">>, method |-> "GET", gate |-> "free"]}
AnnotateAsyncPaths(copy, ops) == ops \cup (IF copy.async THEN JobPages ELSE {})

\* What serves chat completions is documented as that, whatever routes it
\* declares; the rest by its route table, or as one paid GET.
OpenAPIPathsForOffer(o, copy) ==
    IF Kind[o] = "agent" THEN OpenAIOperations(Kind[o])
    ELSE AnnotateAsyncPaths(copy,
           IF copy.table # Catchall THEN OpenAPIPathsForRouteTable(copy.table)
           ELSE IF Kind[o] = "litellm" THEN OpenAIOperations(Kind[o]) ELSE {Paid("GET", <<>>)})

----------------------------------------------------------------------------
NoOffer == [published |-> FALSE, table |-> <<>>, async |-> FALSE, terms |-> "ok"]

InitRoutes ==
    /\ secret = "k1" /\ file = [version |-> 0, known |-> TRUE]
    /\ acc = [base |-> file, routes |-> {}]
    /\ refresh = [s \in Sources |-> NotServing] /\ overlap = FALSE
InitServing ==
    /\ now = 0 /\ nonces = [m \in {} |-> 0] /\ epoch = 0 /\ tokens = {}
    /\ quota = [day |-> -1, counts |-> [w \in Wallets |-> 0]]
    /\ req = [r \in Requests |-> NotServing]
    /\ accepted = [m \in Messages |-> 0] /\ freeCalls = [w \in Wallets |-> [d \in 0..(MaxTime \div DayLength) |-> 0]]
    /\ late = FALSE /\ evicted = FALSE

\* A pod that starts beside some offers, or one that serves a fixed table.
GatewayInit ==
    /\ InitRoutes /\ InitServing
    /\ \/ /\ focus = "routes" /\ left = MaxChanges
          /\ store = [o \in Offers |-> [NoOffer EXCEPT !.published = (Order[o] = 0), !.table = Catchall]]
          /\ config = [base |-> file, routes |-> {}] /\ prefixes = {} /\ ready = FALSE
          /\ news = {"offers", "main"}
       \/ /\ focus \in {"requests", "jobs"} /\ left = MaxRestarts
          /\ \E t \in IF focus = "jobs" THEN {Catchall} ELSE Tables :
               store = [o \in Offers |-> [NoOffer EXCEPT !.published = TRUE, !.table = t, !.async = (Order[o] = 0)]]
          /\ config = [base |-> file, routes |-> RoutesFromStore(store, secret)]
          /\ prefixes = PaidPrefixes(config.routes) /\ ready = TRUE /\ news = {}

----------------------------------------------------------------------------
\* WatchServiceOffers: each informer runs its refreshes one after another, but
\* beside those of the others.

\* The informers deliver an offer or a secret.
ChangeOffer(o) ==
    /\ focus = "routes" /\ Event
    /\ \E t \in Tables, p \in BOOLEAN, terms \in {"ok", "badPrice", "badChain"} :
         store' = [store EXCEPT ![o] = [published |-> p, table |-> t, async |-> FALSE, terms |-> terms]]
    /\ news' = news \cup {"offers"}
    /\ UNCHANGED <<focus, secret, file, refresh, acc, config, prefixes, ready, overlap, serveVars>>

RotateSecret ==
    /\ focus = "routes" /\ Event
    /\ secret' = IF secret = "k1" THEN "k2" ELSE "k1"
    /\ news' = news \cup {"secrets"}
    /\ UNCHANGED <<focus, store, file, refresh, acc, config, prefixes, ready, overlap, serveVars>>

WritePricing ==
    /\ focus = "routes" /\ Event
    /\ \E known \in BOOLEAN : file' = [version |-> 1 - file.version, known |-> known]
    /\ news' = news \cup {"file"}
    /\ UNCHANGED <<focus, store, secret, refresh, acc, config, prefixes, ready, overlap, serveVars>>

\* refresh lists the stores and renders; a render that fails ends it.
ListStores(s) ==
    /\ s \in {"offers", "secrets", "main"} /\ s \in news /\ refresh[s] = NotServing
    /\ news' = news \ {s}
    /\ overlap' = (overlap \/ \E q \in Sources : refresh[q] # NotServing)
    /\ refresh' = IF Renderable(store)
                  THEN [refresh EXCEPT ![s] = [pc |-> "apply", routes |-> RoutesFromStore(store, secret)]]
                  ELSE refresh
    /\ UNCHANGED <<focus, store, secret, file, acc, config, prefixes, ready, serveVars, left>>

\* applyLocked: the verifier keeps what it had when a chain does not resolve.
Reload(base, routes) ==
    IF ChainsResolve(base, routes) THEN config' = [base |-> base, routes |-> routes]
    ELSE UNCHANGED config

Unlocked == \A q \in Sources : refresh[q].pc # "prefixes"   \* ConfigAccumulator.mu

\* Mutant: routes that failed to apply are not remembered, nor are new ones.
SetRoutesOnce(s) ==
    /\ refresh[s].pc = "apply" /\ Unlocked
    /\ LET ok == ChainsResolve(acc.base, refresh[s].routes)
       IN  /\ IF acc.routes = {} THEN acc' = [acc EXCEPT !.routes = refresh[s].routes] /\ Reload(acc.base, refresh[s].routes)
              ELSE UNCHANGED <<acc, config>>
           /\ ready' = (ready \/ (s = "main" /\ ok))
           /\ refresh' = [refresh EXCEPT ![s] = IF ok THEN [pc |-> "prefixes", set |-> PaidPrefixes(refresh[s].routes)]
                                                ELSE NotServing]
    /\ UNCHANGED <<focus, store, secret, file, news, prefixes, overlap, serveVars, left>>

\* SetRoutes: nothing happens when the routes are those last set, applied or not.
\* The first refresh after the caches have synced marks the routes loaded.
SetRoutes(s) ==
    /\ refresh[s].pc = "apply" /\ Unlocked
    /\ LET routes == refresh[s].routes
           same == acc.routes = routes
           ok == same \/ ChainsResolve(acc.base, routes)
       IN  /\ acc' = [acc EXCEPT !.routes = routes]
           /\ IF same THEN UNCHANGED config ELSE Reload(acc.base, routes)
           /\ ready' = (ready \/ (s = "main" /\ ok))
           /\ refresh' = [refresh EXCEPT ![s] = IF ok /\ ~same THEN [pc |-> "prefixes", set |-> PaidPrefixes(routes)]
                                                ELSE NotServing]
    /\ UNCHANGED <<focus, store, secret, file, news, prefixes, overlap, serveVars, left>>

\* The prefixes are stored after the configuration, under the accumulator's lock
\* but without one that readers take.
StorePrefixes(s) ==
    /\ refresh[s].pc = "prefixes"
    /\ prefixes' = refresh[s].set
    /\ refresh' = [refresh EXCEPT ![s] = NotServing]
    /\ UNCHANGED <<focus, store, secret, file, news, acc, config, ready, overlap, serveVars, left>>

\* watchConfig: the modification time is recorded before the file is read, so a
\* file that could not be read is not read again until it changes.
PollFile ==
    /\ "file" \in news /\ refresh["file"] = NotServing
    /\ news' = news \ {"file"}
    /\ \/ refresh' = [refresh EXCEPT !["file"] = [pc |-> "base", base |-> file]] /\ UNCHANGED overlap
       \/ refresh' = refresh /\ overlap' = TRUE
    /\ UNCHANGED <<focus, store, secret, file, acc, config, prefixes, ready, serveVars, left>>

SetBase ==
    /\ refresh["file"].pc = "base" /\ Unlocked
    /\ LET base == refresh["file"].base
           ok == base # acc.base /\ ChainsResolve(base, acc.routes)
       IN  /\ acc' = [acc EXCEPT !.base = base]
           /\ IF base = acc.base THEN UNCHANGED config ELSE Reload(base, acc.routes)
           /\ refresh' = [refresh EXCEPT !["file"] =
                            IF ok THEN [pc |-> "prefixes", set |-> PaidPrefixes(acc.routes)] ELSE NotServing]
    /\ UNCHANGED <<focus, store, secret, file, news, prefixes, ready, overlap, serveVars, left>>

----------------------------------------------------------------------------
\* Requests.

Tick ==
    /\ focus = "requests" /\ now < MaxTime
    /\ now' = now + 1
    /\ UNCHANGED <<focus, routeVars, nonces, quota, epoch, tokens, req, accepted, freeCalls, late, evicted, left>>

\* A restarted pod has a new secret, no nonces and no counters.
Restart ==
    /\ focus = "requests" /\ Event
    /\ epoch' = epoch + 1 /\ nonces' = [m \in {} |-> 0]
    /\ quota' = [day |-> -1, counts |-> [w \in Wallets |-> 0]]
    /\ req' = [r \in Requests |-> NotServing]
    /\ accepted' = [m \in Messages |-> 0]
    /\ freeCalls' = [w \in Wallets |-> [d \in DOMAIN freeCalls[w] |-> 0]]
    /\ late' = FALSE /\ evicted' = FALSE
    /\ UNCHANGED <<focus, routeVars, now, tokens>>

\* VerifyMessage up to the nonce, and VerifySession.
Fresh(m, at) == Issued[m] >= at - Window /\ Issued[m] <= at + Skew /\ at <= Expires[m]
ValidSession(t, at) == t.epoch = epoch /\ at < t.exp

\* handleAuthEndpoints: <offer>/auth and <offer>/auth/verify of an offer with a
\* gate:auth route, the unlock offer excepted.
SignInOffer(path) ==
    {o \in Offers \ {UnlockOffer} :
        /\ path \in {Base[o] \o <<"auth">>, Base[o] \o <<"auth", "verify">>}
        /\ \E r \in config.routes : r.offer = o /\ r.gate = "auth"}

\* HandleProxy up to the gate: the sign-in endpoints, the rule, the upstream
\* paths, the body policy.  What is left is the class that serves the request.
GateOf(method, path, paying) ==
    IF SignInOffer(path) # {} THEN {"signin"}
    ELSE {IF ~PathAllowed(r, method, path)
            THEN (IF PaywallPreview(r, method, path, paying) THEN "preview" ELSE "refuse")
          ELSE IF r.gate = "paid" /\ ~Resolvable(r) THEN "refuse"
          ELSE IF r.gate = "paid" /\ r.offer = FreeOffer THEN "quota"
          ELSE IF r.gate = "auth" /\ r.offer = UnlockOffer THEN "unlock"
          ELSE r.gate : r \in MatchRoute(config.routes, path)}

\* A request with a signed message: the clock is read, the message is judged,
\* and the nonce waits for the lock.
PresentMessage(r, method, path, m) ==
    /\ focus = "requests" /\ req[r] = NotServing
    /\ Fresh(m, now)
    /\ \E g \in GateOf(method, path, FALSE) \cap {"signin", "free", "auth", "unlock", "quota"} :
         req' = [req EXCEPT ![r] = [pc |-> "nonce", gate |-> g, m |-> m, at |-> now, wallet |-> Signer[m]]]
    /\ UNCHANGED <<focus, routeVars, now, nonces, quota, epoch, tokens, accepted, freeCalls, late, evicted, left>>

PresentSession(r, method, path, t) ==
    /\ focus = "requests" /\ req[r] = NotServing
    /\ t \in tokens /\ ValidSession(t, now)
    /\ "quota" \in GateOf(method, path, FALSE)
    /\ req' = [req EXCEPT ![r] = [pc |-> "quota", wallet |-> t.wallet, day |-> now \div DayLength]]
    /\ UNCHANGED <<focus, routeVars, now, nonces, quota, epoch, tokens, accepted, freeCalls, late, evicted, left>>

\* Mutant: nonces are kept for the window only.
KeptWindow(seen, at) == seen >= at - Window

Kept(seen, at) == seen >= at - Window - Skew

Restrict2(f, S) == [x \in S |-> f[x]]
\* The lock is taken while a request that read its clock before still waits.
Overtakes(r) == \E q \in Requests : req[q].pc = "nonce" /\ req[q].at < req[r].at

\* consumeNonce under its lock, with the clock read before: prune, refuse a
\* nonce that is known, evict the oldest when full.  A session follows on the
\* sign-in endpoint, the free tier's lock on a paid route.
ConsumeNonce(r) ==
    /\ req[r].pc = "nonce"
    /\ LET j == req[r]
           kept == Restrict2(nonces, {m \in DOMAIN nonces : Kept(nonces[m], j.at)})
           room == IF Cardinality(DOMAIN kept) >= NonceCacheMax
                   THEN Restrict2(kept, DOMAIN kept \ {CHOOSE m \in DOMAIN kept : \A x \in DOMAIN kept : kept[m] <= kept[x]})
                   ELSE kept
       IN  IF j.m \in DOMAIN kept
           THEN /\ nonces' = kept /\ req' = [req EXCEPT ![r] = NotServing]
                /\ UNCHANGED <<accepted, tokens, evicted>>
           ELSE /\ nonces' = [m \in DOMAIN room \cup {j.m} |-> IF m = j.m THEN j.at ELSE room[m]]
                /\ accepted' = [accepted EXCEPT ![j.m] = @ + 1]
                /\ evicted' = (evicted \/ room # kept)
                /\ tokens' = IF j.gate = "signin"
                             THEN tokens \cup {[wallet |-> j.wallet, exp |-> j.at + SessionTTL, epoch |-> epoch]}
                             ELSE tokens
                /\ req' = [req EXCEPT ![r] = IF j.gate = "quota"
                             THEN [pc |-> "quota", wallet |-> j.wallet, day |-> now \div DayLength]
                             ELSE NotServing]
    /\ late' = (late \/ Overtakes(r))
    /\ UNCHANGED <<focus, routeVars, now, quota, epoch, freeCalls, left>>

UnderLimit(n) == n < FreeQuota

\* freeQuotaCounter.consume under its lock, with the day read before: another
\* day's counters start from nothing, whichever day is the later.
ConsumeQuota(r) ==
    /\ req[r].pc = "quota"
    /\ LET j == req[r]
           counts == IF quota.day = j.day THEN quota.counts ELSE [w \in Wallets |-> 0]
           free == UnderLimit(counts[j.wallet])
       IN  /\ quota' = [day |-> j.day,
                        counts |-> IF free THEN [counts EXCEPT ![j.wallet] = @ + 1] ELSE counts]
           /\ freeCalls' = IF free THEN [freeCalls EXCEPT ![j.wallet][j.day] = @ + 1] ELSE freeCalls
           /\ late' = (late \/ j.day < quota.day)
    /\ req' = [req EXCEPT ![r] = NotServing]
    /\ UNCHANGED <<focus, routeVars, now, nonces, epoch, tokens, accepted, evicted, left>>

\* handlePaidUnlock: challenge, verify, settle, then the only session of the
\* unlock offer that costs something; a settlement that failed mints none.
PaidUnlock(w) ==
    /\ focus = "requests"
    /\ \E p \in Paths : "unlock" \in GateOf("POST", p, TRUE)
    /\ tokens' = tokens \cup {[wallet |-> w, exp |-> now + SessionTTL, epoch |-> epoch]}
    /\ tokens' # tokens
    /\ UNCHANGED <<focus, routeVars, now, nonces, quota, epoch, req, accepted, freeCalls, late, evicted, left>>

RouteStep == (\E o \in Offers : ChangeOffer(o)) \/ RotateSecret \/ WritePricing \/ PollFile \/ SetBase
    \/ \E s \in Sources : ListStores(s) \/ SetRoutes(s) \/ StorePrefixes(s)
ServeStep == Tick \/ Restart \/ (\E w \in Wallets : PaidUnlock(w))
    \/ \E r \in Requests : ConsumeNonce(r) \/ ConsumeQuota(r)
         \/ \E method \in {"GET", "POST"}, p \in Paths :
              \/ \E m \in Messages : PresentMessage(r, method, p, m)
              \/ \E t \in tokens : PresentSession(r, method, p, t)
GatewayNext == RouteStep \/ ServeStep

GatewaySpec == GatewayInit /\ [][GatewayNext]_gatewayVars

----------------------------------------------------------------------------
GatewayTypeOK ==
    /\ focus \in {"routes", "requests", "jobs"}
    /\ \A o \in Offers : store[o].table \in Tables \cup {<<>>, Catchall}
    /\ secret \in {"k1", "k2"} /\ news \subseteq Sources
    /\ \A s \in Sources : refresh[s].pc \in {"idle", "apply", "prefixes", "base"}
    /\ \A r \in config.routes : r.gate \in {"paid", "free", "auth"} /\ r.terms = "ok"
    /\ \A p \in prefixes : \E o \in Offers : IsPrefixOf(Base[o], p)
    /\ DOMAIN nonces \subseteq Messages /\ Cardinality(DOMAIN nonces) <= NonceCacheMax
    /\ now \in 0..MaxTime /\ left \in 0..(MaxChanges + MaxRestarts)

\* Once nothing is under way the verifier enforces the routes the store and the
\* file describe, through rotated secrets, refused tables and their repair, as
\* long as no two refreshes overlapped and no file load was missed
\* (WatchServiceOffers: "pushes rendered RouteRules to apply on every change").
TableFollowsStore ==
    (/\ news = {} /\ (\A s \in Sources : refresh[s] = NotServing) /\ ~overlap
     /\ Renderable(store) /\ ChainsResolve(file, RoutesFromStore(store, secret)))
    => config = [base |-> file, routes |-> RoutesFromStore(store, secret)]

\* load: undeclared paths below an offer with a priced route are refused in
\* ForwardAuth mode, whatever route table it declares, beside other offers and
\* however the refreshes that loaded the table overlapped.
UndeclaredIsRefused ==
    (\A s \in Sources : refresh[s] = NotServing) =>
      \A p \in Paths, o \in {q \in Offers : \E r \in config.routes : r.offer = q /\ r.gate # "free"} :
        IsPrefixOf(Base[o], p) /\ p # Base[o] /\ MatchRoute(config.routes, p) = {}
          => "allow" \notin HandleVerify(config, prefixes, "GET", p)

\* A signed message signs in once in the life of the process, however late it is
\* replayed, unless the cache overflowed or a request took the lock before one
\* that read its clock earlier (consumeNonce: "rejecting reuse within the window").
OneSignInPerMessage == ~late /\ ~evicted => \A m \in Messages : accepted[m] <= 1

\* A wallet has FreeQuota free calls a day, unless a request that read the clock
\* before midnight took the lock after one that read it later.
FreeCallsWithinQuota ==
    ~late => \A w \in Wallets : \A d \in DOMAIN freeCalls[w] : freeCalls[w][d] <= FreeQuota

PublicPath(o, op) == Base[o] \o op.key

\* What a document says by itself, whatever the offer declares; a declared route
\* of another gate beats it ("a path conflict the specificity sort resolves in
\* the declared route's favor", serviceoffer_source.go:199).
SaidByItself(o, copy) == IF Kind[o] = "agent" THEN OpenAIOperations("agent") ELSE AnnotateAsyncPaths(copy, {})
Overruled(copy, op) ==
    \E i \in DOMAIN copy.table :
        /\ MatchPattern(copy.table[i], op.key) /\ copy.table[i].gate # op.gate
        /\ op \in JobPages => copy.table[i].segs # <<>>

\* openAPIPathsForOffer: a documented path shows, under some method, the gate the
\* verifier applies to it, however exact and wildcard routes collapse into one
\* path and whatever rules the offer's jobs and its neighbours bring in ("the
\* collapsed operation always reflects the route the verifier will actually
\* select"; per method it does not, since the verifier ignores methods).
AdvertisedIsEnforced ==
    focus = "requests" =>
      \A o \in Offers, p \in Paths :
        LET docs == {op \in OpenAPIPathsForOffer(o, store[o]) : PublicPath(o, op) = p}
        IN  docs # {} /\ (\A op \in docs \cap SaidByItself(o, store[o]) : ~Overruled(store[o], op)) =>
              \A r \in MatchRoute(config.routes, p) :
                r.offer = o => r.gate \in {op.gate : op \in docs}

\* What the process hands out for nothing or for a signature stays within its
\* limits, however its locks are taken after its clock was read.
LimitsHold == GatewayTypeOK /\ OneSignInPerMessage /\ FreeCallsWithinQuota
=============================================================================
