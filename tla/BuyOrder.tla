------------------------------ MODULE BuyOrder ------------------------------
(***************************************************************************)
(* Buying inference: `obol buy inference` quotes the seller, prices the    *)
(* order and has it confirmed on the host (cmd/obol/buy.go,                *)
(* internal/buy/discover.go), then runs buy.py in the agent's pod, which   *)
(* quotes again, signs the vouchers and writes them into the purchase; the *)
(* agent's background loop (`buy.py process`) refills a low pool in the    *)
(* same way.  The seller may change its price at any moment, the buyer     *)
(* sidecar spends the pool, and the controller loads it and drains a       *)
(* purchase that is deleted.                                               *)
(***************************************************************************)
EXTENDS Integers, Sequences, FiniteSets

CONSTANTS PerUnit,          \* vouchers per unit of a perMTok offer
                            \* (schemas.ApproxTokensPerRequest)
          TopPrice,         \* bound: the seller's prices are 1..TopPrice a unit
          Catalogs,         \* the catalogs a seller may publish: sets of entries
          MaxAuthCount,     \* MAX_AUTH_COUNT of buy.py
          NoPurchase,       \* model value: no PurchaseRequest of the name
          MaxOrders, MaxRefills, MaxMoves    \* bounds: orders, refill rounds,
                                             \* price moves and failures

\* An entry of a catalog; a voucher, a refill policy, a purchase.
Places == {"relative", "origin", "public", "elsewhere"}
CatalogEntries == [type : STRING, named : BOOLEAN, place : Places]
AuthPools == Seq([n : Nat, price : Nat])
Policies == [enabled : BOOLEAN, threshold : Nat, count : Nat, cap : Nat]
Purchases == [auths : AuthPools, price : Nat, policy : Policies, deleting : BOOLEAN,
              uid : Nat, gen : Nat, loadedGen : Nat]

ASSUME BuyAssumption ==
    /\ {PerUnit, TopPrice, MaxAuthCount} \subseteq Nat \ {0}
    /\ {MaxOrders, MaxRefills, MaxMoves} \subseteq Nat
    /\ Catalogs \subseteq SUBSET CatalogEntries
    /\ NoPurchase \notin Purchases

VARIABLES quoted,       \* [price, unit]: what the seller asks per unit
          purchase,     \* the PurchaseRequest, or NoPurchase
          loaded,       \* the pool of the sidecar
          order,        \* the order under way: `obol buy`, then `buy.py buy`
          refill,       \* the round of `buy.py process` under way
          signedNext,   \* the number of the next voucher
          burnt,        \* the vouchers spent
          undercut,     \* ghost: the purchase was written from a pool that
                        \* was not the one of the write before it
          orders, refills, moves

buyCounts == <<orders, refills, moves>>
walletVars == <<signedNext, burnt>>
buyVars == <<quoted, purchase, loaded, order, refill, walletVars, undercut,
             buyCounts>>

Units == {"perRequest", "perMTok"}
NoOrder == [at |-> "none"]
NoPolicy == [enabled |-> FALSE, threshold |-> 0, count |-> 0, cap |-> 0]
Moves == moves < MaxMoves /\ moves' = moves + 1

OrderAt(s) == order.at = s
OrderGoes(s) == order' = [order EXCEPT !.at = s]
OrderEnds == order' = NoOrder
RefillEnds == refill' = NoOrder

-----------------------------------------------------------------------------
(* The seller's catalog.  An entry is [type, named, place]: named when it is *)
(* the one whose path the buyer typed, and its endpoint relative to the      *)
(* seller's origin, on it, on a public https host, or anywhere else.         *)

\* An absolute endpoint off the seller's origin passes on a public https name.
IsPublicHTTPSEndpoint(e) == e.place = "public"
SameSellerOrigin(e) == e.place = "origin"

ResolveCatalogEndpoint(e) ==
    e.place = "relative" \/ SameSellerOrigin(e) \/ IsPublicHTTPSEndpoint(e)

PinCatalogToSeller(catalog) == {e \in catalog : ResolveCatalogEndpoint(e)}

\* The entry typed, when it sells inference; for a bare storefront the only
\* inference offer.  Empty when the command refuses.
PickCatalogEntry(catalog, typed) ==
    LET offers == {e \in catalog : e.type = "inference" /\ (typed => e.named)} IN
    IF Cardinality(offers) = 1 THEN offers ELSE {}

\* The offer of a typed path is asked at the address typed; an entry picked
\* from a storefront at its own, pinned endpoint.
CanonicalOfferURL(e, typed) == IF typed THEN "origin" ELSE e.place

\* Any of the catalogs the seller publishes.
FetchServiceCatalog == Catalogs

\* The registration document of the offer's own host: whether it lists the
\* offer's endpoint, and the registries on which it names the expected agent.
FetchSellerRegistration ==
    [services : SUBSET {"offer", "other"}, agents : SUBSET {"priced", "other"}]

VerifySellerEndpoint(reg) == "offer" \in reg.services
\* The agent counts on the registry of the priced network only.
VerifyAgentIDForPricing(reg) == "priced" \in reg.agents

\* What the live 402 says for the model: no payment option, or the first one,
\* whose asset is or is not the one of the order's token.
FetchSellerPricing == {"none", "token", "othertoken"}
ValidateTokenAgainstPricing(option) == option = "token"

IdentityOK(checked, reg) ==
    checked => VerifySellerEndpoint(reg) /\ VerifyAgentIDForPricing(reg)

\* How the checks before an order may come out.
Preflights ==
    {ValidateTokenAgainstPricing(option) /\ IdentityOK(checked, reg) :
        option \in FetchSellerPricing, checked \in BOOLEAN, reg \in FetchSellerRegistration}

-----------------------------------------------------------------------------
(* Prices and counts *)

AuthMultiplier(unit) == IF unit = "perMTok" THEN PerUnit ELSE 1

ApplyAuthCap(requested) ==
    IF requested <= MaxAuthCount THEN requested ELSE MaxAuthCount

\* The count typed, or the default of the prompt.
PromptCount(flag) == IF flag = 0 THEN 1 ELSE flag

\* The refill asked for, in vouchers and capped; 0 leaves it to buy.py.
EffectiveAutoRefillAuths(on, count, unit) ==
    IF on THEN ApplyAuthCap(count * AuthMultiplier(unit)) ELSE 0

\* What the seller's 402 asks per request: per-MTok prices are rounded up.
Wire(q) ==
    LET m == AuthMultiplier(q.unit) IN (q.price + m - 1) \div m

\* The price per unit the order is made at: the catalog's, else the 402's made a
\* price per unit again.
PricingPerUnit == {quoted.price, Wire(quoted) * AuthMultiplier(quoted.unit)}

\* promptAutoRefill: on or off, and the count of a refill if it is on.
PromptAutoRefill == {p \in [on : BOOLEAN, rc : 0..1] : p.rc # 0 => p.on}

\* The host's price of a voucher, rounded down; 0 is refused.
PricePerAuth(price, unit) == price \div AuthMultiplier(unit)

\* The exact cost of what is asked for; a --budget below it is refused.
ResolveBudget(flag, auths, perAuth) ==
    IF flag # 0 /\ flag < auths * perAuth THEN 0 ELSE auths * perAuth

\* The ceiling per unit: the flag, else half as much again; 0 for none.
ResolveCostCap(flag, price, on) ==
    IF flag # 0 THEN flag ELSE IF on THEN (price * 15000) \div 10000 ELSE 0

\* The ceiling as buy.py gets it: divided for a perMTok offer, whatever it was
\* given in, and left out of the command when that comes to nothing.
CostCapForBuyPy(cap, unit) == cap \div AuthMultiplier(unit)

DefaultRefillThreshold(n) ==
    IF n <= 1 THEN 0 ELSE IF n \div 5 = 0 THEN 1 ELSE n \div 5

\* The policy a buy leaves: what is asked over what is recorded.
ResolveAutoRefill(on, rc, cap, n, old) ==
    IF ~on THEN old
    ELSE [enabled |-> TRUE,
          threshold |-> IF old.threshold # 0 THEN old.threshold
                        ELSE DefaultRefillThreshold(n),
          count |-> IF rc # 0 THEN rc ELSE IF old.count # 0 THEN old.count ELSE n,
          cap |-> IF cap # 0 THEN cap ELSE old.cap]

\* A mutant: the leading vouchers are taken for the unspent ones.
LeadingAuths(auths, remaining) == SubSeq(auths, 1, remaining)

\* The vouchers of the purchase not spent yet: the last `remaining`.
ActiveAuthPool(auths, remaining) ==
    SubSeq(auths, Len(auths) - remaining + 1, Len(auths))

PresignAuths(price, n) == [i \in 1..n |-> [n |-> signedNext + i - 1, price |-> price]]

\* The vouchers of a pool that are not spent, in its order.
Unspent(auths) ==
    LET kept == {i \in 1..Len(auths) : auths[i].n \notin burnt}
        Rank(i) == Cardinality({k \in kept : k <= i})
    IN [j \in 1..Cardinality(kept) |-> auths[CHOOSE i \in kept : Rank(i) = j]]

PendingSync == purchase.loadedGen # purchase.gen

\* The write of the purchase that is there, and the one the sidecar follows.
WrittenPool == <<purchase.uid, purchase.gen>>
Followed == <<purchase.uid, purchase.loadedGen>>
Unwritten == <<0, 0>>

-----------------------------------------------------------------------------
(* The environment *)

BuyInit ==
    /\ quoted \in [price : 1..TopPrice, unit : Units]
    /\ purchase = NoPurchase /\ loaded = << >>
    /\ order = NoOrder /\ refill = NoOrder
    /\ signedNext = 1 /\ burnt = {}
    /\ undercut = FALSE
    /\ orders = 0 /\ refills = 0 /\ moves = 0

SellerReprices ==
    /\ Moves
    /\ \E p \in 1..TopPrice \ {quoted.price} : quoted' = [quoted EXCEPT !.price = p]
    /\ UNCHANGED <<purchase, loaded, order, refill, walletVars, undercut, orders, refills>>

\* The controller mounts the pool of the purchase; the sidecar's reload leaves
\* out what it has spent.
ControllerLoads ==
    /\ purchase # NoPurchase /\ PendingSync
    /\ purchase' = [purchase EXCEPT !.loadedGen = purchase.gen]
    /\ loaded' = Unspent(purchase.auths)
    /\ UNCHANGED <<quoted, order, refill, walletVars, undercut, buyCounts>>

SidecarSpends ==
    /\ loaded # << >>
    /\ loaded' = Tail(loaded)
    /\ burnt' = burnt \cup {Head(loaded).n}
    /\ UNCHANGED <<quoted, purchase, order, refill, signedNext, undercut, buyCounts>>

\* A deleted purchase goes once its pool is spent.
DrainEnds ==
    /\ purchase # NoPurchase /\ purchase.deleting
    /\ ~PendingSync /\ loaded = << >>
    /\ purchase' = NoPurchase
    /\ UNCHANGED <<quoted, loaded, order, refill, walletVars, undercut, buyCounts>>

-----------------------------------------------------------------------------
(* obol buy inference, on the host *)

\* The flags given; 0 for one left out.
BuyInferenceCommand ==
    [typed : BOOLEAN, replace : BOOLEAN, count : {0, 2}, budget : {0, 2}, cap : 0..1]

\* FetchServiceCatalog, PinCatalogToSeller, PickCatalogEntry; a refill policy of
\* flags and answers.
BuyInference(flags, asks) ==
    /\ OrderAt("none") /\ orders < MaxOrders /\ orders' = orders + 1
    /\ flags.cap # 0 => asks.on
    /\ \E catalog \in FetchServiceCatalog, price \in PricingPerUnit :
         \E e \in PickCatalogEntry(PinCatalogToSeller(catalog), flags.typed) :
           order' = [at |-> "probe", url |-> CanonicalOfferURL(e, flags.typed),
                     price |-> price, count |-> PromptCount(flags.count),
                     budget |-> flags.budget, on |-> asks.on, rc |-> asks.rc,
                     cap |-> flags.cap, replace |-> flags.replace]
    /\ UNCHANGED <<quoted, purchase, loaded, refill, walletVars, undercut,
                   refills, moves>>

\* The live 402 is probed for the token, and the seller's identity when asked.
SellerProbed ==
    /\ OrderAt("probe")
    /\ TRUE \in Preflights
    /\ order' = [at |-> "mode", price |-> order.price, count |-> order.count,
                 budget |-> order.budget, on |-> order.on, rc |-> order.rc,
                 cap |-> order.cap, replace |-> order.replace]
    /\ UNCHANGED <<quoted, purchase, loaded, refill, walletVars, undercut, buyCounts>>

ProbeFails ==
    /\ OrderAt("probe") /\ Moves
    /\ FALSE \in Preflights
    /\ OrderEnds
    /\ UNCHANGED <<quoted, purchase, loaded, refill, walletVars, undercut, orders, refills>>

\* An existing purchase is topped up, or deleted first: before the prompts.
ResolveBuyMode ==
    /\ OrderAt("mode")
    /\ IF purchase # NoPurchase /\ order.replace
       THEN /\ OrderGoes("deleting")
            /\ purchase' = [purchase EXCEPT !.deleting = TRUE]
       ELSE OrderGoes("ask") /\ UNCHANGED purchase
    /\ UNCHANGED <<quoted, loaded, refill, walletVars, undercut, buyCounts>>

\* kubectl delete --wait=true.
DeletePurchaseRequest ==
    /\ OrderAt("deleting") /\ purchase = NoPurchase
    /\ OrderGoes("ask")
    /\ UNCHANGED <<quoted, purchase, loaded, refill, walletVars, undercut, buyCounts>>

\* The vouchers asked for and the budget handed to buy.py; 0 for a refusal.
Auths == ApplyAuthCap(order.count * AuthMultiplier(quoted.unit))
Budget == ResolveBudget(order.budget, Auths, PricePerAuth(order.price, quoted.unit))

\* The command run in the pod.
BuildBuyPyArgv ==
    [at |-> "pod", n |-> Auths, budget |-> Budget, on |-> order.on,
     rc |-> EffectiveAutoRefillAuths(order.on, order.rc, quoted.unit),
     cap |-> CostCapForBuyPy(ResolveCostCap(order.cap, order.price, order.on), quoted.unit)]

\* The summary is confirmed and buy.py runs in the pod.
ConfirmBuy ==
    /\ OrderAt("ask") /\ Budget # 0
    /\ order' = BuildBuyPyArgv
    /\ UNCHANGED <<quoted, purchase, loaded, refill, walletVars, undercut, buyCounts>>

\* The order is refused, or declined.
BuyCancelled ==
    /\ OrderAt("ask") /\ (Budget = 0 \/ moves < MaxMoves)
    /\ OrderEnds
    /\ moves' = IF Budget = 0 THEN moves ELSE moves + 1
    /\ UNCHANGED <<quoted, purchase, loaded, refill, walletVars, undercut, orders, refills>>

-----------------------------------------------------------------------------
(* buy.py buy, in the agent's pod *)

\* The order at the price now asked must fit the budget.
WithinBudget(n, price, budget) == n * price <= budget

\* The price is asked again; the purchase and then the sidecar are read.
Quote ==
    /\ OrderAt("pod")
    /\ LET price == Wire(quoted) IN
       IF WithinBudget(order.n, price, order.budget)
       THEN order' = [at |-> "read", n |-> order.n, budget |-> order.budget, on |-> order.on,
                      rc |-> order.rc, cap |-> order.cap, price |-> price]
       ELSE OrderEnds
    /\ UNCHANGED <<quoted, purchase, loaded, refill, walletVars, undercut, buyCounts>>

\* What is read before the vouchers are signed.
Reading(s, auths, seen, left) ==
    [at |-> s, n |-> order.n, budget |-> order.budget, on |-> order.on, rc |-> order.rc,
     cap |-> order.cap, price |-> order.price, have |-> auths, seen |-> seen, left |-> left]

\* A purchase that is draining or not yet in step with the sidecar is refused.
ReadPurchase ==
    /\ OrderAt("read")
    /\ IF purchase = NoPurchase
       THEN order' = Reading("sign", << >>, Unwritten, 0)
       ELSE IF purchase.deleting \/ PendingSync
       THEN OrderEnds
       ELSE order' = Reading("status", purchase.auths, WrittenPool, 0)
    /\ UNCHANGED <<quoted, purchase, loaded, refill, walletVars, undercut, buyCounts>>

ReadStatus ==
    /\ OrderAt("status")
    /\ order' = Reading("sign", order.have, order.seen, Len(loaded))
    /\ UNCHANGED <<quoted, purchase, loaded, refill, walletVars, undercut, buyCounts>>

\* The vouchers are signed; a remaining count above the pool that was read, or
\* a refill larger than allowed, ends the command with them signed for nothing.
Presign ==
    /\ OrderAt("sign")
    /\ signedNext' = signedNext + order.n
    /\ LET pool == ActiveAuthPool(order.have, order.left)
                       \o PresignAuths(order.price, order.n)
           old == IF order.seen # Unwritten /\ purchase # NoPurchase THEN purchase.policy
                  ELSE NoPolicy
           policy == ResolveAutoRefill(order.on, order.rc, order.cap, Len(pool), old)
       IN IF order.left > Len(order.have) \/ policy.count > MaxAuthCount
          THEN OrderEnds
          ELSE order' = [at |-> "post", budget |-> order.budget, seen |-> order.seen,
                         price |-> order.price, n |-> order.n, pool |-> pool,
                         policy |-> policy, on |-> order.on]
    /\ UNCHANGED <<quoted, purchase, loaded, refill, burnt, undercut, buyCounts>>

\* The wallet, its balance or its allowance does not answer or does not do.
PodAborts ==
    /\ order.at \in {"pod", "read", "status", "sign"} /\ Moves
    /\ OrderEnds
    /\ UNCHANGED <<quoted, purchase, loaded, refill, walletVars, undercut, orders, refills>>

\* POST; on a conflict the spec of what is there is replaced.
CreatePurchaseRequest ==
    /\ OrderAt("post") /\ OrderEnds
    /\ purchase' =
         IF purchase = NoPurchase
         THEN [auths |-> order.pool, price |-> order.price, policy |-> order.policy,
               deleting |-> FALSE, uid |-> orders,
               gen |-> 1, loadedGen |-> 0]
         ELSE [purchase EXCEPT !.auths = order.pool, !.price = order.price,
                               !.policy = order.policy, !.gen = @ + 1]
    /\ undercut' = (purchase # NoPurchase /\ (undercut \/ WrittenPool # order.seen))
    /\ UNCHANGED <<quoted, loaded, refill, walletVars, buyCounts>>

-----------------------------------------------------------------------------
(* buy.py process, in the agent's background *)

\* The sidecar's status is read first ...
ProcessReads ==
    /\ refill.at = "none" /\ refills < MaxRefills /\ refills' = refills + 1
    /\ purchase # NoPurchase /\ purchase.loadedGen # 0
    /\ refill' = [at |-> "list", left |-> Len(loaded), since |-> Followed]
    /\ UNCHANGED <<quoted, purchase, loaded, order, walletVars, undercut, orders, moves>>

\* ... then the purchases are listed: a low pool in step with the sidecar is
\* refilled.
PlanAutoRefill ==
    /\ refill.at = "list"
    /\ IF /\ purchase # NoPurchase /\ ~PendingSync
          /\ purchase.policy.enabled /\ purchase.policy.count > 0
          /\ refill.left <= purchase.policy.threshold
       THEN refill' = [at |-> "quote", left |-> refill.left, since |-> refill.since,
                       have |-> purchase.auths, policy |-> purchase.policy,
                       stored |-> purchase.price]
       ELSE RefillEnds
    /\ UNCHANGED <<quoted, purchase, loaded, order, walletVars, undercut, buyCounts>>

\* The ceiling is compared with the price about to be paid.
UnderCeiling(price, policy, stored) == policy.cap # 0 => price <= policy.cap

\* The price is asked again, the stored one stands for a seller that does not
\* answer, and the new vouchers are signed.
RefillSigns(price) ==
    /\ refill.at = "quote"
    /\ IF UnderCeiling(price, refill.policy, refill.stored)
       THEN /\ signedNext' = signedNext + refill.policy.count
            /\ refill' =
                 IF refill.left > Len(refill.have) THEN NoOrder
                 ELSE [at |-> "put", since |-> refill.since, price |-> price,
                       policy |-> refill.policy,
                       pool |-> ActiveAuthPool(refill.have, refill.left)
                                  \o PresignAuths(price, refill.policy.count)]
       ELSE RefillEnds /\ UNCHANGED signedNext
    /\ UNCHANGED <<quoted, purchase, loaded, order, burnt, undercut, orders, refills>>

RefillQuotes == RefillSigns(Wire(quoted)) /\ UNCHANGED moves
RefillUsesStored == Moves /\ RefillSigns(refill.stored)

\* The purchase is read only now, and its pool replaced.
RefillPuts ==
    /\ refill.at = "put" /\ RefillEnds
    /\ IF purchase = NoPurchase THEN UNCHANGED <<purchase, undercut>>
       ELSE /\ purchase' = [purchase EXCEPT !.auths = refill.pool, !.gen = @ + 1]
            /\ undercut' = (undercut \/ WrittenPool # refill.since)
    /\ UNCHANGED <<quoted, loaded, order, walletVars, buyCounts>>

-----------------------------------------------------------------------------
BuyNext ==
    \/ SellerReprices \/ ControllerLoads \/ SidecarSpends \/ DrainEnds
    \/ \E flags \in BuyInferenceCommand, asks \in PromptAutoRefill : BuyInference(flags, asks)
    \/ SellerProbed \/ ProbeFails \/ ResolveBuyMode \/ DeletePurchaseRequest
    \/ ConfirmBuy \/ BuyCancelled
    \/ Quote \/ ReadPurchase \/ ReadStatus \/ Presign \/ PodAborts
    \/ CreatePurchaseRequest
    \/ ProcessReads \/ PlanAutoRefill \/ RefillQuotes \/ RefillUsesStored
    \/ RefillPuts

BuySpec == BuyInit /\ [][BuyNext]_buyVars

-----------------------------------------------------------------------------
Vouchers(pool) == {pool[i].n : i \in 1..Len(pool)}

\* What a command and a round keep at each of their steps.
HostOrders ==
    [at : {"probe"}, url : Places, price : Nat, count : Nat, budget : Nat, on : BOOLEAN,
     rc : Nat, cap : Nat, replace : BOOLEAN]
    \cup [at : {"mode", "deleting", "ask"}, price : Nat, count : Nat, budget : Nat, on : BOOLEAN,
          rc : Nat, cap : Nat, replace : BOOLEAN]
PodOrders ==
    [at : {"pod"}, n : Nat, budget : Nat, on : BOOLEAN, rc : Nat, cap : Nat]
    \cup [at : {"read"}, n : Nat, budget : Nat, on : BOOLEAN, rc : Nat, cap : Nat, price : Nat]
    \cup [at : {"status", "sign"}, n : Nat, budget : Nat, on : BOOLEAN, rc : Nat, cap : Nat,
          price : Nat, have : AuthPools, seen : Nat \X Nat, left : Nat]
    \cup [at : {"post"}, budget : Nat, seen : Nat \X Nat, price : Nat, n : Nat, pool : AuthPools,
          policy : Policies, on : BOOLEAN]
Refills ==
    [at : {"list"}, left : Nat, since : Nat \X Nat]
    \cup [at : {"quote"}, left : Nat, since : Nat \X Nat, have : AuthPools, policy : Policies, stored : Nat]
    \cup [at : {"put"}, since : Nat \X Nat, price : Nat, policy : Policies, pool : AuthPools]

\* Every variable is in its domain, no voucher is used that was not signed.
BuyTypeOK ==
    /\ quoted \in [price : 1..TopPrice, unit : Units]
    /\ purchase \in Purchases \cup {NoPurchase} /\ loaded \in AuthPools
    /\ purchase # NoPurchase => /\ purchase.loadedGen \in 0..purchase.gen
                                /\ Vouchers(purchase.auths) \subseteq 1..(signedNext - 1)
    /\ order \in {NoOrder} \cup HostOrders \cup PodOrders
    /\ refill \in {NoOrder} \cup Refills
    /\ signedNext \in Nat \ {0} /\ burnt \subseteq 1..(signedNext - 1) /\ undercut \in BOOLEAN
    /\ orders \in 0..MaxOrders /\ refills \in 0..MaxRefills /\ moves \in 0..MaxMoves

\* What the operator confirmed bounds what is signed for the order, although
\* the seller changes its price between the quote and the signature and the
\* host prices a perMTok voucher in its own way (runBuyInference, resolveBudget,
\* cmd_buy).
ConfirmedBudgetHolds ==
    OrderAt("post") => order.n * order.price <= order.budget

\* No refill signs above the ceiling the purchase records, whatever the seller
\* asks by then (_reconcile_purchase_autorefill).
RefillsUnderTheCeiling ==
    refill.at = "put" => (refill.policy.cap # 0 => refill.price <= refill.policy.cap)

\* A top-up or a refill keeps what is not spent: every voucher the sidecar can
\* still use is in the purchase, or in the one it is about to be replaced by,
\* unless the purchase was once written from a pool listed before another write:
\* from then on the number left is no longer that of the last vouchers
\* (_active_auth_pool).
UnspentIsKept ==
    /\ purchase # NoPurchase /\ ~undercut =>
         Vouchers(loaded) \subseteq Vouchers(purchase.auths)
    /\ refill.at = "put" /\ purchase # NoPurchase /\ WrittenPool = refill.since /\ ~undercut =>
         Vouchers(loaded) \subseteq Vouchers(refill.pool)

\* What is checked of an order from the command to the purchase, and of its
\* refills (buy.go, buy.py).
BuyInv ==
    /\ BuyTypeOK
    /\ ConfirmedBudgetHolds
    /\ RefillsUnderTheCeiling
    /\ UnspentIsKept
=============================================================================
