--------------------------- MODULE VoucherSidecar ---------------------------
(***************************************************************************)
(* The buyer sidecar (cmd/x402-buyer, internal/x402/buyer) as it serves    *)
(* one purchased upstream: the pool of pre-signed vouchers of a signer,    *)
(* the requests that take vouchers from it, the reload that rebuilds the   *)
(* signer from the mounted files, and the store of consumed nonces.        *)
(*                                                                         *)
(* Every Reload builds a new PreSignedSigner.  A request keeps the signer  *)
(* it resolved for its whole life, so several signers can be in use at a   *)
(* time: the one the proxy serves with, and older ones that only running   *)
(* requests still reference.  `Signers' is a set of names for them; a name *)
(* that nothing references is free and is used again for a later signer.   *)
(*                                                                         *)
(* Vouchers are numbered in the order of the auths file.  The seller and   *)
(* the chain are the environment: any voucher that was sent may be debited *)
(* at any later time.                                                      *)
(***************************************************************************)
EXTENDS Naturals, Sequences, FiniteSets

CONSTANTS
    NumVouchers,    \* vouchers ever signed for the upstream
    Perishable,     \* the vouchers authDeadlineUnix finds a deadline in
    Requests,       \* concurrent requests (HTTP handler goroutines)
    Signers,        \* names for signer objects
    Unlisted,       \* the mounted config does not have the upstream
    NoSigner,       \* no signer: the upstream is not served
    NoVoucher       \* a request that holds nothing

Vouchers == 1..NumVouchers

(***************************************************************************)
(* A reload names its signer with one that no request references, so one   *)
(* name more than there are requests is always enough.                     *)
(***************************************************************************)
ASSUME SidecarAssumption ==
    /\ NumVouchers \in Nat
    /\ Perishable \subseteq Vouchers
    /\ Unlisted \notin Nat
    /\ NoSigner \notin Signers
    /\ NoVoucher \notin Vouchers

VARIABLES
    \* mounted files, written by the serviceoffer-controller
    listed,         \* Unlisted when the config has no such upstream, else n
                    \* when the auths file lists vouchers 1..n
    \* the proxy
    serving,        \* signer the proxy routes to, or NoSigner
    pool,           \* per signer: vouchers still in s.auths, head first
    spent,          \* per signer: s.spent
    loading,        \* a Reload between its filter loop and its swap
    \* the requests
    pc, sig, held,
    \* the consumed-nonce store
    consumed,       \* in memory
    persisted,      \* in consumed.json
    \* environment
    expired,        \* vouchers inside the expiry safety margin
    exposed,        \* vouchers that were sent, which the seller may settle
    \* history, for the properties only
    crossed,        \* vouchers confirmed through a signer already replaced, or
                    \* while its replacement was being built
    unrecorded      \* sent vouchers whose answer gave no receipt or never
                    \* came, or whose consumption a crash erased

requestVars == <<pc, sig, held>>
storeVars   == <<consumed, persisted>>
envVars     == <<expired, exposed>>
histVars    == <<crossed, unrecorded>>
vars == <<listed, serving, pool, spent, loading, requestVars, storeVars,
          envVars, histVars>>

PC == {"idle", "probing", "selected", "held", "paying"}

NotLoading == [on |-> FALSE, auths |-> <<>>, count |-> 0, present |-> FALSE]

TypeOK ==
    /\ listed \in 0..NumVouchers \cup {Unlisted}
    /\ serving \in Signers \cup {NoSigner}
    /\ pool \in [Signers -> Seq(Vouchers)]
    /\ spent \in [Signers -> Nat]
    /\ loading \in [on: BOOLEAN, auths: Seq(Vouchers), count: Nat, present: BOOLEAN]
    /\ pc \in [Requests -> PC]
    /\ sig \in [Requests -> Signers \cup {NoSigner}]
    /\ held \in [Requests -> Vouchers \cup {NoVoucher}]
    /\ consumed \subseteq Vouchers /\ persisted \subseteq Vouchers
    /\ expired \subseteq Vouchers /\ exposed \subseteq Vouchers
    /\ crossed \subseteq Vouchers /\ unrecorded \subseteq Vouchers

-----------------------------------------------------------------------------
(* Helpers *)

Elements(q) == {q[i] : i \in 1..Len(q)}
Distinct(q) == \A i, j \in 1..Len(q) : q[i] = q[j] => i = j

\* The vouchers of S in the order of the auths file.
FileOrder(S) ==
    {q \in [1..Cardinality(S) -> S] :
        \A i, j \in 1..Cardinality(S) : i < j => q[i] < q[j]}

\* Mutant of Unconsumed: the reload takes every listed voucher.
UnfilteredListed(store) == IF listed = Unlisted THEN {} ELSE 1..listed

\* Reload's filter: listed vouchers that the store does not know as consumed.
Unconsumed(store) == IF listed = Unlisted THEN {} ELSE 1..listed \ store

InUse(sv, sg) == {s \in Signers : s = sv \/ \E r \in Requests : sg[r] = s}

\* Signers no request and no route references are garbage.
Collected(f, empty, sv, sg) ==
    [s \in Signers |-> IF s \in InUse(sv, sg) THEN f[s] ELSE empty]

InPayment == {held[r] : r \in {x \in Requests : pc[x] = "paying"}}

Goto(r, label) == pc' = [pc EXCEPT ![r] = label]

\* The request is answered: its handler returns and drops its signer.
Leave(r, newPool, newSpent) ==
    /\ Goto(r, "idle")
    /\ sig' = [sig EXCEPT ![r] = NoSigner]
    /\ held' = [held EXCEPT ![r] = NoVoucher]
    /\ pool' = Collected(newPool, <<>>, serving, sig')
    /\ spent' = Collected(newSpent, 0, serving, sig')

-----------------------------------------------------------------------------
(***************************************************************************)
(* Start of the process: LoadStateStore, then NewProxy, which reloads      *)
(* before anything is served.  The first start finds an empty state file.  *)
(***************************************************************************)
Init ==
    /\ listed \in 0..NumVouchers
    /\ consumed = {} /\ persisted = {}
    /\ serving \in Signers
    /\ \E q \in FileOrder(1..listed) :
          pool = [s \in Signers |-> IF s = serving THEN q ELSE <<>>]
    /\ spent = [s \in Signers |-> 0]
    /\ loading = NotLoading
    /\ pc = [r \in Requests |-> "idle"]
    /\ sig = [r \in Requests |-> NoSigner]
    /\ held = [r \in Requests |-> NoVoucher]
    /\ expired = {} /\ exposed = {} /\ crossed = {} /\ unrecorded = {}

(***************************************************************************)
(* Requests.  resolveModelRequest (or the /upstream/<name>/ route) takes   *)
(* the entry under the read lock; without one the answer is 404.           *)
(***************************************************************************)
ResolveModelRequest(r) ==
    /\ pc[r] = "idle"
    /\ serving # NoSigner
    /\ Goto(r, "probing")
    /\ sig' = [sig EXCEPT ![r] = serving]
    /\ UNCHANGED <<listed, serving, pool, spent, loading, held, storeVars,
                   envVars, histVars>>

\* The unpaid probe ends the request: transport error, an answer other than
\* 402, unreadable requirements, or none that CanSign accepts.
ProbeEndsRequest(r) ==
    /\ pc[r] = "probing"
    /\ Leave(r, pool, spent)
    /\ UNCHANGED <<listed, serving, loading, storeVars, envVars, histVars>>

\* 402 with a requirement this signer matches.  CanSign looks at the length
\* of the pool and gives the lock back before HoldSign takes it again.
CanSign(r) ==
    /\ pc[r] = "probing"
    /\ Len(pool[sig[r]]) > 0
    /\ Goto(r, "selected")
    /\ UNCHANGED <<listed, serving, pool, spent, loading, sig, held,
                   storeVars, envVars, histVars>>

\* What HoldSign leaves of a pool when it takes the k-th voucher.  The mutant
\* signs with the voucher and leaves it in the pool.
PeekedAt(q, k) == SubSeq(q, k, Len(q))
PoppedAt(q, k) == SubSeq(q, k + 1, Len(q))

\* HoldSign drops expired vouchers from the head, then pops the first other.
\* (Its copy of the stored payload is a JSON round trip of what was read from
\* JSON, which does not fail.)
HoldSign(r) ==
    LET s == sig[r]
        q == pool[s]
    IN  /\ pc[r] = "selected"
        /\ \E k \in 1..Len(q) :
              /\ q[k] \notin expired
              /\ \A j \in 1..(k - 1) : q[j] \in expired
              /\ held' = [held EXCEPT ![r] = q[k]]
              /\ pool' = [pool EXCEPT ![s] = PoppedAt(q, k)]
        /\ spent' = [spent EXCEPT ![s] = @ + 1]
        /\ Goto(r, "held")
        /\ UNCHANGED <<listed, serving, loading, sig, storeVars, envVars,
                       histVars>>

\* Nothing left to sign with.  The mutant looks at the head of the pool only.
HeadExpired(s) == pool[s] = <<>> \/ Head(pool[s]) \in expired
Exhausted(s) == Elements(pool[s]) \subseteq expired

\* Every voucher left has expired, or another request emptied the pool.
HoldSignExhausted(r) ==
    /\ pc[r] = "selected"
    /\ Exhausted(sig[r])
    /\ Leave(r, [pool EXCEPT ![sig[r]] = <<>>], spent)
    /\ UNCHANGED <<listed, serving, loading, storeVars, envVars, histVars>>

\* The retry goes out with the voucher in X-PAYMENT.
SendPayment(r) ==
    /\ pc[r] = "held"
    /\ Goto(r, "paying")
    /\ exposed' = exposed \cup {held[r]}
    /\ UNCHANGED <<listed, serving, pool, spent, loading, sig, held,
                   storeVars, expired, histVars>>

\* ReleaseSpend: back to the head of the pool it came from.
Released(r) == [pool EXCEPT ![sig[r]] = <<held[r]>> \o @]
Unspent(r)  == [spent EXCEPT ![sig[r]] = IF @ > 0 THEN @ - 1 ELSE 0]

\* Mutant of ReleaseBeforeSend: the error path releases what was never held.
ReleaseUnheld(r) ==
    /\ pc[r] \in {"selected", "held"}
    /\ Leave(r, Released(r), Unspent(r))
    /\ UNCHANGED <<listed, serving, loading, storeVars, envVars, histVars>>

\* EncodePayment or the second clone of the request fails: nothing was sent.
ReleaseBeforeSend(r) ==
    /\ pc[r] = "held"
    /\ Leave(r, Released(r), Unspent(r))
    /\ UNCHANGED <<listed, serving, loading, storeVars, envVars, histVars>>

\* The paid attempt got no answer, or a status >= 400 without a transaction
\* in X-PAYMENT-RESPONSE: the voucher returns to the pool.
PaymentReleased(r) ==
    /\ pc[r] = "paying"
    /\ unrecorded' = unrecorded \cup ({held[r]} \ consumed)
    /\ Leave(r, Released(r), Unspent(r))
    /\ UNCHANGED <<listed, serving, loading, storeVars, envVars, crossed>>

\* Mutants of MarkConsumed: a failed write leaves the nonce unmarked; the file
\* gets the new nonce only.
MarkWhenWritten(v) ==
    \/ UNCHANGED storeVars
    \/ consumed' = consumed \cup {v} /\ persisted' = consumed'
MarkWritesOne(v) ==
    /\ consumed' = consumed \cup {v}
    /\ persisted' \in {persisted, {v}}

\* MarkConsumed.  A nonce already known is not written again; otherwise the
\* whole set is written, and a failed write leaves it in memory only.
MarkConsumed(v) ==
    IF v \in consumed
    THEN UNCHANGED storeVars
    ELSE /\ consumed' = consumed \cup {v}
         /\ persisted' \in {persisted, consumed'}

\* A status below 400, or an error whose receipt carries a transaction:
\* ConfirmSpend.  A failed write is only counted.  A status below 400 may
\* come without a receipt; the error branch is taken for a transaction only.
PaymentConfirmed(r) ==
    /\ pc[r] = "paying"
    /\ MarkConsumed(held[r])
    /\ crossed' = IF sig[r] # serving \/ loading.on
                  THEN crossed \cup {held[r]} ELSE crossed
    /\ unrecorded' = unrecorded \ {held[r]}
    /\ Leave(r, pool, spent)
    /\ UNCHANGED <<listed, serving, loading, envVars>>

-----------------------------------------------------------------------------
(***************************************************************************)
(* Reload (ticker or /admin/reload; one goroutine, so one at a time).      *)
(* The files are read and filtered against the store, and the new signer   *)
(* starts with the store's count as s.spent; then the maps are swapped.    *)
(***************************************************************************)
ReloadFilter ==
    /\ ~loading.on
    /\ \E q \in FileOrder(Unconsumed(consumed)) :
          loading' = [on |-> TRUE, auths |-> q, count |-> Cardinality(consumed),
                      present |-> listed # Unlisted]
    /\ UNCHANGED <<listed, serving, pool, spent, requestVars, storeVars,
                   envVars, histVars>>

\* The signer that starts to serve is a new object.
Install(s, q, n, sg) ==
    /\ serving' = s
    /\ pool' = Collected([pool EXCEPT ![s] = q], <<>>, s, sg)
    /\ spent' = Collected([spent EXCEPT ![s] = n], 0, s, sg)

\* No route to the upstream any more; running requests keep their signer.
Unroute(sg) ==
    /\ serving' = NoSigner
    /\ pool' = Collected(pool, <<>>, NoSigner, sg)
    /\ spent' = Collected(spent, 0, NoSigner, sg)

ReloadSwap ==
    /\ loading.on
    /\ IF loading.present
       THEN \E s \in Signers \ {sig[r] : r \in Requests} :
               Install(s, loading.auths, loading.count, sig)
       ELSE Unroute(sig)
    /\ loading' = NotLoading
    /\ crossed' = crossed \cap Elements(loading.auths)
    /\ UNCHANGED <<listed, requestVars, storeVars, envVars, unrecorded>>

\* POST /admin/remove
AdminRemove ==
    /\ serving # NoSigner
    /\ Unroute(sig)
    /\ UNCHANGED <<listed, loading, requestVars, storeVars, envVars,
                   histVars>>

(***************************************************************************)
(* The process dies (or shuts down) and starts again: requests and pools   *)
(* are gone, the store is what consumed.json holds, NewProxy reloads.      *)
(***************************************************************************)
Restart ==
    LET noSig == [r \in Requests |-> NoSigner]
    IN  /\ pc' = [r \in Requests |-> "idle"]
        /\ sig' = noSig
        /\ held' = [r \in Requests |-> NoVoucher]
        /\ loading' = NotLoading
        /\ consumed' = persisted
        /\ unrecorded' = (unrecorded \cup consumed \cup InPayment) \ persisted
        /\ crossed' = {}
        /\ IF listed # Unlisted
           THEN \E s \in Signers, q \in FileOrder(Unconsumed(persisted)) :
                   Install(s, q, Cardinality(persisted), noSig)
           ELSE Unroute(noSig)
        /\ UNCHANGED <<listed, persisted, envVars>>

-----------------------------------------------------------------------------
(* Environment: the controller's ConfigMaps, time, the seller and the chain *)

\* The controller appends vouchers to the auths file, lists the upstream, or
\* withdraws it.  Config and auths are two ConfigMaps, mounted separately: an
\* upstream whose auths are missing has an empty pool (listed = 0).
Mount ==
    /\ listed' \in {Unlisted, 0} \cup
            {n \in 1..NumVouchers : listed \in 0..NumVouchers => n > listed}
    /\ listed' # listed
    /\ UNCHANGED <<serving, pool, spent, loading, requestVars, storeVars,
                   envVars, histVars>>

\* A voucher comes within authExpirySafetyMarginSec of its deadline.
Expire(v) ==
    /\ v \in Perishable \ expired
    /\ expired' = expired \cup {v}
    /\ UNCHANGED <<listed, serving, pool, spent, loading, requestVars,
                   storeVars, exposed, histVars>>

RequestStep(r) ==
    \/ ResolveModelRequest(r)
    \/ ProbeEndsRequest(r)
    \/ CanSign(r)
    \/ HoldSign(r)
    \/ HoldSignExhausted(r)
    \/ SendPayment(r)
    \/ ReleaseBeforeSend(r)
    \/ PaymentReleased(r)
    \/ PaymentConfirmed(r)

Next ==
    \/ \E r \in Requests : RequestStep(r)
    \/ ReloadFilter
    \/ ReloadSwap
    \/ AdminRemove
    \/ Restart
    \/ Mount
    \/ \E v \in Vouchers : Expire(v)

Spec == Init /\ [][Next]_vars

-----------------------------------------------------------------------------
(* Properties *)

(***************************************************************************)
(* HoldSign's reservation is exclusive among the requests of one signer: a *)
(* voucher is in the pool at most once, never in the pool while a request  *)
(* of that signer holds it, and never held by two of its requests, however *)
(* holds, releases, reloads and restarts interleave.                       *)
(***************************************************************************)
OneHolderPerSigner ==
    /\ \A s \in Signers : Distinct(pool[s])
    /\ \A r \in Requests :
          held[r] # NoVoucher => held[r] \notin Elements(pool[sig[r]])
    /\ \A r1, r2 \in Requests :
          /\ held[r1] # NoVoucher
          /\ sig[r1] = sig[r2]
          /\ held[r1] = held[r2]
          => r1 = r2

(***************************************************************************)
(* The local ledger covers what the seller could settle: every voucher     *)
(* that was ever sent is recorded as consumed, is out with a paid attempt, *)
(* or is one the sidecar cannot know of, because its answer carried no     *)
(* receipt or never came, or because a crash erased a consumption that no  *)
(* write had reached.                                                      *)
(***************************************************************************)
SentVouchersAccountedFor == exposed \subseteq consumed \cup InPayment \cup unrecorded

(***************************************************************************)
(* The only way a consumed voucher is offered again within one process:    *)
(* the request that consumed it used a signer that a reload had replaced,  *)
(* or was replacing.  Reload's filter and HoldSign leave no other way.     *)
(***************************************************************************)
ConsumedOfferedOnlyWhenCrossed ==
    serving # NoSigner =>
        Elements(pool[serving]) \cap consumed \subseteq crossed

(***************************************************************************)
(* A consumption reaches the disk with the first write that succeeds after *)
(* it, its own or another's, and what was written no restart takes back.   *)
(***************************************************************************)
WrittenConsumptionSurvives ==
    [][/\ persisted # persisted' => persisted' = consumed'
       /\ persisted \subseteq consumed' \cap persisted']_vars

(***************************************************************************)
(* A request never loses a usable voucher: what leaves the pool of a       *)
(* signer in use has expired or is held, so dropping expired vouchers from *)
(* the head of a mixed pool takes no other with it.                        *)
(***************************************************************************)
UsableVoucherNeverDropped ==
    [][(\E r \in Requests : RequestStep(r)) =>
          \A s \in InUse(serving, sig') :
              Elements(pool[s]) \subseteq
                  Elements(pool'[s]) \cup expired
                      \cup {held'[r] : r \in Requests}]_vars

=============================================================================
