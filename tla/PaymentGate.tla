---------------------------- MODULE PaymentGate ----------------------------
(***************************************************************************)
(* The seller gateway's payment middleware (internal/x402/forwardauth.go)  *)
(* and the registry of payment authorizations in use                       *)
(* (internal/x402/payment_inuse.go), for requests that carry a payment.    *)
(*                                                                         *)
(* A request is verified with the facilitator, claims its authorization,   *)
(* is forwarded, and settles according to what the upstream answered.  The *)
(* settlement interceptor has three ways to do that, chosen by the answer: *)
(*   eager      settle before the status goes out;                         *)
(*   buffered   hold the body, judge it, settle, then send it;             *)
(*   streaming  send an event stream, settle when it has been delivered.   *)
(* A ForwardAuth request (VerifyOnly) never calls the facilitator again.   *)
(*                                                                         *)
(* The upstream, the client, the facilitator and the chain are the         *)
(* environment.  Time is a bounded clock.                                  *)
(***************************************************************************)
EXTENDS Naturals, FiniteSets

CONSTANTS
    Requests,       \* concurrent requests
    Keys,           \* payment authorizations (paymentInUseKey)
    Deadline,       \* [Keys -> Nat]: expiry of the authorization, 0 if none
    MaxEntries,     \* paymentInUseMaxEntries
    SettledCap,     \* paymentInUseSettledCap
    SweepInterval,  \* paymentInUseSweepInterval
    VerifyTimeout,  \* how old a verify answer can be when it is used
    MineDelay,      \* how long a submitted settlement stays unseen by verify
    MaxTime,        \* bound on the clock
    NoKey           \* neither an authorization nor a request

(***************************************************************************)
(* The comment on paymentInUseSettledCap: it covers the window between the *)
(* settlement and the chain state being visible to verify.                 *)
(***************************************************************************)
ASSUME GateAssumption ==
    /\ Deadline \in [Keys -> Nat]
    /\ MaxEntries \in Nat \ {0}
    /\ {SettledCap, SweepInterval, VerifyTimeout, MineDelay, MaxTime} \subseteq Nat
    /\ MineDelay + VerifyTimeout < SettledCap
    /\ NoKey \notin Keys \cup Requests

VARIABLES
    now,
    entry,          \* the registry: [state, expires] per key
    nextSweep,      \* lastSweep + SweepInterval, 0 before the first sweep
    pc, key,
    mode,           \* "forwardauth", "status" (settle on status), "value"
    verifiedAt,     \* when the facilitator evaluated the payment
    settled,        \* settleOnChain || interceptor.settled
    gone,           \* the request's context is canceled
    chain,          \* per key: "unused", "submitted", "used" (seen by verify)
    submittedAt,
    \* history, for the properties only
    receipted,      \* keys this process got a receipt or a tx hash for
    earned,         \* keys some upstream answer justified charging
    bodies          \* per key: held bodies sent to a client (0, 1, 2 or more)

registryVars == <<entry, nextSweep>>
chainVars    == <<chain, submittedAt>>
histVars     == <<receipted, earned, bodies>>
vars == <<now, registryVars, pc, key, mode, verifiedAt, settled, gone,
          chainVars, histVars>>

Time == 0..MaxTime
Modes == {"forwardauth", "status", "value"}
PC == {"idle", "verifying", "verified", "upstream", "buffered", "streaming",
       "settleThenSend", "settleStream", "sending", "done"}

\* The states between claim and the deferred release.
Claimed == {"upstream", "buffered", "streaming", "settleThenSend",
            "settleStream", "sending", "done"}

NoEntry   == [state |-> "none", expires |-> 0]
InFlight  == [state |-> "inFlight", expires |-> 0]
Until(t)  == [state |-> "settled", expires |-> t]

TypeOK ==
    /\ now \in Time
    /\ entry \in [Keys -> [state: {"none", "inFlight", "settled"}, expires: Nat]]
    /\ nextSweep \in Nat
    /\ pc \in [Requests -> PC]
    /\ key \in [Requests -> Keys \cup {NoKey}]
    /\ mode \in [Requests -> Modes]
    /\ verifiedAt \in [Requests -> Time]
    /\ settled \in [Requests -> BOOLEAN]
    /\ gone \in [Requests -> BOOLEAN]
    /\ chain \in [Keys -> {"unused", "submitted", "used"}]
    /\ submittedAt \in [Keys -> Time]
    /\ receipted \subseteq Keys /\ earned \subseteq Keys
    /\ bodies \in [Keys -> 0..2]

Goto(r, label) == pc' = [pc EXCEPT ![r] = label]

-----------------------------------------------------------------------------
(* The registry *)

Lapsed(e) == e.state = "settled" /\ now >= e.expires
Tracked(es) == {k \in Keys : es[k] # NoEntry}

\* Mutant of Swept: an entry in flight has no expiry, so the sweep takes it.
SweptInFlight(es) == [k \in Keys |-> IF now >= es[k].expires THEN NoEntry ELSE es[k]]

\* sweepLocked
Swept(es) == [k \in Keys |-> IF Lapsed(es[k]) THEN NoEntry ELSE es[k]]

\* claim's first test: in flight, or settled and not yet expired.
Blocked(k) == entry[k] # NoEntry /\ ~Lapsed(entry[k])

Full(es) == Cardinality(Tracked(es)) >= MaxEntries

\* claim, past that test: the key's own lapsed entry goes, a due or needed
\* sweep drops the others.
SweepDue(es) == now >= nextSweep \/ Full(es)
ClaimTable(k) ==
    LET es == [entry EXCEPT ![k] = NoEntry]
    IN  IF SweepDue(es) THEN Swept(es) ELSE es
NextSweepAfterClaim(k) ==
    IF SweepDue([entry EXCEPT ![k] = NoEntry]) THEN now + SweepInterval ELSE nextSweep

\* release
BlockedUntil(k) ==
    IF Deadline[k] # 0 /\ Deadline[k] < now + SettledCap
    THEN Deadline[k] ELSE now + SettledCap
\* Mutants of ReleasedEntry: the settled flag is ignored; the entry stores the
\* remaining lifetime instead of an instant.
ForgetSettled(k, isSettled) == NoEntry
StoreLifetime(k, isSettled) ==
    IF ~isSettled THEN NoEntry ELSE Until(Deadline[k] - now)

ReleasedEntry(k, isSettled) ==
    IF ~isSettled \/ now >= BlockedUntil(k) THEN NoEntry ELSE Until(BlockedUntil(k))

-----------------------------------------------------------------------------
Init ==
    /\ now = 0
    /\ entry = [k \in Keys |-> NoEntry]
    /\ nextSweep = 0
    /\ pc = [r \in Requests |-> "idle"]
    /\ key = [r \in Requests |-> NoKey]
    /\ mode = [r \in Requests |-> "status"]
    /\ verifiedAt = [r \in Requests |-> 0]
    /\ settled = [r \in Requests |-> FALSE]
    /\ gone = [r \in Requests |-> FALSE]
    /\ chain = [k \in Keys |-> "unused"]
    /\ submittedAt = [k \in Keys |-> 0]
    /\ receipted = {} /\ earned = {}
    /\ bodies = [k \in Keys |-> 0]

\* The handler returns.
Leave(r) ==
    /\ Goto(r, "idle")
    /\ key' = [key EXCEPT ![r] = NoKey]
    /\ mode' = [mode EXCEPT ![r] = "status"]
    /\ verifiedAt' = [verifiedAt EXCEPT ![r] = 0]
    /\ settled' = [settled EXCEPT ![r] = FALSE]
    /\ gone' = [gone EXCEPT ![r] = FALSE]

Keep == UNCHANGED <<key, mode, verifiedAt, settled, gone>>

\* A payment that parses and matches a requirement goes to the facilitator.
Receive(r, k, m) ==
    /\ pc[r] = "idle"
    /\ Goto(r, "verifying")
    /\ key' = [key EXCEPT ![r] = k]
    /\ mode' = [mode EXCEPT ![r] = m]
    /\ UNCHANGED <<now, registryVars, verifiedAt, settled, gone, chainVars,
                   histVars>>

\* The facilitator evaluates a payment whose nonce it does not see used and
\* whose deadline has not passed; its answer is on the way from here on.
VerifyValid(r) ==
    LET k == key[r]
    IN  /\ pc[r] = "verifying"
        /\ chain[k] # "used"
        /\ Deadline[k] = 0 \/ now < Deadline[k]
        /\ Goto(r, "verified")
        /\ verifiedAt' = [verifiedAt EXCEPT ![r] = now]
        /\ UNCHANGED <<now, registryVars, key, mode, settled, gone, chainVars,
                       histVars>>

\* 402 for an invalid payment, 503 when the facilitator fails.
VerifyRefused(r) ==
    /\ pc[r] = "verifying"
    /\ Leave(r)
    /\ UNCHANGED <<now, registryVars, chainVars, histVars>>

\* claimInUse: 409.
ClaimInUse(r) ==
    /\ pc[r] = "verified"
    /\ Blocked(key[r])
    /\ Leave(r)
    /\ UNCHANGED <<now, registryVars, chainVars, histVars>>

\* claimFull: 503; the sweep it tried has happened.
ClaimFull(r) ==
    /\ pc[r] = "verified"
    /\ ~Blocked(key[r])
    /\ Full(ClaimTable(key[r]))
    /\ entry' = ClaimTable(key[r])
    /\ nextSweep' = NextSweepAfterClaim(key[r])
    /\ Leave(r)
    /\ UNCHANGED <<now, chainVars, histVars>>

\* claimOK: the request is forwarded.
ClaimOK(r) ==
    /\ pc[r] = "verified"
    /\ ~Blocked(key[r])
    /\ ~Full(ClaimTable(key[r]))
    /\ entry' = [ClaimTable(key[r]) EXCEPT ![key[r]] = InFlight]
    /\ nextSweep' = NextSweepAfterClaim(key[r])
    /\ Goto(r, "upstream")
    /\ UNCHANGED <<now, key, mode, verifiedAt, settled, gone, chainVars, histVars>>

-----------------------------------------------------------------------------
(* WriteHeader of the settlement interceptor, and the body *)

\* A status >= 400 passes through and nothing is settled.
UpstreamError(r) ==
    /\ pc[r] = "upstream"
    /\ mode[r] # "forwardauth"
    /\ Goto(r, "done")
    /\ Keep
    /\ UNCHANGED <<now, registryVars, chainVars, histVars>>

\* ForwardAuth: the inner handler writes 200, settleFunc answers true.
ForwardAuthAllows(r) ==
    /\ pc[r] = "upstream"
    /\ mode[r] = "forwardauth"
    /\ settled' = [settled EXCEPT ![r] = TRUE]
    /\ Goto(r, "done")
    /\ UNCHANGED <<now, registryVars, key, mode, verifiedAt, gone, chainVars,
                   histVars>>

\* text/event-stream: status and bytes go out before any settlement.
UpstreamStreams(r) ==
    /\ pc[r] = "upstream"
    /\ mode[r] # "forwardauth"
    /\ Goto(r, "streaming")
    /\ Keep
    /\ UNCHANGED <<now, registryVars, chainVars, histVars>>

\* Any other success.  "value" holds the body; "status", or a declared length
\* over the cap, settles right away.
UpstreamAnswers(r) ==
    /\ pc[r] = "upstream"
    /\ mode[r] # "forwardauth"
    /\ \/ mode[r] = "value" /\ Goto(r, "buffered") /\ UNCHANGED earned
       \/ /\ Goto(r, "settleThenSend")
          /\ earned' = earned \cup {key[r]}
    /\ Keep
    /\ UNCHANGED <<now, registryVars, chainVars, receipted, bodies>>

\* finalizeBuffered on a body with a value (or whose shape it cannot judge),
\* or Write on a body that outgrows the buffer.
BufferedHasValue(r) ==
    /\ pc[r] = "buffered"
    /\ Goto(r, "settleThenSend")
    /\ earned' = earned \cup {key[r]}
    /\ Keep
    /\ UNCHANGED <<now, registryVars, chainVars, receipted, bodies>>

\* Mutant of BufferedNoValue: the judgement of the body is ignored.
SettleNoValue(r) ==
    /\ pc[r] = "buffered"
    /\ Goto(r, "settleThenSend")
    /\ Keep
    /\ UNCHANGED <<now, registryVars, chainVars, histVars>>

\* finalizeBuffered on an empty body or completion: sent, marked unsettled.
BufferedNoValue(r) ==
    /\ pc[r] = "buffered"
    /\ Goto(r, "done")
    /\ Keep
    /\ UNCHANGED <<now, registryVars, chainVars, histVars>>

\* finalize of a stream skips the settlement when the context is canceled, a
\* write to the client failed, no byte was written, or ("value") no delta
\* carried anything.
StreamSkipped(r) ==
    /\ pc[r] = "streaming"
    /\ Goto(r, "done")
    /\ Keep
    /\ UNCHANGED <<now, registryVars, chainVars, histVars>>

StreamDelivered(r) ==
    /\ pc[r] = "streaming"
    /\ ~gone[r]
    /\ Goto(r, "settleStream")
    /\ earned' = earned \cup {key[r]}
    /\ Keep
    /\ UNCHANGED <<now, registryVars, chainVars, receipted, bodies>>

-----------------------------------------------------------------------------
(* settleFunc *)

Settling == {"settleThenSend", "settleStream"}

\* The buyer is already gone: no call to the facilitator, the body is dropped.
SettleSkipped(r) ==
    /\ pc[r] \in Settling
    /\ gone[r]
    /\ Goto(r, "done")
    /\ Keep
    /\ UNCHANGED <<now, registryVars, chainVars, histVars>>

\* The facilitator submits the settlement transaction (at most one per nonce).
FacilitatorSubmits(k) ==
    /\ chain' = [chain EXCEPT ![k] = "submitted"]
    /\ submittedAt' = [submittedAt EXCEPT ![k] = now]

CanSubmit(k) == chain[k] = "unused" /\ (Deadline[k] = 0 \/ now < Deadline[k])

\* Success: the receipt goes into the headers, or the trailers of a stream.
SettleSucceeds(r) ==
    /\ pc[r] \in Settling
    /\ CanSubmit(key[r])
    /\ FacilitatorSubmits(key[r])
    /\ receipted' = receipted \cup {key[r]}
    /\ settled' = [settled EXCEPT ![r] = TRUE]
    /\ Goto(r, IF pc[r] = "settleThenSend" THEN "sending" ELSE "done")
    /\ UNCHANGED <<now, registryVars, key, mode, verifiedAt, gone, earned, bodies>>

\* An error status with a transaction in the body: settleOnChain, 503.
SettleErrorWithTx(r) ==
    /\ pc[r] \in Settling
    /\ CanSubmit(key[r])
    /\ FacilitatorSubmits(key[r])
    /\ receipted' = receipted \cup {key[r]}
    /\ settled' = [settled EXCEPT ![r] = TRUE]
    /\ Goto(r, "done")
    /\ UNCHANGED <<now, registryVars, key, mode, verifiedAt, gone, earned, bodies>>

\* Mutant of SettleFails: the body goes out though the settlement failed.
SettleFailsOpen(r) ==
    /\ pc[r] = "settleThenSend"
    /\ Goto(r, "sending")
    /\ Keep
    /\ UNCHANGED <<now, registryVars, chainVars, histVars>>

\* A refusal, or an error that says nothing of a transaction: timeout, no
\* connection, a canceled context, an unreadable answer.  The transaction may
\* have been submitted all the same.
SettleFails(r) ==
    /\ pc[r] \in Settling
    /\ \/ UNCHANGED chainVars
       \/ CanSubmit(key[r]) /\ FacilitatorSubmits(key[r])
    /\ Goto(r, "done")
    /\ Keep
    /\ UNCHANGED <<now, registryVars, histVars>>

\* Status and body of a settled response go to the client.
SendBody(r) ==
    /\ pc[r] = "sending"
    /\ bodies' = [bodies EXCEPT ![key[r]] = IF @ < 2 THEN @ + 1 ELSE 2]
    /\ Goto(r, "done")
    /\ Keep
    /\ UNCHANGED <<now, registryVars, chainVars, receipted, earned>>

\* ReverseProxy panics with ErrAbortHandler (client or upstream dropped while
\* the body was copied): finalize is not reached, the deferred release is.
Abort(r) ==
    /\ pc[r] \in {"buffered", "streaming", "sending"}
    /\ Goto(r, "done")
    /\ Keep
    /\ UNCHANGED <<now, registryVars, chainVars, histVars>>

\* The deferred release.
Release(r) ==
    /\ pc[r] = "done"
    /\ entry' = [entry EXCEPT ![key[r]] = ReleasedEntry(key[r], settled[r])]
    /\ Leave(r)
    /\ UNCHANGED <<now, nextSweep, chainVars, histVars>>

-----------------------------------------------------------------------------
(* Environment *)

\* The client goes away and the server cancels the request's context.
Disconnect(r) ==
    /\ pc[r] \in Claimed \ {"done"}
    /\ ~gone[r]
    /\ gone' = [gone EXCEPT ![r] = TRUE]
    /\ UNCHANGED <<now, registryVars, pc, key, mode, verifiedAt, settled,
                   chainVars, histVars>>

\* The settlement becomes visible to the facilitator's verify.
Mine(k) ==
    /\ chain[k] = "submitted"
    /\ chain' = [chain EXCEPT ![k] = "used"]
    /\ UNCHANGED <<now, registryVars, pc, key, mode, verifiedAt, settled, gone,
                   submittedAt, histVars>>

Tick ==
    /\ now < MaxTime
    /\ \A r \in Requests : pc[r] = "verified" => now < verifiedAt[r] + VerifyTimeout
    /\ \A k \in Keys : chain[k] = "submitted" => now < submittedAt[k] + MineDelay
    /\ now' = now + 1
    /\ UNCHANGED <<registryVars, pc, key, mode, verifiedAt, settled, gone,
                   chainVars, histVars>>

\* The gateway restarts: the registry and the requests are gone.
Restart ==
    /\ entry' = [k \in Keys |-> NoEntry]
    /\ nextSweep' = 0
    /\ pc' = [r \in Requests |-> "idle"]
    /\ key' = [r \in Requests |-> NoKey]
    /\ mode' = [r \in Requests |-> "status"]
    /\ verifiedAt' = [r \in Requests |-> 0]
    /\ settled' = [r \in Requests |-> FALSE]
    /\ gone' = [r \in Requests |-> FALSE]
    /\ receipted' = {}
    /\ UNCHANGED <<now, chainVars, earned, bodies>>

RequestStep(r) ==
    \/ \E k \in Keys, m \in Modes : Receive(r, k, m)
    \/ VerifyValid(r) \/ VerifyRefused(r)
    \/ ClaimInUse(r) \/ ClaimFull(r) \/ ClaimOK(r)
    \/ UpstreamError(r) \/ ForwardAuthAllows(r)
    \/ UpstreamStreams(r) \/ UpstreamAnswers(r)
    \/ BufferedHasValue(r) \/ BufferedNoValue(r)
    \/ StreamSkipped(r) \/ StreamDelivered(r)
    \/ SettleSkipped(r) \/ SettleSucceeds(r)
    \/ SettleErrorWithTx(r) \/ SettleFails(r)
    \/ SendBody(r) \/ Abort(r) \/ Release(r)

Next ==
    \/ \E r \in Requests : RequestStep(r) \/ Disconnect(r)
    \/ \E k \in Keys : Mine(k)
    \/ Tick
    \/ Restart

Spec == Init /\ [][Next]_vars

-----------------------------------------------------------------------------
(* Properties *)

(***************************************************************************)
(* The registry's purpose: at most one request at a time is being served   *)
(* for an authorization, whatever the order of verify, claim, sweep,       *)
(* release and restart; and a key is in flight exactly while the request   *)
(* that claimed it is, so no key stays blocked by a request that is gone.  *)
(***************************************************************************)
OneRequestPerAuthorization ==
    /\ \A r1, r2 \in Requests :
          pc[r1] \in Claimed /\ pc[r2] \in Claimed /\ key[r1] = key[r2] => r1 = r2
    /\ \A k \in Keys : entry[k] = InFlight
                         <=> \E r \in Requests : pc[r] \in Claimed /\ key[r] = k

(***************************************************************************)
(* The registry never tracks more than MaxEntries keys, though release     *)
(* adds settled entries without looking at the bound.                      *)
(***************************************************************************)
RegistryBounded == Cardinality(Tracked(entry)) <= MaxEntries

(***************************************************************************)
(* "Verify is not charge": a settlement reaches the chain only for an      *)
(* authorization whose upstream answered below 400, and on a value-checked *)
(* or streamed response delivered something.                               *)
(***************************************************************************)
NeverChargedForNothing == {k \in Keys : chain[k] # "unused"} \subseteq earned

(***************************************************************************)
(* A response that is held until settlement is delivered at most once per  *)
(* authorization.  This does not rest on the registry: it holds across     *)
(* restarts, lapsed entries and settlements that landed unseen, because    *)
(* the body is only sent after a settlement the chain allows once.         *)
(***************************************************************************)
AtMostOneHeldBody == \A k \in Keys : bodies[k] <= 1

(***************************************************************************)
(* An authorization this process has a receipt (or a transaction) for is   *)
(* forwarded again only at or past its own deadline: neither the cap on    *)
(* settled entries nor a sweep lets it through before the chain does.      *)
(***************************************************************************)
ReceiptedForwardedOnlyPastDeadline ==
    [][\A r \in Requests :
          pc[r] = "verified" /\ pc'[r] = "upstream" /\ key[r] \in receipted
          => Deadline[key[r]] # 0 /\ now >= Deadline[key[r]]]_vars

(***************************************************************************)
(* The gateway implements PaidCalls: through verification, the registry,   *)
(* its sweeps and limits, the three ways to settle, disconnects and        *)
(* restarts, every step it takes is one of a pay-per-call service that     *)
(* serves an authorization for one request, charges it once and only for   *)
(* an answer worth it, and sends a held answer once and after the charge.  *)
(***************************************************************************)
Servers(k) == {r \in Requests : pc[r] \in Claimed /\ key[r] = k}
OneOf(rs) == IF rs = {} THEN NoKey ELSE CHOOSE r \in rs : TRUE
servingNow == [k \in Keys |-> OneOf(Servers(k))]
Calls == INSTANCE PaidCalls WITH
    Callers <- Requests, Auths <- Keys, NoOne <- NoKey,
    serving <- servingNow, worth <- earned,
    charged <- {k \in Keys : chain[k] # "unused"}, sent <- bodies
ImplementsPaidCalls == Calls!Spec
=============================================================================
