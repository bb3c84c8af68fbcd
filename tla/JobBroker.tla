----------------------------- MODULE JobBroker -----------------------------
(***************************************************************************)
(* The async job broker behind the gateway (internal/jobbroker): a submit  *)
(* stores a job and starts a goroutine that replays it, stores the outcome *)
(* and fires the webhook; a sweeper deletes what has expired; results are  *)
(* read by the payer, by the bearer of the job's token, or by anyone.  The *)
(* rows survive a restart, the goroutines do not.  The gateway settles the *)
(* payment when it has seen the 202, so settlement is an action of its own.*)
(***************************************************************************)
EXTENDS Integers, FiniteSets

CONSTANTS Jobs,         \* submits the gateway lets through
          JobWallets,   \* wallets; "" is a payment without a payer
          Visibility,   \* of a job's offer: "payer" or "public"
          HasCallback,  \* the submit named a webhook
          JobTTL, Attempts,
          MaxJobTime,   \* bound: the broker's clock
          MaxJobFaults  \* bound: restarts and database errors

ASSUME JobAssumption ==
    /\ Visibility \in [Jobs -> {"payer", "public"}] /\ HasCallback \in [Jobs -> BOOLEAN]
    /\ {JobTTL, MaxJobTime, MaxJobFaults} \subseteq Nat /\ Attempts \in Nat \ {0}

VARIABLES job,      \* the database: id -> row, while it exists
          runner,   \* goroutine of a job: "none", or its next step
          clock,
          payment,  \* of a job, at the facilitator
          hooks,    \* webhook deliveries: the states the callee was told
          tried,    \* webhook attempts made
          readers,  \* who has been given the result
          orphan,   \* jobs whose goroutine died or whose database write failed
          faults

jobVars == <<job, runner, clock, payment, hooks, tried, readers, orphan, faults>>

Callers == JobWallets \cup {""}
Exists(j) == j \in DOMAIN job
Final == {"complete", "failed"}
Put(j, row) == [i \in DOMAIN job \cup {j} |-> IF i = j THEN row ELSE job[i]]
DbFails(j) == faults > 0 /\ faults' = faults - 1 /\ orphan' = orphan \cup {j}

JobInit ==
    /\ job = [j \in {} |-> 0] /\ runner = [j \in Jobs |-> "none"] /\ clock = 0
    /\ payment = [j \in Jobs |-> "none"] /\ hooks = {} /\ tried = [j \in Jobs |-> 0]
    /\ readers = {} /\ orphan = {} /\ faults = MaxJobFaults

\* handleSubmit, Create and "go s.run"; a Create that fails is a 500, which the
\* gateway does not settle.
HandleSubmit(j) ==
    /\ payment[j] = "none"
    /\ \E payer \in Callers :
         job' = Put(j, [state |-> "pending", payer |-> payer, expires |-> clock + JobTTL])
    /\ runner' = [runner EXCEPT ![j] = "run"]
    /\ payment' = [payment EXCEPT ![j] = "verified"]
    /\ UNCHANGED <<clock, hooks, tried, readers, orphan, faults>>

\* The gateway's interceptor settles once the broker has answered 202.
SettleJob(j) ==
    /\ payment[j] = "verified"
    /\ \E r \in {"settled", "refused"} : payment' = [payment EXCEPT ![j] = r]
    /\ UNCHANGED <<job, runner, clock, hooks, tried, readers, orphan, faults>>

\* run: the row is loaded and marked running; a failing load ends the goroutine,
\* a failing mark is ignored.
RunStarts(j) ==
    /\ runner[j] = "run"
    /\ \/ /\ Exists(j) /\ job' = Put(j, [job[j] EXCEPT !.state = "running"])
          /\ runner' = [runner EXCEPT ![j] = "upstream"] /\ UNCHANGED <<orphan, faults>>
       \/ /\ Exists(j) /\ DbFails(j) /\ UNCHANGED job
          /\ runner' = [runner EXCEPT ![j] = "upstream"]
       \/ /\ ~Exists(j) \/ faults > 0
          /\ runner' = [runner EXCEPT ![j] = "none"] /\ UNCHANGED job
          /\ IF Exists(j) THEN DbFails(j) ELSE UNCHANGED <<orphan, faults>>
    /\ UNCHANGED <<clock, payment, hooks, tried, readers>>

\* run's tail: Finish with the upstream's answer or its error (a write into a row
\* that was swept changes nothing, a failing one is ignored), then the webhook.
Finish(j, state) ==
    \/ /\ job' = IF Exists(j) THEN Put(j, [job[j] EXCEPT !.state = state]) ELSE job
       /\ UNCHANGED <<orphan, faults>>
    \/ DbFails(j) /\ UNCHANGED job
AfterFinish(j) == runner' = [runner EXCEPT ![j] = IF HasCallback[j] THEN "hook" ELSE "none"]

\* Mutant: an upstream that does not answer ends the goroutine.
UpstreamAnswersOrNothing(j) ==
    /\ runner[j] = "upstream"
    /\ \/ Finish(j, "complete") /\ AfterFinish(j)
       \/ runner' = [runner EXCEPT ![j] = "none"] /\ UNCHANGED <<job, orphan, faults>>
    /\ UNCHANGED <<clock, payment, hooks, tried, readers>>

UpstreamAnswers(j) ==
    /\ runner[j] = "upstream"
    /\ \E state \in Final : Finish(j, state)
    /\ AfterFinish(j)
    /\ UNCHANGED <<clock, payment, hooks, tried, readers>>

\* fireWebhook: the row is read again; three attempts.
FireWebhook(j) ==
    /\ runner[j] = "hook"
    /\ IF ~Exists(j) THEN runner' = [runner EXCEPT ![j] = "none"] /\ UNCHANGED <<hooks, tried>>
       ELSE /\ tried' = [tried EXCEPT ![j] = @ + 1]
            /\ \/ /\ hooks' = hooks \cup {<<j, job[j].state>>}
                  /\ runner' = [runner EXCEPT ![j] = "none"]
               \/ /\ hooks' = hooks
                  /\ runner' = [runner EXCEPT ![j] = IF tried'[j] < Attempts THEN "hook" ELSE "none"]
    /\ UNCHANGED <<job, clock, payment, readers, orphan, faults>>

\* RunSweeper and SweepExpired: rows are deleted, whatever their state.
SweepExpired ==
    /\ \E j \in DOMAIN job : job[j].expires < clock
    /\ job' = [j \in {i \in DOMAIN job : job[i].expires >= clock} |-> job[j]]
    /\ UNCHANGED <<runner, clock, payment, hooks, tried, readers, orphan, faults>>

JobTick ==
    /\ clock < MaxJobTime /\ clock' = clock + 1
    /\ UNCHANGED <<job, runner, payment, hooks, tried, readers, orphan, faults>>

\* The broker restarts: main opens the database and starts the sweeper, and takes
\* up no job.
BrokerRestart ==
    /\ faults > 0 /\ faults' = faults - 1
    /\ orphan' = orphan \cup {j \in Jobs : runner[j] # "none"}
    /\ runner' = [j \in Jobs |-> "none"]
    /\ UNCHANGED <<job, clock, payment, hooks, tried, readers>>

\* callerMayRead: the payer's verified wallet, or the token of the 202, which the
\* gateway replaces by a 402 when the payment was refused.
CallerMayRead(j, wallet, token) == (wallet # "" /\ wallet = job[j].payer) \/ token

\* handleResult.  One read of a job is followed: reads do not disturb each other.
HandleResult(j, wallet, token) ==
    /\ ~\E r \in readers : r.job = j
    /\ Exists(j) /\ clock <= job[j].expires
    /\ token => payment[j] = "settled"
    /\ Visibility[j] = "public" \/ CallerMayRead(j, wallet, token)
    /\ job[j].state = "complete"
    /\ readers' = readers \cup {[job |-> j, wallet |-> wallet, token |-> token, payer |-> job[j].payer]}
    /\ UNCHANGED <<job, runner, clock, payment, hooks, tried, orphan, faults>>

JobNext ==
    \/ \E j \in Jobs : \/ HandleSubmit(j) \/ SettleJob(j) \/ RunStarts(j) \/ UpstreamAnswers(j)
                       \/ FireWebhook(j)
                       \/ \E w \in Callers, t \in BOOLEAN : HandleResult(j, w, t)
    \/ SweepExpired \/ JobTick \/ BrokerRestart

JobSpec == JobInit /\ [][JobNext]_jobVars

----------------------------------------------------------------------------
JobTypeOK ==
    /\ DOMAIN job \subseteq Jobs
    /\ \A j \in DOMAIN job : job[j].state \in Final \cup {"pending", "running"} /\ job[j].payer \in Callers
    /\ runner \in [Jobs -> {"none", "run", "upstream", "hook"}]
    /\ payment \in [Jobs -> {"none", "verified", "settled", "refused"}]
    /\ clock \in 0..MaxJobTime /\ faults \in 0..MaxJobFaults

\* run: a stored job that is not finished has a goroutine working on it, unless
\* the broker restarted or the database failed since; nothing takes such a job up
\* again, and the webhook of a job that was never an orphan tells its outcome.
UnfinishedJobIsWorkedOn ==
    /\ \A j \in DOMAIN job : job[j].state \in Final \/ runner[j] \in {"run", "upstream"} \/ j \in orphan
    /\ \A h \in hooks : h[2] \in Final \/ h[1] \in orphan

\* A result that is not public went to the payer or to the bearer of the token of
\* a settled submit, whoever paid and whatever expired or restarted meanwhile.
ResultToPayerOrBearer ==
    \A r \in readers : \/ Visibility[r.job] = "public"
                       \/ r.wallet # "" /\ r.wallet = r.payer
                       \/ r.token /\ payment[r.job] = "settled"

\* The jobs, whatever order run, webhook, sweep and restart come in.
JobInv == JobTypeOK /\ UnfinishedJobIsWorkedOn /\ ResultToPayerOrBearer
=============================================================================
