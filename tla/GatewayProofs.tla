---------------------------- MODULE GatewayProofs ----------------------------
(***************************************************************************)
(* Proofs about SellerGateway and JobBroker, for every set of offers,      *)
(* route tables, messages, wallets, requests and jobs, and every window,   *)
(* cache size, quota and lifetime; and about ModelRoutes, for every number *)
(* of commands and of failed calls.                                        *)
(***************************************************************************)
EXTENDS SellerGateway, JobBroker, ModelRoutes, FiniteSetTheorems, SequenceTheorems,
        WellFoundedInduction, TLAPS

-----------------------------------------------------------------------------
(* The job broker *)

Row == [state: Final \cup {"pending", "running"}, payer: Callers, expires: Nat]

\* What makes JobInv inductive: whole rows, and results whose payer is on record.
JobRows ==
    /\ \A j \in DOMAIN job : job[j] \in Row
    /\ \A r \in readers : r.job \in Jobs

LEMMA JobBounds == JobTTL \in Nat /\ MaxJobTime \in Nat /\ MaxJobFaults \in Nat
BY JobAssumption

LEMMA JobInitial == JobInit => JobInv /\ JobRows
BY JobAssumption, JobBounds
   DEF JobInit, JobInv, JobRows, JobTypeOK, UnfinishedJobIsWorkedOn, ResultToPayerOrBearer

\* Writing one row keeps what is said of rows.
LEMMA PutRow ==
    ASSUME DOMAIN job \subseteq Jobs, \A i \in DOMAIN job : job[i] \in Row,
           NEW j \in Jobs, NEW row \in Row
    PROVE  /\ DOMAIN Put(j, row) = DOMAIN job \cup {j} /\ DOMAIN Put(j, row) \subseteq Jobs
           /\ Put(j, row)[j] = row
           /\ \A i \in DOMAIN job \ {j} : Put(j, row)[i] = job[i]
           /\ \A i \in DOMAIN Put(j, row) : Put(j, row)[i] \in Row
BY DEF Put

\* What a step does to the table: it deletes rows, or writes one.
RowWritten(j, state) ==
    /\ DOMAIN job' = DOMAIN job \cup {j} /\ job'[j].state = state
    /\ \A i \in DOMAIN job \ {j} : job'[i] = job[i]
RowsKept == DOMAIN job' \subseteq DOMAIN job /\ \A i \in DOMAIN job' : job'[i] = job[i]

LEMMA JobRowsStep ==
    ASSUME JobTypeOK, JobRows, [JobNext]_jobVars
    PROVE  /\ DOMAIN job' \subseteq Jobs /\ (\A i \in DOMAIN job : job[i] \in Row)'
           /\ \/ RowsKept
              \/ \E j \in Jobs : HandleSubmit(j) /\ RowWritten(j, "pending")
              \/ \E j \in Jobs : RunStarts(j) /\ RowWritten(j, "running") /\ runner'[j] = "upstream"
              \/ \E j \in Jobs, state \in Final : UpstreamAnswers(j) /\ RowWritten(j, state)
<1>0. DOMAIN job \subseteq Jobs /\ \A i \in DOMAIN job : job[i] \in Row
  BY DEF JobTypeOK, JobRows
<1>1. ASSUME NEW j \in Jobs, HandleSubmit(j)
      PROVE  /\ DOMAIN job' \subseteq Jobs /\ (\A i \in DOMAIN job : job[i] \in Row)'
             /\ RowWritten(j, "pending")
  <2>1. PICK payer \in Callers :
          job' = Put(j, [state |-> "pending", payer |-> payer, expires |-> clock + JobTTL])
    BY <1>1 DEF HandleSubmit
  <2> DEFINE row == [state |-> "pending", payer |-> payer, expires |-> clock + JobTTL]
  <2>2. clock + JobTTL \in Nat
    BY JobBounds DEF JobTypeOK
  <2>3. row \in Row /\ row.state = "pending"
    BY <2>2 DEF Row
  <2>4. job' = Put(j, row)
    BY <2>1
  <2> HIDE DEF row
  <2> QED
    BY <1>0, <2>3, <2>4, PutRow, ZenonT(60) DEF RowWritten
<1>2. ASSUME NEW j \in Jobs, NEW state \in {"running"} \cup Final, Exists(j),
             job' = Put(j, [job[j] EXCEPT !.state = state])
      PROVE  /\ DOMAIN job' \subseteq Jobs /\ (\A i \in DOMAIN job : job[i] \in Row)'
             /\ RowWritten(j, state)
  <2> DEFINE row == [job[j] EXCEPT !.state = state]
  <2>1. row \in Row /\ row.state = state
    BY <1>0, <1>2 DEF Exists, Row
  <2>2. job' = Put(j, row)
    BY <1>2
  <2> HIDE DEF row
  <2> QED
    BY <1>0, <2>1, <2>2, PutRow DEF RowWritten
<1>3. RowsKept => DOMAIN job' \subseteq Jobs /\ (\A i \in DOMAIN job : job[i] \in Row)'
  BY <1>0 DEF RowsKept
<1>4. job' = job => RowsKept
  BY DEF RowsKept
<1>5. ASSUME NEW j \in Jobs, RunStarts(j)
      PROVE  \/ job' = job
             \/ /\ Exists(j) /\ job' = Put(j, [job[j] EXCEPT !.state = "running"])
                /\ runner' = [runner EXCEPT ![j] = "upstream"]
  BY <1>5 DEF RunStarts
<1>6. ASSUME NEW j \in Jobs, UpstreamAnswers(j)
      PROVE  \/ job' = job
             \/ Exists(j) /\ \E state \in Final : job' = Put(j, [job[j] EXCEPT !.state = state])
  BY <1>6 DEF UpstreamAnswers, Finish
<1>7. ASSUME SweepExpired PROVE RowsKept
  BY <1>7 DEF SweepExpired, RowsKept
<1>8. ASSUME NEW j \in Jobs,
             \/ SettleJob(j) \/ FireWebhook(j)
             \/ \E w \in Callers, t \in BOOLEAN : HandleResult(j, w, t)
      PROVE  job' = job
  BY <1>8 DEF SettleJob, FireWebhook, HandleResult
<1>9. JobTick \/ BrokerRestart \/ UNCHANGED jobVars => job' = job
  BY DEF JobTick, BrokerRestart, jobVars
<1>10. CASE \E j \in Jobs : HandleSubmit(j)
  BY <1>1, <1>10
<1>11. CASE \E j \in Jobs : RunStarts(j)
  <2>1. PICK j \in Jobs : RunStarts(j)
    BY <1>11
  <2>2. CASE job' = job
    BY <2>2, <1>3, <1>4
  <2>3. CASE Exists(j) /\ job' = Put(j, [job[j] EXCEPT !.state = "running"])
             /\ runner' = [runner EXCEPT ![j] = "upstream"]
    <3>1. runner'[j] = "upstream"
      BY <2>3 DEF JobTypeOK
    <3> QED
      BY <2>1, <2>3, <3>1, <1>2
  <2> QED
    BY <2>1, <2>2, <2>3, <1>5
<1>12. CASE \E j \in Jobs : UpstreamAnswers(j)
  <2>1. PICK j \in Jobs : UpstreamAnswers(j)
    BY <1>12
  <2>2. CASE job' = job
    BY <2>2, <1>3, <1>4
  <2>3. ASSUME Exists(j), NEW state \in Final, job' = Put(j, [job[j] EXCEPT !.state = state])
        PROVE  /\ DOMAIN job' \subseteq Jobs /\ (\A i \in DOMAIN job : job[i] \in Row)'
               /\ RowWritten(j, state)
    BY <2>3, <1>2
  <2> QED
    BY <2>1, <2>2, <2>3, <1>6
<1> QED
  BY <1>3, <1>4, <1>7, <1>8, <1>9, <1>10, <1>11, <1>12 DEF JobNext

LEMMA JobTypeStep == JobTypeOK /\ JobRows /\ [JobNext]_jobVars => JobTypeOK' /\ JobRows'
<1> SUFFICES ASSUME JobTypeOK, JobRows, [JobNext]_jobVars PROVE JobTypeOK' /\ JobRows'
  OBVIOUS
<1>1. DOMAIN job' \subseteq Jobs /\ (\A i \in DOMAIN job : job[i] \in Row)'
  BY JobRowsStep
<1>2. (\A i \in DOMAIN job :
         job[i].state \in Final \cup {"pending", "running"} /\ job[i].payer \in Callers)'
  BY <1>1 DEF Row
<1>3. runner' \in [Jobs -> {"none", "run", "upstream", "hook"}]
  <2>1. \/ runner' = runner \/ runner' = [j \in Jobs |-> "none"]
        \/ \E j \in Jobs, pc \in {"none", "run", "upstream", "hook"} : runner' = [runner EXCEPT ![j] = pc]
    BY DEF JobNext, HandleSubmit, SettleJob, RunStarts, UpstreamAnswers, AfterFinish,
           FireWebhook, HandleResult, SweepExpired, JobTick, BrokerRestart, jobVars
  <2> QED
    BY <2>1 DEF JobTypeOK
<1>4. payment' \in [Jobs -> {"none", "verified", "settled", "refused"}]
  <2>1. \/ payment' = payment
        \/ \E j \in Jobs, p \in {"verified", "settled", "refused"} : payment' = [payment EXCEPT ![j] = p]
    BY DEF JobNext, HandleSubmit, SettleJob, RunStarts, UpstreamAnswers,
           FireWebhook, HandleResult, SweepExpired, JobTick, BrokerRestart, jobVars
  <2> QED
    BY <2>1 DEF JobTypeOK
<1>5. clock' \in 0..MaxJobTime
  <2>1. clock' = clock \/ (clock < MaxJobTime /\ clock' = clock + 1)
    BY DEF JobNext, HandleSubmit, SettleJob, RunStarts, UpstreamAnswers,
           FireWebhook, HandleResult, SweepExpired, JobTick, BrokerRestart, jobVars
  <2> QED
    BY <2>1, JobBounds DEF JobTypeOK
<1>6. faults' \in 0..MaxJobFaults
  <2>1. faults' = faults \/ (faults > 0 /\ faults' = faults - 1)
    BY DEF JobTypeOK, JobNext, HandleSubmit, SettleJob, RunStarts, UpstreamAnswers, Finish, DbFails,
           FireWebhook, HandleResult, SweepExpired, JobTick, BrokerRestart, jobVars
  <2> QED
    BY <2>1, JobBounds DEF JobTypeOK
<1>7. (\A r \in readers : r.job \in Jobs)'
  <2>1. ASSUME NEW j \in Jobs, NEW w \in Callers, NEW t \in BOOLEAN, HandleResult(j, w, t)
        PROVE  (\A r \in readers : r.job \in Jobs)'
    BY <2>1 DEF HandleResult, JobRows
  <2>2. \/ \E j \in Jobs, w \in Callers, t \in BOOLEAN : HandleResult(j, w, t)
        \/ UNCHANGED readers
    BY DEF JobNext, HandleSubmit, SettleJob, RunStarts, UpstreamAnswers,
           FireWebhook, SweepExpired, JobTick, BrokerRestart, jobVars
  <2> QED
    BY <2>1, <2>2 DEF JobRows
<1> QED
  BY <1>1, <1>2, <1>3, <1>4, <1>5, <1>6, <1>7 DEF JobTypeOK, JobRows

\* A goroutine leaves a job it has not finished only by a fault, and orphans stay.
LEMMA GoroutinesStep ==
    ASSUME JobTypeOK, [JobNext]_jobVars
    PROVE  /\ orphan \subseteq orphan'
           /\ \A j \in Jobs :
                runner[j] \in {"run", "upstream"} =>
                  \/ runner'[j] \in {"run", "upstream"}
                  \/ j \in orphan'
                  \/ ~Exists(j)
                  \/ UpstreamAnswers(j)
<1>1. orphan \subseteq orphan'
  BY DEF JobNext, HandleSubmit, SettleJob, RunStarts, UpstreamAnswers, Finish, DbFails,
         FireWebhook, HandleResult, SweepExpired, JobTick, BrokerRestart, jobVars
<1>2. ASSUME NEW j \in Jobs, runner[j] \in {"run", "upstream"}
      PROVE  \/ runner'[j] \in {"run", "upstream"} \/ j \in orphan' \/ ~Exists(j) \/ UpstreamAnswers(j)
  <2> USE DEF JobTypeOK
  <2>1. ASSUME NEW i \in Jobs,
               HandleSubmit(i) \/ RunStarts(i) \/ UpstreamAnswers(i) \/ FireWebhook(i), i # j
        PROVE  runner'[j] = runner[j]
    BY <2>1 DEF HandleSubmit, RunStarts, UpstreamAnswers, AfterFinish, FireWebhook
  <2>2. HandleSubmit(j) => runner'[j] = "run"
    BY DEF HandleSubmit
  <2>3. RunStarts(j) => runner'[j] = "upstream" \/ j \in orphan' \/ ~Exists(j)
    BY DEF RunStarts, DbFails
  <2>4. ~FireWebhook(j)
    BY <1>2 DEF FireWebhook
  <2>5. BrokerRestart => j \in orphan'
    BY <1>2 DEF BrokerRestart
  <2>6. \/ UNCHANGED runner \/ BrokerRestart
        \/ \E i \in Jobs : HandleSubmit(i) \/ RunStarts(i) \/ UpstreamAnswers(i) \/ FireWebhook(i)
    BY DEF JobNext, SettleJob, HandleResult, SweepExpired, JobTick, jobVars
  <2> QED
    BY <1>2, <2>1, <2>2, <2>3, <2>4, <2>5, <2>6
<1> QED
  BY <1>1, <1>2

LEMMA WorkedOnStep ==
    JobTypeOK /\ JobRows /\ UnfinishedJobIsWorkedOn /\ [JobNext]_jobVars => UnfinishedJobIsWorkedOn'
<1> SUFFICES ASSUME JobTypeOK, JobRows, UnfinishedJobIsWorkedOn, [JobNext]_jobVars
             PROVE  UnfinishedJobIsWorkedOn'
  OBVIOUS
\* A row that was there, unwritten.
<1>1. ASSUME NEW i \in DOMAIN job, i \in DOMAIN job', job'[i] = job[i], ~UpstreamAnswers(i)
      PROVE  job'[i].state \in Final \/ runner'[i] \in {"run", "upstream"} \/ i \in orphan'
  BY <1>1, GoroutinesStep DEF UnfinishedJobIsWorkedOn, JobTypeOK, Exists
\* The upstream's answer is written, or the write fails.
<1>2. ASSUME NEW i \in DOMAIN job, UpstreamAnswers(i)
      PROVE  job'[i].state \in Final \/ i \in orphan'
  <2>1. CASE \E state \in Final : job' = Put(i, [job[i] EXCEPT !.state = state])
    <3>1. PICK state \in Final : job' = Put(i, [job[i] EXCEPT !.state = state])
      BY <2>1
    <3> DEFINE row == [job[i] EXCEPT !.state = state]
    <3>2. row \in Row /\ row.state = state
      BY DEF JobRows, Row
    <3>3. job' = Put(i, row) /\ DOMAIN job \subseteq Jobs /\ \A k \in DOMAIN job : job[k] \in Row
      BY <3>1 DEF JobRows, JobTypeOK
    <3> HIDE DEF row
    <3> QED
      BY <3>2, <3>3, PutRow
  <2> QED
    BY <1>2, <2>1 DEF UpstreamAnswers, Finish, DbFails, Exists
<1>3. ASSUME NEW i \in DOMAIN job'
      PROVE  job'[i].state \in Final \/ runner'[i] \in {"run", "upstream"} \/ i \in orphan'
  <2>1. CASE RowsKept
    BY <1>1, <1>2, <2>1 DEF RowsKept
  <2>2. ASSUME NEW j \in Jobs, HandleSubmit(j), RowWritten(j, "pending")
        PROVE  job'[i].state \in Final \/ runner'[i] \in {"run", "upstream"} \/ i \in orphan'
    <3>1. runner'[j] = "run"
      BY <2>2 DEF HandleSubmit, JobTypeOK
    <3> QED
      BY <1>1, <1>2, <2>2, <3>1 DEF RowWritten
  <2>3. ASSUME NEW j \in Jobs, RunStarts(j), RowWritten(j, "running"), runner'[j] = "upstream"
        PROVE  job'[i].state \in Final \/ runner'[i] \in {"run", "upstream"} \/ i \in orphan'
    BY <1>1, <1>2, <2>3 DEF RowWritten
  <2>4. ASSUME NEW j \in Jobs, NEW state \in Final, RowWritten(j, state)
        PROVE  job'[i].state \in Final \/ runner'[i] \in {"run", "upstream"} \/ i \in orphan'
    BY <1>1, <1>2, <2>4 DEF RowWritten
  <2> QED
    BY <2>1, <2>2, <2>3, <2>4, JobRowsStep
<1>4. \A h \in hooks' : h[2] \in Final \/ h[1] \in orphan'
  <2>1. ASSUME NEW j \in Jobs, FireWebhook(j)
        PROVE  \A h \in hooks' : h[2] \in Final \/ h[1] \in orphan'
    <3>1. Exists(j) => job[j].state \in Final \/ j \in orphan
      BY <2>1 DEF FireWebhook, Exists, UnfinishedJobIsWorkedOn
    <3>2. hooks' = hooks \/ (Exists(j) /\ hooks' = hooks \cup {<<j, job[j].state>>})
      BY <2>1 DEF FireWebhook
    <3>3. orphan' = orphan
      BY <2>1 DEF FireWebhook
    <3> QED
      BY <3>1, <3>2, <3>3 DEF UnfinishedJobIsWorkedOn
  <2>2. (\E j \in Jobs : FireWebhook(j)) \/ UNCHANGED hooks
    BY DEF JobNext, HandleSubmit, SettleJob, RunStarts, UpstreamAnswers,
           HandleResult, SweepExpired, JobTick, BrokerRestart, jobVars
  <2> QED
    BY <2>1, <2>2, GoroutinesStep DEF UnfinishedJobIsWorkedOn
<1> QED
  BY <1>3, <1>4 DEF UnfinishedJobIsWorkedOn

LEMMA ReadersStep ==
    JobTypeOK /\ JobRows /\ ResultToPayerOrBearer /\ [JobNext]_jobVars => ResultToPayerOrBearer'
<1> SUFFICES ASSUME JobTypeOK, JobRows, ResultToPayerOrBearer, [JobNext]_jobVars
             PROVE  ResultToPayerOrBearer'
  OBVIOUS
<1>1. ASSUME NEW j \in Jobs, payment[j] = "settled"
      PROVE  payment'[j] = "settled"
  BY <1>1 DEF JobTypeOK, JobNext, HandleSubmit, SettleJob, RunStarts, UpstreamAnswers, FireWebhook,
              HandleResult, SweepExpired, JobTick, BrokerRestart, jobVars
<1>2. ASSUME NEW j \in Jobs, NEW w \in Callers, NEW t \in BOOLEAN, HandleResult(j, w, t)
      PROVE  ResultToPayerOrBearer'
  <2> DEFINE given == [job |-> j, wallet |-> w, token |-> t, payer |-> job[j].payer]
  <2>1. readers' = readers \cup {given} /\ UNCHANGED payment
    BY <1>2 DEF HandleResult
  <2>2. \/ Visibility[given.job] = "public"
        \/ given.wallet # "" /\ given.wallet = given.payer
        \/ given.token /\ payment[given.job] = "settled"
    BY <1>2 DEF HandleResult, CallerMayRead
  <2> QED
    BY <2>1, <2>2 DEF ResultToPayerOrBearer
<1>3. CASE UNCHANGED readers
  BY <1>1, <1>3 DEF ResultToPayerOrBearer, JobRows
<1> QED
  BY <1>2, <1>3
     DEF JobNext, HandleSubmit, SettleJob, RunStarts, UpstreamAnswers, FireWebhook,
         SweepExpired, JobTick, BrokerRestart, jobVars

LEMMA JobStep == JobInv /\ JobRows /\ [JobNext]_jobVars => JobInv' /\ JobRows'
BY JobTypeStep, WorkedOnStep, ReadersStep DEF JobInv

\* Whatever order submits, runs, webhooks, sweeps, database errors and restarts
\* come in: an unfinished job has a goroutine unless its broker failed it, a
\* webhook tells a final state unless that happened, and a result that is not
\* public goes to the payer or to the bearer of a settled submit's token.
THEOREM JobsHold == JobSpec => []JobInv
BY JobInitial, JobStep, PTL DEF JobSpec

-----------------------------------------------------------------------------
(* Routes: steps that are not about them, and the shape of the refreshes *)

TableSources == {"offers", "secrets", "main"}
Running(s, pcs) == refresh[s].pc \in pcs

\* The accumulator is a pair, an informer's refresh applies and the file's sets
\* the base, and one refresh at a time is between its two stores.
Shape ==
    /\ acc = [base |-> acc.base, routes |-> acc.routes]
    /\ DOMAIN refresh = Sources /\ refresh = [s \in Sources |-> refresh[s]]
    /\ \A s \in TableSources : refresh[s] = NotServing \/ Running(s, {"apply", "prefixes"})
    /\ refresh["file"] = NotServing \/ Running("file", {"base", "prefixes"})
    /\ \A s, q \in Sources : Running(s, {"prefixes"}) /\ Running(q, {"prefixes"}) => s = q

\* A refresh that stores prefixes stores those of the configuration, and without
\* one they are stored.
Derived ==
    /\ \A s \in Sources : Running(s, {"prefixes"}) => refresh[s].set = PaidPrefixes(config.routes)
    /\ (\A s \in Sources : ~Running(s, {"prefixes"})) => prefixes = PaidPrefixes(config.routes)

\* The fixed table of a behaviour about requests or jobs.
Frozen ==
    /\ news = {} /\ \A s \in Sources : refresh[s] = NotServing
    /\ config = [base |-> file, routes |-> RoutesFromStore(store, secret)]

\* Without overlap: one informer at a time; what it or the accumulator holds is
\* the store, unless news of it is still to come; and so for the file.
InformersInStep ==
    /\ \A s, q \in TableSources : refresh[s] # NotServing /\ refresh[q] # NotServing => s = q
    /\ news \cap TableSources = {} /\ Renderable(store) =>
         \/ \E s \in TableSources : Running(s, {"apply"})
                                    /\ refresh[s].routes = RoutesFromStore(store, secret)
         \/ /\ \A s \in TableSources : ~Running(s, {"apply"})
            /\ acc.routes = RoutesFromStore(store, secret)
FileInStep ==
    "file" \notin news =>
      \/ Running("file", {"base"}) /\ refresh["file"].base = file
      \/ ~Running("file", {"base"}) /\ acc.base = file
Applied == config = acc \/ ~ChainsResolve(acc.base, acc.routes)

RoutesInv ==
    /\ Shape /\ Derived
    /\ focus # "routes" => Frozen
    /\ focus = "routes" => Applied /\ (~overlap => InformersInStep /\ FileInStep)

LEMMA RoutesInitial == GatewayInit => RoutesInv
<1> SUFFICES ASSUME GatewayInit PROVE RoutesInv
  OBVIOUS
<1>1. Shape
  <2>1. /\ acc = [base |-> file, routes |-> {}] /\ refresh = [s \in Sources |-> NotServing]
    BY DEF GatewayInit, InitRoutes
  <2>2. \A s \in Sources : refresh[s] = NotServing /\ refresh[s].pc = "idle"
    BY <2>1 DEF NotServing
  <2>3. acc = [base |-> acc.base, routes |-> acc.routes]
    BY <2>1
  <2> QED
    BY <2>1, <2>2, <2>3 DEF Shape, Running, Sources, TableSources
<1>2. Derived
  <2>1. prefixes = PaidPrefixes(config.routes)
    <3>1. PaidPrefixes({}) = {}
      BY DEF PaidPrefixes
    <3>2. ASSUME focus = "routes" PROVE prefixes = {} /\ config = [base |-> file, routes |-> {}]
      BY <3>2 DEF GatewayInit
    <3>3. focus # "routes" => prefixes = PaidPrefixes(config.routes)
      BY DEF GatewayInit
    <3> QED
      BY <3>1, <3>2, <3>3
  <2>2. \A s \in Sources : refresh[s].pc = "idle"
    BY DEF GatewayInit, InitRoutes, NotServing
  <2> QED
    BY <2>1, <2>2 DEF Derived, Running
<1>3. focus # "routes" => Frozen
  BY DEF GatewayInit, InitRoutes, Frozen
<1>4. ASSUME focus = "routes" PROVE Applied /\ InformersInStep /\ FileInStep
  <2>1. /\ acc = config /\ acc.base = file /\ news = {"offers", "main"}
        /\ \A s \in Sources : refresh[s] = NotServing
    BY <1>4 DEF GatewayInit, InitRoutes
  <2>2. "offers" \in news \cap TableSources
    BY <2>1 DEF TableSources
  <2>3. \A s \in Sources : refresh[s].pc = "idle"
    BY <2>1 DEF NotServing
  <2> QED
    BY <2>1, <2>2, <2>3
       DEF Applied, InformersInStep, FileInStep, Running, Sources, TableSources
<1> QED
  BY <1>1, <1>2, <1>3, <1>4 DEF RoutesInv

LEMMA ServingKeepsRoutes == ServeStep \/ UNCHANGED gatewayVars => UNCHANGED <<focus, routeVars>>
BY DEF ServeStep, Tick, Restart, PaidUnlock, ConsumeNonce, ConsumeQuota, PresentMessage,
       PresentSession, gatewayVars

LEMMA RoutesFrame == RoutesInv /\ UNCHANGED <<focus, routeVars>> => RoutesInv'
BY DEF RoutesInv, Shape, Derived, Frozen, Applied, InformersInStep, FileInStep, Running, routeVars

\* Edits only add news.
LEMMA RoutesEdit ==
    ASSUME RoutesInv, (\E o \in Offers : ChangeOffer(o)) \/ RotateSecret \/ WritePricing
    PROVE  RoutesInv'
<1>1. focus = "routes" /\ UNCHANGED <<focus, refresh, acc, config, prefixes, overlap>>
  BY DEF ChangeOffer, RotateSecret, WritePricing
<1>2. Shape' /\ Derived'
  BY <1>1 DEF RoutesInv, Shape, Derived, Running
<1>3. Applied'
  BY <1>1 DEF RoutesInv, Applied
<1>4. ASSUME ~overlap PROVE InformersInStep' /\ FileInStep'
  <2>1. InformersInStep /\ FileInStep
    BY <1>1, <1>4 DEF RoutesInv
  <2>2. CASE \E o \in Offers : ChangeOffer(o)
    <3>1. "offers" \in news' /\ file' = file /\ ("file" \in news' <=> "file" \in news)
      BY <2>2 DEF ChangeOffer
    <3> QED
      BY <1>1, <2>1, <3>1 DEF InformersInStep, FileInStep, Running, TableSources
  <2>3. CASE RotateSecret
    <3>1. "secrets" \in news' /\ file' = file /\ ("file" \in news' <=> "file" \in news)
      BY <2>3 DEF RotateSecret
    <3> QED
      BY <1>1, <2>1, <3>1 DEF InformersInStep, FileInStep, Running, TableSources
  <2>4. CASE WritePricing
    <3>1. /\ "file" \in news' /\ UNCHANGED <<store, secret>>
          /\ news' \cap TableSources = news \cap TableSources
      BY <2>4 DEF WritePricing, TableSources
    <3> QED
      BY <1>1, <2>1, <3>1 DEF InformersInStep, FileInStep, Running
  <2> QED
    BY <2>2, <2>3, <2>4
<1> QED
  BY <1>1, <1>2, <1>3, <1>4 DEF RoutesInv

\* The ends of a refresh, and the steps between.
LEMMA RoutesList ==
    ASSUME RoutesInv, NEW s \in Sources, ListStores(s)
    PROVE  RoutesInv'
<1>1. /\ s \in TableSources /\ s \in news /\ refresh[s] = NotServing /\ news' = news \ {s}
      /\ UNCHANGED <<focus, store, secret, file, acc, config, prefixes>>
      /\ ~overlap' => ~overlap /\ \A q \in Sources : refresh[q] = NotServing
  BY DEF ListStores, TableSources
<1>2. \/ refresh' = refresh /\ ~Renderable(store)
      \/ refresh' = [refresh EXCEPT ![s] = [pc |-> "apply", routes |-> RoutesFromStore(store, secret)]]
  BY DEF ListStores
<1>3. focus = "routes"
  BY <1>1 DEF RoutesInv, Frozen
<1>4. /\ DOMAIN refresh' = Sources /\ refresh' = [q \in Sources |-> refresh'[q]]
      /\ \A q \in Sources \ {s} : refresh'[q] = refresh[q]
      /\ \/ refresh'[s] = NotServing /\ ~Renderable(store)
         \/ refresh'[s] = [pc |-> "apply", routes |-> RoutesFromStore(store, secret)]
  BY <1>1, <1>2 DEF RoutesInv, Shape
<1>5. ~Running(s, {"prefixes"}) /\ ~Running(s, {"prefixes"})'
  BY <1>1, <1>4 DEF Running, NotServing
<1>6. Shape'
  BY <1>1, <1>4, <1>5 DEF RoutesInv, Shape, Running, TableSources, Sources
<1>7. Derived'
  BY <1>1, <1>4, <1>5 DEF RoutesInv, Derived, Running
<1>8. Applied'
  BY <1>1, <1>3 DEF RoutesInv, Applied
<1>9. ASSUME ~overlap' PROVE InformersInStep' /\ FileInStep'
  <2>1. InformersInStep /\ FileInStep /\ \A q \in Sources : refresh[q] = NotServing
    BY <1>1, <1>3, <1>9 DEF RoutesInv
  <2>2. FileInStep'
    BY <1>1, <1>4, <2>1 DEF FileInStep, Running, Sources, TableSources
  <2>3. \A q \in Sources \ {s} : refresh'[q] = NotServing
    BY <1>4, <2>1
  <2>4. InformersInStep'
    BY <1>1, <1>4, <2>3 DEF InformersInStep, Running, Sources, TableSources
  <2> QED
    BY <2>2, <2>4
<1> QED
  BY <1>1, <1>3, <1>6, <1>7, <1>8, <1>9 DEF RoutesInv

LEMMA RoutesSet ==
    ASSUME RoutesInv, NEW s \in Sources, SetRoutes(s)
    PROVE  RoutesInv'
<1> DEFINE wired == refresh[s].routes
           same == acc.routes = wired
           ok == same \/ ChainsResolve(acc.base, wired)
<1>1. /\ Running(s, {"apply"}) /\ \A q \in Sources : ~Running(q, {"prefixes"})
      /\ UNCHANGED <<focus, store, secret, file, news, prefixes, overlap>>
  BY DEF SetRoutes, Unlocked, Running
<1>2. /\ acc' = [base |-> acc.base, routes |-> wired]
      /\ config' = IF ~same /\ ok THEN [base |-> acc.base, routes |-> wired] ELSE config
  <2>1. acc' = [acc EXCEPT !.routes = wired] /\ (same => config' = config)
        /\ (~same => Reload(acc.base, wired))
    BY DEF SetRoutes
  <2>2. acc = [base |-> acc.base, routes |-> acc.routes]
    BY DEF RoutesInv, Shape
  <2> QED
    BY <2>1, <2>2 DEF Reload
<1>3. /\ DOMAIN refresh' = Sources /\ refresh' = [q \in Sources |-> refresh'[q]]
      /\ \A q \in Sources \ {s} : refresh'[q] = refresh[q]
      /\ refresh'[s] = IF ok /\ ~same THEN [pc |-> "prefixes", set |-> PaidPrefixes(wired)]
                       ELSE NotServing
  BY DEF SetRoutes, RoutesInv, Shape
<1>4. s \in TableSources /\ focus = "routes"
  BY <1>1 DEF RoutesInv, Shape, Frozen, Running, NotServing, Sources, TableSources
<1>5. acc'.base = acc.base /\ acc'.routes = wired
  BY <1>2
<1> HIDE DEF wired, same, ok
<1>6. Running(s, {"prefixes"})' <=> (ok /\ ~same)
  BY <1>3 DEF Running, NotServing
<1>7. ~Running(s, {"apply"})' /\ (Running(s, {"prefixes"})' => refresh'[s].set = PaidPrefixes(wired))
  BY <1>3 DEF Running, NotServing
<1>8. \A q \in Sources \ {s} : \A pcs : Running(q, pcs)' <=> Running(q, pcs)
  BY <1>3 DEF Running
<1>9. Shape'
  <2>1. acc' = [base |-> acc'.base, routes |-> acc'.routes]
    BY <1>2
  <2>2. \A q \in Sources : Running(q, {"prefixes"})' => q = s
    BY <1>1, <1>8
  <2>3. \A q \in TableSources : refresh'[q] = NotServing \/ Running(q, {"apply", "prefixes"})'
    BY <1>3 DEF RoutesInv, Shape, Running, Sources, TableSources
  <2>4. refresh'["file"] = NotServing \/ Running("file", {"base", "prefixes"})'
    BY <1>3, <1>4 DEF RoutesInv, Shape, Running, Sources, TableSources
  <2> QED
    BY <1>3, <2>1, <2>2, <2>3, <2>4 DEF Shape
<1>10. Derived'
  <2>1. \A q \in Sources : Running(q, {"prefixes"})' => q = s
    BY <1>1, <1>8
  <2>2. CASE ok /\ ~same
    <3>1. config'.routes = wired
      BY <1>2, <2>2
    <3> QED
      BY <1>6, <1>7, <2>1, <2>2, <3>1 DEF Derived
  <2>3. CASE ~(ok /\ ~same)
    <3>1. config' = config /\ prefixes' = prefixes /\ prefixes = PaidPrefixes(config.routes)
      BY <1>1, <1>2, <2>3 DEF RoutesInv, Derived
    <3> QED
      BY <1>6, <2>1, <2>3, <3>1 DEF Derived
  <2> QED
    BY <2>2, <2>3
<1>11. Applied'
  <2>1. CASE ok /\ ~same
    BY <1>2, <2>1 DEF Applied
  <2>2. CASE same
    BY <1>2, <1>4, <2>2 DEF RoutesInv, Shape, Applied, same
  <2>3. CASE ~ok
    BY <1>5, <2>3 DEF Applied, ok
  <2> QED
    BY <2>1, <2>2, <2>3
<1>12. ASSUME ~overlap' PROVE InformersInStep' /\ FileInStep'
  <2>1. InformersInStep /\ FileInStep
    BY <1>1, <1>4, <1>12 DEF RoutesInv
  <2>2. \A q \in TableSources \ {s} : refresh[q] = NotServing
    BY <1>1, <1>4, <2>1 DEF InformersInStep, Running, NotServing
  <2>3. \A q \in TableSources \ {s} : refresh'[q] = NotServing
    BY <1>3, <2>2 DEF Sources, TableSources
  <2>4. \A q \in TableSources \ {s} : ~Running(q, {"apply"}) /\ ~Running(q, {"apply"})'
    BY <2>2, <2>3 DEF Running, NotServing
  <2>5. news \cap TableSources = {} /\ Renderable(store) => acc'.routes = RoutesFromStore(store, secret)
    BY <1>1, <1>4, <1>5, <2>1, <2>4 DEF InformersInStep, wired
  <2>6. InformersInStep'
    BY <1>1, <1>4, <1>7, <2>3, <2>4, <2>5 DEF InformersInStep
  <2>7. FileInStep'
    BY <1>1, <1>3, <1>4, <1>5, <2>1 DEF FileInStep, Running, Sources, TableSources
  <2> QED
    BY <2>6, <2>7
<1> QED
  BY <1>1, <1>4, <1>9, <1>10, <1>11, <1>12 DEF RoutesInv

LEMMA RoutesStore ==
    ASSUME RoutesInv, NEW s \in Sources, StorePrefixes(s)
    PROVE  RoutesInv'
<1>1. /\ Running(s, {"prefixes"}) /\ prefixes' = refresh[s].set
      /\ UNCHANGED <<focus, store, secret, file, news, acc, config, overlap>>
  BY DEF StorePrefixes, Running
<1>2. /\ DOMAIN refresh' = Sources /\ refresh' = [q \in Sources |-> refresh'[q]]
      /\ \A q \in Sources \ {s} : refresh'[q] = refresh[q]
      /\ refresh'[s] = NotServing
  BY DEF StorePrefixes, RoutesInv, Shape
<1>3. focus = "routes"
  BY <1>1 DEF RoutesInv, Frozen, Running, NotServing
<1>4. \A q \in Sources : q # s => ~Running(q, {"prefixes"})
  BY <1>1 DEF RoutesInv, Shape
<1>5. \A q \in Sources : ~Running(q, {"prefixes"})'
  BY <1>2, <1>4 DEF Running, NotServing
<1>6. Shape'
  BY <1>1, <1>2, <1>5 DEF RoutesInv, Shape, Running, Sources, TableSources
<1>7. Derived'
  BY <1>1, <1>5 DEF RoutesInv, Derived
<1>8. Applied'
  BY <1>1, <1>3 DEF RoutesInv, Applied
<1>9. ~Running(s, {"apply"}) /\ ~Running(s, {"apply"})' /\ ~Running(s, {"base"}) /\ ~Running(s, {"base"})'
  BY <1>1, <1>2 DEF Running, NotServing
<1>10. ASSUME ~overlap' PROVE InformersInStep' /\ FileInStep'
  <2>1. InformersInStep /\ FileInStep
    BY <1>1, <1>3, <1>10 DEF RoutesInv
  <2>2. InformersInStep'
    BY <1>1, <1>2, <1>9, <2>1 DEF InformersInStep, Running, Sources, TableSources
  <2>3. FileInStep'
    BY <1>1, <1>2, <1>9, <2>1 DEF FileInStep, Running, Sources, TableSources
  <2> QED
    BY <2>2, <2>3
<1> QED
  BY <1>1, <1>3, <1>6, <1>7, <1>8, <1>10 DEF RoutesInv

LEMMA RoutesPoll == ASSUME RoutesInv, PollFile PROVE RoutesInv'
<1>1. /\ "file" \in news /\ refresh["file"] = NotServing /\ news' = news \ {"file"}
      /\ UNCHANGED <<focus, store, secret, file, acc, config, prefixes>>
      /\ ~overlap' => ~overlap /\ refresh'["file"] = [pc |-> "base", base |-> file]
  BY DEF PollFile, RoutesInv, Shape, Sources
<1>2. /\ DOMAIN refresh' = Sources /\ refresh' = [q \in Sources |-> refresh'[q]]
      /\ \A q \in TableSources : refresh'[q] = refresh[q]
      /\ refresh'["file"] \in {NotServing, [pc |-> "base", base |-> file]}
  BY <1>1 DEF PollFile, RoutesInv, Shape, Sources, TableSources
<1>3. focus = "routes"
  BY <1>1 DEF RoutesInv, Frozen
<1>4. ~Running("file", {"prefixes"}) /\ ~Running("file", {"prefixes"})'
  BY <1>1, <1>2 DEF Running, NotServing
<1>5. Shape'
  BY <1>1, <1>2, <1>4 DEF RoutesInv, Shape, Running, Sources, TableSources
<1>6. Derived'
  BY <1>1, <1>2, <1>4 DEF RoutesInv, Derived, Running, Sources, TableSources
<1>7. Applied'
  BY <1>1, <1>3 DEF RoutesInv, Applied
<1>8. ASSUME ~overlap' PROVE InformersInStep' /\ FileInStep'
  <2>1. InformersInStep /\ FileInStep
    BY <1>1, <1>3, <1>8 DEF RoutesInv
  <2>2. InformersInStep'
    BY <1>1, <1>2, <2>1 DEF InformersInStep, Running, TableSources
  <2>3. FileInStep'
    BY <1>1, <1>8 DEF FileInStep, Running
  <2> QED
    BY <2>2, <2>3
<1> QED
  BY <1>1, <1>3, <1>5, <1>6, <1>7, <1>8 DEF RoutesInv

LEMMA RoutesBase == ASSUME RoutesInv, SetBase PROVE RoutesInv'
<1> DEFINE base == refresh["file"].base
           ok == base # acc.base /\ ChainsResolve(base, acc.routes)
<1>1. /\ Running("file", {"base"}) /\ \A q \in Sources : ~Running(q, {"prefixes"})
      /\ UNCHANGED <<focus, store, secret, file, news, prefixes, overlap>>
  BY DEF SetBase, Unlocked, Running
<1>2. /\ acc' = [base |-> base, routes |-> acc.routes]
      /\ config' = IF ok THEN [base |-> base, routes |-> acc.routes] ELSE config
  <2>1. acc' = [acc EXCEPT !.base = base] /\ (base = acc.base => config' = config)
        /\ (base # acc.base => Reload(base, acc.routes))
    BY DEF SetBase
  <2>2. acc = [base |-> acc.base, routes |-> acc.routes]
    BY DEF RoutesInv, Shape
  <2> QED
    BY <2>1, <2>2 DEF Reload
<1>3. /\ DOMAIN refresh' = Sources /\ refresh' = [q \in Sources |-> refresh'[q]]
      /\ \A q \in TableSources : refresh'[q] = refresh[q]
      /\ refresh'["file"] = IF ok THEN [pc |-> "prefixes", set |-> PaidPrefixes(acc.routes)]
                            ELSE NotServing
  BY DEF SetBase, RoutesInv, Shape, Sources, TableSources
<1>4. focus = "routes"
  BY <1>1 DEF RoutesInv, Frozen, Running, NotServing, Sources
<1>5. acc'.base = base /\ acc'.routes = acc.routes
  BY <1>2
<1> HIDE DEF base, ok
<1>6. Running("file", {"prefixes"})' <=> ok
  BY <1>3 DEF Running, NotServing
<1>7. ~Running("file", {"base"})' /\ (ok => refresh'["file"].set = PaidPrefixes(acc.routes))
  BY <1>3 DEF Running, NotServing
<1>8. \A q \in TableSources : ~Running(q, {"prefixes"})'
  BY <1>1, <1>3 DEF Running, Sources, TableSources
<1>9. Shape'
  <2>1. acc' = [base |-> acc'.base, routes |-> acc'.routes]
    BY <1>2
  <2>2. \A q \in Sources : Running(q, {"prefixes"})' => q = "file"
    BY <1>8 DEF Sources, TableSources
  <2>3. \A q \in TableSources : refresh'[q] = NotServing \/ Running(q, {"apply", "prefixes"})'
    BY <1>3 DEF RoutesInv, Shape, Running
  <2>4. refresh'["file"] = NotServing \/ Running("file", {"base", "prefixes"})'
    BY <1>3 DEF Running
  <2> QED
    BY <1>3, <2>1, <2>2, <2>3, <2>4 DEF Shape
<1>10. Derived'
  <2>1. CASE ok
    <3>1. config'.routes = acc.routes
      BY <1>2, <2>1
    <3> QED
      BY <1>6, <1>7, <1>8, <2>1, <3>1 DEF Derived, Sources, TableSources
  <2>2. CASE ~ok
    <3>1. config' = config /\ prefixes' = prefixes /\ prefixes = PaidPrefixes(config.routes)
      BY <1>1, <1>2, <2>2 DEF RoutesInv, Derived
    <3> QED
      BY <1>6, <1>8, <2>2, <3>1 DEF Derived, Sources, TableSources
  <2> QED
    BY <2>1, <2>2
<1>11. Applied'
  <2>1. CASE ok
    BY <1>2, <2>1 DEF Applied
  <2>2. CASE base = acc.base
    BY <1>2, <1>4, <2>2 DEF RoutesInv, Shape, Applied, ok
  <2>3. CASE ~ChainsResolve(base, acc.routes)
    BY <1>5, <2>3 DEF Applied
  <2> QED
    BY <2>1, <2>2, <2>3 DEF ok
<1>12. ASSUME ~overlap' PROVE InformersInStep' /\ FileInStep'
  <2>1. InformersInStep /\ FileInStep
    BY <1>1, <1>4, <1>12 DEF RoutesInv
  <2>2. InformersInStep'
    BY <1>1, <1>3, <1>5, <2>1 DEF InformersInStep, Running
  <2>3. FileInStep'
    BY <1>1, <1>5, <1>7, <2>1 DEF FileInStep, base
  <2> QED
    BY <2>2, <2>3
<1> QED
  BY <1>1, <1>4, <1>9, <1>10, <1>11, <1>12 DEF RoutesInv

LEMMA RoutesNext == RoutesInv /\ [GatewayNext]_gatewayVars => RoutesInv'
BY RoutesEdit, RoutesList, RoutesSet, RoutesStore, RoutesPoll, RoutesBase, RoutesFrame,
   ServingKeepsRoutes
   DEF GatewayNext, RouteStep

LEMMA RoutesAlways == GatewaySpec => []RoutesInv
BY RoutesInitial, RoutesNext, PTL DEF GatewaySpec

\* Through rotated secrets, refused tables and rewritten files, in every order in
\* which the informers' and the file watcher's refreshes may run one at a time:
\* once nothing is under way the verifier enforces what the store and the file say
\* (SetRoutes remembers routes that did not apply, SetBase brings them back).
THEOREM TableHolds == GatewaySpec => []TableFollowsStore
<1>1. RoutesInv => TableFollowsStore
  <2> SUFFICES ASSUME RoutesInv, news = {}, \A s \in Sources : refresh[s] = NotServing, ~overlap,
                      Renderable(store), ChainsResolve(file, RoutesFromStore(store, secret))
               PROVE  config = [base |-> file, routes |-> RoutesFromStore(store, secret)]
    BY DEF TableFollowsStore
  <2>1. CASE focus # "routes"
    BY <2>1 DEF RoutesInv, Frozen
  <2>2. CASE focus = "routes"
    <3>1. \A s \in Sources : ~Running(s, {"apply"}) /\ ~Running(s, {"base"})
      BY DEF Running, NotServing
    <3>2. acc.routes = RoutesFromStore(store, secret)
      BY <2>2, <3>1 DEF RoutesInv, InformersInStep, Sources, TableSources
    <3>3. acc.base = file
      BY <2>2, <3>1 DEF RoutesInv, FileInStep, Sources
    <3> QED
      BY <2>2, <3>2, <3>3 DEF RoutesInv, Shape, Applied
  <2> QED
    BY <2>1, <2>2
<1> QED
  BY <1>1, RoutesAlways, PTL

\* Whatever the route tables are and wherever the refreshes overlap: when none is
\* under way, an undeclared path below an offer with a priced route is refused,
\* since the prefixes stored are those of the configuration (Verifier.load).
THEOREM UndeclaredHolds == GatewaySpec => []UndeclaredIsRefused
<1>1. RoutesInv => UndeclaredIsRefused
  <2> SUFFICES ASSUME RoutesInv, \A s \in Sources : refresh[s] = NotServing,
                      NEW p \in Paths, NEW o \in Offers,
                      NEW r \in config.routes, r.offer = o, r.gate # "free",
                      IsPrefixOf(Base[o], p), p # Base[o], MatchRoute(config.routes, p) = {}
               PROVE  "allow" \notin HandleVerify(config, prefixes, "GET", p)
    BY DEF UndeclaredIsRefused
  <2>1. prefixes = PaidPrefixes(config.routes)
    BY DEF RoutesInv, Derived, Running, NotServing
  <2>2. Base[o] \in prefixes
    BY <2>1 DEF PaidPrefixes
  <2>3. UnderPaidPrefix(prefixes, p)
    BY <2>2 DEF UnderPaidPrefix
  <2> QED
    BY <2>3 DEF HandleVerify
<1> QED
  BY <1>1, RoutesAlways, PTL

-----------------------------------------------------------------------------
(* Gates: the types, the replay cache and the free tier *)

\* A path's segments; those the code names are among them.
Segment == STRING \cup {"jobs", "job", "chat"}
Copy == [published: BOOLEAN, table: Tables \cup {<<>>, Catchall}, async: BOOLEAN,
         terms: {"ok", "badPrice", "badChain"}]
GoodRoutes(wired) ==
    \A r \in wired :
      /\ r.offer \in Offers /\ r.gate \in {"paid", "free", "auth"} /\ r.terms \in {"ok", "badChain"}
      /\ \E segs \in Seq(Segment) : r.segs = Base[r.offer] \o segs
GoodConfig == GoodRoutes(config.routes) /\ \A r \in config.routes : r.terms = "ok"
UnderOffers(set) == \A p \in set : \E o \in Offers : IsPrefixOf(Base[o], p)

\* Routes that are rendered, remembered or served come from some store.
Rendered ==
    /\ focus \in {"routes", "requests", "jobs"}
    /\ store \in [Offers -> Copy] /\ secret \in {"k1", "k2"} /\ news \subseteq Sources
    /\ focus # "routes" => \A o \in Offers : store[o].terms = "ok"
    /\ \A s \in Sources : Running(s, {"apply"}) => GoodRoutes(refresh[s].routes)
    /\ GoodRoutes(acc.routes) /\ GoodConfig /\ UnderOffers(prefixes)

Days == 0..(MaxTime \div DayLength)
Waiting(r) == req[r].pc = "nonce"
Counting(r) == req[r].pc = "quota"

\* Requests in flight carry what they read of the clock and of the message.
Requested ==
    /\ DOMAIN req = Requests
    /\ \A r \in Requests : Waiting(r) =>
         /\ req[r].m \in Messages /\ req[r].wallet \in Wallets
         /\ req[r].at \in 0..now /\ Issued[req[r].m] + Window >= req[r].at
         /\ Issued[req[r].m] <= req[r].at + Skew
    /\ \A r \in Requests : Counting(r) => req[r].wallet \in Wallets /\ req[r].day \in Int
    /\ \A t \in tokens : t.wallet \in Wallets

\* The replay cache, and when it has seen a message.
Cached ==
    /\ IsFiniteSet(DOMAIN nonces) /\ Cardinality(DOMAIN nonces) <= NonceCacheMax
    /\ \A m \in DOMAIN nonces : m \in Messages /\ nonces[m] \in 0..now /\ Issued[m] <= nonces[m] + Skew

\* A message that signed in is cached, or has expired for all who may still come.
Remembered ==
    ~late /\ ~evicted => \A m \in Messages : accepted[m] # 0 =>
      /\ accepted[m] = 1
      /\ \/ m \in DOMAIN nonces
         \/ now > Issued[m] + Window /\ \A r \in Requests : Waiting(r) => req[r].m # m

\* The counters are those of the quota's day, and no later day has begun.
Counted ==
    /\ quota.day \in Int /\ quota.counts \in [Wallets -> Nat]
    /\ \A w \in Wallets : quota.counts[w] <= FreeQuota
    /\ freeCalls \in [Wallets -> [Days -> Nat]]
    /\ ~late => \A w \in Wallets, d \in Days :
         /\ freeCalls[w][d] <= FreeQuota
         /\ d = quota.day => freeCalls[w][d] = quota.counts[w]
         /\ d > quota.day => freeCalls[w][d] = 0

GatesInv ==
    /\ Rendered /\ Requested /\ Cached /\ Remembered /\ Counted
    /\ accepted \in [Messages -> Nat] /\ now \in 0..MaxTime /\ left \in 0..(MaxChanges + MaxRestarts)

LEMMA GatewayBounds ==
    /\ Window \in Nat /\ Skew \in Nat /\ FreeQuota \in Nat /\ MaxTime \in Nat
    /\ MaxChanges \in Nat /\ MaxRestarts \in Nat /\ NonceCacheMax \in Nat \ {0} /\ DayLength \in Nat \ {0}
    /\ Base \in [Offers -> Seq(Segment)] /\ Issued \in [Messages -> Int]
    /\ Signer \in [Messages -> Wallets] /\ Tables \subseteq Seq(RouteEntry)
BY GatewayAssumption DEF Segment

\* What is rendered from a store is a rule below its offer's path.
LEMMA TableEntry ==
    ASSUME NEW t \in Tables \cup {<<>>, Catchall}, NEW i \in DOMAIN t
    PROVE  t[i].segs \in Seq(Segment) /\ t[i].gate \in {"paid", "free", "auth"}
<1>1. CASE t \in Tables
  <2>1. t[i] \in RouteEntry
    BY <1>1, GatewayBounds
  <2> QED
    BY <2>1 DEF RouteEntry, Segment
<1>2. CASE t = Catchall
  <2>1. DOMAIN Catchall = {1} /\ Catchall[1].segs = <<>> /\ Catchall[1].gate = "paid"
    BY DEF Catchall
  <2>2. <<>> \in Seq(Segment)
    OBVIOUS
  <2> QED
    BY <1>2, <2>1, <2>2
<1>3. t # <<>>
  OBVIOUS
<1> QED
  BY <1>1, <1>2, <1>3

LEMMA RenderedRoutes ==
    ASSUME store \in [Offers -> Copy], NEW auth
    PROVE  LET wired == RoutesFromStore(store, auth)
           IN  /\ Renderable(store) => GoodRoutes(wired)
               /\ (\A o \in Offers : store[o].terms = "ok") => GoodRoutes(wired)
                                                              /\ \A r \in wired : r.terms = "ok"
<1> DEFINE wired == RoutesFromStore(store, auth)
<1>1. ASSUME NEW r \in wired
      PROVE  /\ r.offer \in Offers /\ Published(store[r.offer]) /\ r.terms = store[r.offer].terms
             /\ r.gate \in {"paid", "free", "auth"}
             /\ \E segs \in Seq(Segment) : r.segs = Base[r.offer] \o segs
  <2>1. PICK o \in Offers : Published(store[o]) /\ r \in RulesFromOffer(o, store[o], auth)
    BY DEF RoutesFromStore
  <2>2. store[o].table \in Tables \cup {<<>>, Catchall}
    BY DEF Copy
  <2>3. PICK at, segs, wild, gate :
          /\ r = Rule(o, store[o], auth, at, segs, wild, gate)
          /\ segs \in Seq(Segment) /\ gate \in {"paid", "free", "auth"}
    <3>1. CASE r \in {Rule(o, store[o], auth, i, store[o].table[i].segs, store[o].table[i].wild, store[o].table[i].gate) :
                        i \in DOMAIN store[o].table}
      <4>1. PICK i \in DOMAIN store[o].table :
              r = Rule(o, store[o], auth, i, store[o].table[i].segs, store[o].table[i].wild, store[o].table[i].gate)
        BY <3>1
      <4>2. store[o].table[i].segs \in Seq(Segment) /\ store[o].table[i].gate \in {"paid", "free", "auth"}
        BY <2>2, TableEntry
      <4> QED
        BY <4>1, <4>2
    <3>2. CASE r = Rule(o, store[o], auth, Len(store[o].table) + 1, <<"jobs">>, TRUE, "free")
      <4>1. <<"jobs">> \in Seq(Segment)
        BY DEF Segment
      <4> QED
        BY <3>2, <4>1
    <3> QED
      BY <2>1, <3>1, <3>2 DEF RulesFromOffer
  <2>4. r.offer = o /\ r.terms = store[o].terms /\ r.gate = gate /\ r.segs = Base[o] \o segs
    BY <2>3 DEF Rule
  <2> QED
    BY <2>1, <2>3, <2>4
<1>2. \A o \in Offers : store[o].terms \in {"ok", "badPrice", "badChain"}
  BY DEF Copy
<1> HIDE DEF wired
<1>3. Renderable(store) => GoodRoutes(wired)
  BY <1>1, <1>2 DEF Renderable, GoodRoutes
<1>4. (\A o \in Offers : store[o].terms = "ok") => GoodRoutes(wired) /\ \A r \in wired : r.terms = "ok"
  BY <1>1 DEF GoodRoutes
<1> QED
  BY <1>3, <1>4 DEF wired

LEMMA GoodPrefixes ==
    ASSUME NEW wired, GoodRoutes(wired)
    PROVE  UnderOffers(PaidPrefixes(wired))
<1>1. ASSUME NEW o \in Offers, NEW segs \in Seq(Segment)
      PROVE  IsPrefixOf(Base[o], Base[o] \o segs)
  <2>1. Base[o] \in Seq(Segment)
    BY GatewayBounds
  <2> QED
    BY <2>1 DEF IsPrefixOf
<1>2. ASSUME NEW o \in Offers PROVE IsPrefixOf(Base[o], Base[o])
  <2>1. Base[o] \in Seq(Segment)
    BY GatewayBounds
  <2> QED
    BY <2>1 DEF IsPrefixOf
<1> QED
  BY <1>1, <1>2 DEF UnderOffers, PaidPrefixes, GoodRoutes

LEMMA RenderedInit == GatewayInit => Rendered
<1> SUFFICES ASSUME GatewayInit PROVE Rendered
  OBVIOUS
<1>1. \A s \in Sources : ~Running(s, {"apply"})
  BY DEF GatewayInit, InitRoutes, Running, NotServing
<1>2. GoodRoutes(acc.routes) /\ secret \in {"k1", "k2"}
  BY DEF GatewayInit, InitRoutes, GoodRoutes
<1>3. CASE focus = "routes"
  <2>1. /\ store = [o \in Offers |-> [NoOffer EXCEPT !.published = (Order[o] = 0), !.table = Catchall]]
        /\ config = [base |-> file, routes |-> {}] /\ prefixes = {} /\ news = {"offers", "main"}
    BY <1>3 DEF GatewayInit
  <2>2. store \in [Offers -> Copy]
    BY <2>1 DEF Copy, NoOffer
  <2> QED
    BY <1>1, <1>2, <1>3, <2>1, <2>2 DEF Rendered, GoodConfig, GoodRoutes, UnderOffers, Sources
<1>4. CASE focus \in {"requests", "jobs"}
  <2>1. PICK t \in IF focus = "jobs" THEN {Catchall} ELSE Tables :
          store = [o \in Offers |-> [NoOffer EXCEPT !.published = TRUE, !.table = t, !.async = (Order[o] = 0)]]
    BY <1>4 DEF GatewayInit
  <2>2. store \in [Offers -> Copy] /\ \A o \in Offers : store[o].terms = "ok"
    BY <2>1 DEF Copy, NoOffer
  <2>3. /\ config = [base |-> file, routes |-> RoutesFromStore(store, secret)]
        /\ prefixes = PaidPrefixes(config.routes) /\ news = {}
    BY <1>4 DEF GatewayInit
  <2>4. GoodConfig
    BY <2>2, <2>3, RenderedRoutes DEF GoodConfig
  <2>5. UnderOffers(prefixes)
    BY <2>3, <2>4, GoodPrefixes DEF GoodConfig
  <2> QED
    BY <1>1, <1>2, <1>4, <2>2, <2>3, <2>4, <2>5 DEF Rendered
<1> QED
  BY <1>3, <1>4 DEF GatewayInit

LEMMA RenderedStep == RoutesInv /\ Rendered /\ [GatewayNext]_gatewayVars => Rendered'
<1> SUFFICES ASSUME RoutesInv, Rendered, [GatewayNext]_gatewayVars PROVE Rendered'
  OBVIOUS
<1>0. DOMAIN refresh = Sources
  BY DEF RoutesInv, Shape
<1>1. ASSUME NEW o \in Offers, ChangeOffer(o) PROVE Rendered'
  <2>1. /\ focus = "routes" /\ news' = news \cup {"offers"}
        /\ UNCHANGED <<focus, secret, refresh, acc, config, prefixes>>
    BY <1>1 DEF ChangeOffer
  <2>2. store' \in [Offers -> Copy]
    <3>1. PICK t \in Tables, p \in BOOLEAN, terms \in {"ok", "badPrice", "badChain"} :
            store' = [store EXCEPT ![o] = [published |-> p, table |-> t, async |-> FALSE, terms |-> terms]]
      BY <1>1 DEF ChangeOffer
    <3>2. [published |-> p, table |-> t, async |-> FALSE, terms |-> terms] \in Copy
      BY DEF Copy
    <3> QED
      BY <3>1, <3>2 DEF Rendered
  <2> QED
    BY <2>1, <2>2 DEF Rendered, Running, GoodConfig, Sources
<1>2. CASE RotateSecret \/ WritePricing
  <2>1. /\ focus = "routes" /\ news' \subseteq Sources /\ secret' \in {"k1", "k2"}
        /\ UNCHANGED <<focus, store, refresh, acc, config, prefixes>>
    BY <1>2 DEF RotateSecret, WritePricing, Rendered, Sources
  <2> QED
    BY <2>1 DEF Rendered, Running, GoodConfig
<1>3. ASSUME NEW s \in Sources, ListStores(s) PROVE Rendered'
  <2>1. /\ news' = news \ {s} /\ UNCHANGED <<focus, store, secret, acc, config, prefixes>>
    BY <1>3 DEF ListStores
  <2>2. \A q \in Sources : Running(q, {"apply"})' => GoodRoutes(refresh'[q].routes)
    <3>1. CASE refresh' = refresh
      BY <3>1 DEF Rendered, Running
    <3>2. CASE /\ Renderable(store)
               /\ refresh' = [refresh EXCEPT ![s] = [pc |-> "apply", routes |-> RoutesFromStore(store, secret)]]
      <4>1. GoodRoutes(RoutesFromStore(store, secret))
        BY <3>2, RenderedRoutes DEF Rendered
      <4>2. refresh'[s].routes = RoutesFromStore(store, secret)
            /\ \A q \in Sources \ {s} : refresh'[q] = refresh[q]
        BY <1>0, <3>2
      <4> QED
        BY <4>1, <4>2 DEF Rendered, Running
    <3> QED
      BY <1>3, <3>1, <3>2 DEF ListStores
  <2> QED
    BY <2>1, <2>2 DEF Rendered, GoodConfig
<1>4. ASSUME NEW s \in Sources, SetRoutes(s) PROVE Rendered'
  <2>1. /\ Running(s, {"apply"}) /\ acc' = [acc EXCEPT !.routes = refresh[s].routes]
        /\ UNCHANGED <<focus, store, secret, news, prefixes>>
        /\ config' = config \/ /\ config' = [base |-> acc.base, routes |-> refresh[s].routes]
                               /\ ChainsResolve(acc.base, refresh[s].routes)
    BY <1>4 DEF SetRoutes, Reload, Running
  <2>2. GoodRoutes(refresh[s].routes)
    BY <2>1 DEF Rendered
  <2>3. acc'.routes = refresh[s].routes
    BY <2>1 DEF RoutesInv, Shape
  <2>4. GoodConfig'
    <3>1. CASE config' = config
      BY <3>1 DEF Rendered, GoodConfig
    <3>2. CASE config' # config
      <4>1. config'.routes = refresh[s].routes /\ \A r \in refresh[s].routes : r.terms # "badChain"
        BY <2>1, <3>2 DEF ChainsResolve
      <4> QED
        BY <2>2, <4>1 DEF GoodConfig, GoodRoutes
    <3> QED
      BY <3>1, <3>2
  <2>5. \A q \in Sources : Running(q, {"apply"})' => refresh'[q] = refresh[q] /\ Running(q, {"apply"})
    <3>1. /\ refresh'[s].pc # "apply" /\ \A q \in Sources \ {s} : refresh'[q] = refresh[q]
      BY <1>0, <1>4 DEF SetRoutes, NotServing
    <3> QED
      BY <3>1 DEF Running
  <2> QED
    BY <2>1, <2>2, <2>3, <2>4, <2>5 DEF Rendered
<1>5. ASSUME NEW s \in Sources, StorePrefixes(s) PROVE Rendered'
  <2>1. /\ Running(s, {"prefixes"}) /\ prefixes' = refresh[s].set
        /\ UNCHANGED <<focus, store, secret, news, acc, config>>
    BY <1>5 DEF StorePrefixes, Running
  <2>2. UnderOffers(prefixes')
    BY <2>1, GoodPrefixes DEF RoutesInv, Derived, Rendered, GoodConfig
  <2>3. \A q \in Sources : Running(q, {"apply"})' => refresh'[q] = refresh[q] /\ Running(q, {"apply"})
    <3>1. refresh'[s].pc # "apply" /\ \A q \in Sources \ {s} : refresh'[q] = refresh[q]
      BY <1>0, <1>5 DEF StorePrefixes, NotServing
    <3> QED
      BY <3>1 DEF Running
  <2> QED
    BY <2>1, <2>2, <2>3 DEF Rendered, GoodConfig
<1>6. CASE PollFile
  <2>1. /\ news' = news \ {"file"} /\ UNCHANGED <<focus, store, secret, acc, config, prefixes>>
    BY <1>6 DEF PollFile
  <2>2. \A q \in Sources : Running(q, {"apply"})' => refresh'[q] = refresh[q] /\ Running(q, {"apply"})
    <3>1. /\ refresh'["file"].pc # "apply" \/ refresh' = refresh
          /\ \A q \in Sources \ {"file"} : refresh'[q] = refresh[q]
      BY <1>0, <1>6 DEF PollFile, Sources
    <3> QED
      BY <3>1 DEF Running
  <2> QED
    BY <2>1, <2>2 DEF Rendered, GoodConfig
<1>7. CASE SetBase
  <2>1. /\ acc' = [acc EXCEPT !.base = refresh["file"].base]
        /\ UNCHANGED <<focus, store, secret, news, prefixes>>
        /\ config' = config \/ /\ config' = [base |-> refresh["file"].base, routes |-> acc.routes]
                               /\ ChainsResolve(refresh["file"].base, acc.routes)
    BY <1>7 DEF SetBase, Reload
  <2>2. acc'.routes = acc.routes
    BY <2>1 DEF RoutesInv, Shape
  <2>3. GoodConfig'
    <3>1. CASE config' = config
      BY <3>1 DEF Rendered, GoodConfig
    <3>2. CASE config' # config
      <4>1. config'.routes = acc.routes /\ \A r \in acc.routes : r.terms # "badChain"
        BY <2>1, <3>2 DEF ChainsResolve
      <4> QED
        BY <4>1 DEF Rendered, GoodConfig, GoodRoutes
    <3> QED
      BY <3>1, <3>2
  <2>4. \A q \in Sources : Running(q, {"apply"})' => refresh'[q] = refresh[q] /\ Running(q, {"apply"})
    <3>1. refresh'["file"].pc # "apply" /\ \A q \in Sources \ {"file"} : refresh'[q] = refresh[q]
      BY <1>0, <1>7 DEF SetBase, NotServing, Sources
    <3> QED
      BY <3>1 DEF Running
  <2> QED
    BY <2>1, <2>2, <2>3, <2>4 DEF Rendered
<1>8. CASE UNCHANGED <<focus, routeVars>>
  BY <1>8 DEF Rendered, Running, GoodConfig, routeVars
<1> QED
  BY <1>1, <1>2, <1>3, <1>4, <1>5, <1>6, <1>7, <1>8, ServingKeepsRoutes DEF GatewayNext, RouteStep

\* Requests: the gate reads the clock and the message before it takes a lock.
LEMMA IdleRequest == \A r : req'[r] = NotServing => ~Waiting(r)' /\ ~Counting(r)'
BY DEF Waiting, Counting, NotServing

LEMMA RouteStepsServeNothing ==
    RouteStep => UNCHANGED <<serveVars>> /\ (left' = left \/ (left > 0 /\ left' = left - 1))
BY DEF RouteStep, ChangeOffer, RotateSecret, WritePricing, PollFile, SetBase, ListStores, SetRoutes,
       StorePrefixes, Event

GateRest == accepted \in [Messages -> Nat] /\ now \in 0..MaxTime

LEMMA GatesInit == GatewayInit => Requested /\ Cached /\ Remembered /\ Counted /\ GateRest
<1> SUFFICES ASSUME InitServing PROVE Requested /\ Cached /\ Remembered /\ Counted /\ GateRest
  BY DEF GatewayInit
<1>1. /\ DOMAIN req = Requests /\ \A r \in Requests : req[r].pc = "idle"
      /\ tokens = {} /\ DOMAIN nonces = {} /\ now = 0
      /\ accepted = [m \in Messages |-> 0]
      /\ quota.day = -1 /\ quota.counts = [w \in Wallets |-> 0]
      /\ freeCalls = [w \in Wallets |-> [d \in Days |-> 0]]
  BY DEF InitServing, NotServing, Days
<1>2. Requested
  BY <1>1 DEF Requested, Waiting, Counting
<1>3. Cached
  BY <1>1, FS_EmptySet, GatewayBounds DEF Cached
<1>4. Remembered
  BY <1>1 DEF Remembered
<1>5. Counted
  <2>1. freeCalls \in [Wallets -> [Days -> Nat]] /\ \A w \in Wallets, d \in Days : freeCalls[w][d] = 0
    BY <1>1
  <2>2. quota.day \in Int /\ quota.counts \in [Wallets -> Nat] /\ \A w \in Wallets : quota.counts[w] = 0
    BY <1>1
  <2> QED
    BY <2>1, <2>2, GatewayBounds DEF Counted
<1>6. GateRest
  BY <1>1, GatewayBounds DEF GateRest
<1> QED
  BY <1>2, <1>3, <1>4, <1>5, <1>6

\* A refused request, a fresh one, a day that passes, a pod that restarts.
LEMMA RequestedStep == Requested /\ GateRest /\ [GatewayNext]_gatewayVars => Requested' /\ GateRest'
<1> SUFFICES ASSUME Requested, GateRest, [GatewayNext]_gatewayVars PROVE Requested' /\ GateRest'
  OBVIOUS
<1>0. now \in Nat /\ MaxTime \in Nat
  BY GatewayBounds DEF GateRest
<1>1. CASE UNCHANGED <<serveVars>>
  BY <1>1 DEF Requested, GateRest, Waiting, Counting, serveVars
<1>2. CASE Tick
  <2>1. now' = now + 1 /\ now' \in 0..MaxTime /\ UNCHANGED <<req, tokens, accepted>>
    BY <1>0, <1>2, GatewayBounds DEF Tick, GateRest
  <2>2. \A n : n \in 0..now => n \in 0..now'
    BY <1>0, <2>1
  <2> QED
    BY <2>1, <2>2 DEF Requested, GateRest, Waiting, Counting
<1>3. CASE Restart
  <2>1. /\ DOMAIN req' = Requests /\ (\A r \in Requests : req'[r] = NotServing)
        /\ accepted' = [m \in Messages |-> 0] /\ UNCHANGED <<now, tokens>>
    BY <1>3 DEF Restart
  <2> QED
    BY <2>1, IdleRequest DEF Requested, GateRest
<1>4. ASSUME NEW w \in Wallets, PaidUnlock(w) PROVE Requested' /\ GateRest'
  <2>1. /\ tokens' = tokens \cup {[wallet |-> w, exp |-> now + SessionTTL, epoch |-> epoch]}
        /\ UNCHANGED <<now, req, accepted>>
    BY <1>4 DEF PaidUnlock
  <2> QED
    BY <2>1 DEF Requested, GateRest, Waiting, Counting
<1>5. ASSUME NEW r \in Requests, NEW row, req' = [req EXCEPT ![r] = row]
      PROVE  /\ DOMAIN req' = Requests /\ req'[r] = row
             /\ \A q \in Requests \ {r} : req'[q] = req[q]
  BY <1>5 DEF Requested
<1>6. ASSUME NEW r \in Requests, ConsumeNonce(r) PROVE Requested' /\ GateRest'
  <2>1. UNCHANGED now /\ req[r].pc = "nonce"
    BY <1>6 DEF ConsumeNonce
  <2>2. accepted' = accepted \/ accepted' = [accepted EXCEPT ![req[r].m] = @ + 1]
    BY <1>6 DEF ConsumeNonce
  <2>3. GateRest'
    BY <2>1, <2>2 DEF GateRest
  <2>4. \A t \in tokens' : t.wallet \in Wallets
    <3>1. tokens' = tokens
          \/ tokens' = tokens \cup {[wallet |-> req[r].wallet, exp |-> req[r].at + SessionTTL, epoch |-> epoch]}
      BY <1>6 DEF ConsumeNonce
    <3> QED
      BY <2>1, <3>1 DEF Requested, Waiting
  <2>5. \/ req' = [req EXCEPT ![r] = NotServing]
        \/ req' = [req EXCEPT ![r] = [pc |-> "quota", wallet |-> req[r].wallet, day |-> now \div DayLength]]
    BY <1>6 DEF ConsumeNonce
  <2>6. CASE req' = [req EXCEPT ![r] = NotServing]
    BY <1>5, <2>1, <2>4, <2>3, <2>6, IdleRequest DEF Requested, Waiting, Counting
  <2>7. CASE req' = [req EXCEPT ![r] = [pc |-> "quota", wallet |-> req[r].wallet, day |-> now \div DayLength]]
    <3>1. now \div DayLength \in Int
      BY <1>0, GatewayBounds
    <3>2. req'[r].pc = "quota" /\ req'[r].wallet = req[r].wallet /\ req'[r].day = now \div DayLength
      BY <1>5, <2>7
    <3>3. req[r].wallet \in Wallets
      BY <2>1 DEF Requested, Waiting
    <3> QED
      BY <1>5, <2>1, <2>3, <2>4, <2>7, <3>1, <3>2, <3>3 DEF Requested, Waiting, Counting
  <2> QED
    BY <2>5, <2>6, <2>7
<1>7. ASSUME NEW r \in Requests, ConsumeQuota(r) PROVE Requested' /\ GateRest'
  <2>1. req' = [req EXCEPT ![r] = NotServing] /\ UNCHANGED <<now, tokens, accepted>>
    BY <1>7 DEF ConsumeQuota
  <2> QED
    BY <1>5, <2>1, IdleRequest DEF Requested, GateRest, Waiting, Counting
<1>8. ASSUME NEW r \in Requests, NEW method \in {"GET", "POST"}, NEW p \in Paths, NEW m \in Messages, PresentMessage(r, method, p, m)
      PROVE  Requested' /\ GateRest'
  <2>1. PICK g : req' = [req EXCEPT ![r] = [pc |-> "nonce", gate |-> g, m |-> m, at |-> now, wallet |-> Signer[m]]]
    BY <1>8 DEF PresentMessage
  <2>2. UNCHANGED <<now, tokens, accepted>> /\ Fresh(m, now)
    BY <1>8 DEF PresentMessage
  <2>3. /\ req'[r].pc = "nonce" /\ req'[r].m = m /\ req'[r].at = now /\ req'[r].wallet = Signer[m]
    BY <1>5, <2>1
  <2>4. /\ now \in 0..now /\ Issued[m] + Window >= now /\ Issued[m] <= now + Skew /\ Signer[m] \in Wallets
    BY <1>0, <2>2, GatewayBounds DEF Fresh
  <2> QED
    BY <1>5, <2>1, <2>2, <2>3, <2>4 DEF Requested, GateRest, Waiting, Counting
<1>9. ASSUME NEW r \in Requests, NEW method \in {"GET", "POST"}, NEW p \in Paths, NEW t \in tokens, PresentSession(r, method, p, t)
      PROVE  Requested' /\ GateRest'
  <2>1. /\ req' = [req EXCEPT ![r] = [pc |-> "quota", wallet |-> t.wallet, day |-> now \div DayLength]]
        /\ UNCHANGED <<now, tokens, accepted>>
    BY <1>9 DEF PresentSession
  <2>2. now \div DayLength \in Int
    BY <1>0, GatewayBounds
  <2>3. /\ req'[r].pc = "quota" /\ req'[r].wallet = t.wallet /\ req'[r].day = now \div DayLength
    BY <1>5, <2>1
  <2> QED
    BY <1>5, <2>1, <2>2, <2>3 DEF Requested, GateRest, Waiting, Counting
<1>10. UNCHANGED gatewayVars => UNCHANGED <<serveVars>>
  BY DEF gatewayVars
<1> QED
  BY <1>1, <1>2, <1>3, <1>4, <1>6, <1>7, <1>8, <1>9, <1>10, RouteStepsServeNothing
     DEF GatewayNext, ServeStep

LEMMA MinExists ==
    ASSUME NEW D, D # {}, NEW f, \A m \in D : f[m] \in Nat
    PROVE  \E m \in D : \A x \in D : f[m] <= f[x]
<1> DEFINE S == {f[m] : m \in D}
<1>1. S \subseteq Nat /\ S # {}
  OBVIOUS
<1>2. PICK n \in S : \A k \in S : ~(<<k, n>> \in OpToRel(<, Nat))
  <2> HIDE DEF S
  <2> QED
    BY <1>1, WFMin, NatLessThanWellFounded
<1>3. \A k \in S : ~(k < n)
  BY <1>1, <1>2 DEF OpToRel
<1> QED
  BY <1>1, <1>3

KeptSet(at) == {m \in DOMAIN nonces : Kept(nonces[m], at)}

\* consumeNonce finds the message among those it keeps, or makes room and adds it.
LEMMA NonceConsumed ==
    ASSUME Cached, NEW r \in Requests, ConsumeNonce(r)
    PROVE  LET j == req[r]
           IN  \/ /\ j.m \in KeptSet(j.at) /\ DOMAIN nonces' = KeptSet(j.at)
                  /\ \A m \in DOMAIN nonces' : nonces'[m] = nonces[m]
                  /\ UNCHANGED <<accepted, evicted>>
               \/ /\ j.m \notin KeptSet(j.at) /\ accepted' = [accepted EXCEPT ![j.m] = @ + 1]
                  /\ \E R \in SUBSET KeptSet(j.at) :
                       /\ DOMAIN nonces' = R \cup {j.m} /\ nonces'[j.m] = j.at
                       /\ \A m \in R : nonces'[m] = nonces[m]
                       /\ Cardinality(R) < NonceCacheMax
                       /\ ~evicted' => ~evicted /\ R = KeptSet(j.at)
<1> DEFINE j == req[r]
           kept == Restrict2(nonces, KeptSet(j.at))
           oldest == CHOOSE m \in DOMAIN kept : \A x \in DOMAIN kept : kept[m] <= kept[x]
           room == IF Cardinality(DOMAIN kept) >= NonceCacheMax
                   THEN Restrict2(kept, DOMAIN kept \ {oldest}) ELSE kept
<1>1. /\ DOMAIN kept = KeptSet(j.at) /\ \A m \in DOMAIN kept : kept[m] = nonces[m]
  BY DEF Restrict2
<1>2. /\ j.m \in DOMAIN kept => nonces' = kept /\ UNCHANGED <<accepted, evicted>>
      /\ j.m \notin DOMAIN kept =>
           /\ nonces' = [m \in DOMAIN room \cup {j.m} |-> IF m = j.m THEN j.at ELSE room[m]]
           /\ accepted' = [accepted EXCEPT ![j.m] = @ + 1]
           /\ evicted' = (evicted \/ room # kept)
  BY DEF ConsumeNonce, KeptSet
<1>3. CASE j.m \in DOMAIN kept
  BY <1>1, <1>2, <1>3
<1>4. CASE j.m \notin DOMAIN kept
  <2>1. IsFiniteSet(DOMAIN kept) /\ Cardinality(DOMAIN kept) <= NonceCacheMax /\ Cardinality(DOMAIN kept) \in Nat
    <3>1. KeptSet(j.at) \in SUBSET (DOMAIN nonces)
      BY DEF KeptSet
    <3>2. Cardinality(DOMAIN nonces) \in Nat /\ IsFiniteSet(DOMAIN nonces)
          /\ Cardinality(DOMAIN nonces) <= NonceCacheMax
      BY FS_CardinalityType DEF Cached
    <3>3. IsFiniteSet(KeptSet(j.at)) /\ Cardinality(KeptSet(j.at)) <= Cardinality(DOMAIN nonces)
          /\ Cardinality(KeptSet(j.at)) \in Nat
      BY <3>1, <3>2, FS_Subset, FS_CardinalityType
    <3> QED
      BY <1>1, <3>2, <3>3, GatewayBounds
  <2>2. /\ DOMAIN room \in SUBSET (DOMAIN kept) /\ (\A m \in DOMAIN room : room[m] = kept[m])
        /\ Cardinality(DOMAIN room) < NonceCacheMax
    <3>1. CASE Cardinality(DOMAIN kept) >= NonceCacheMax
      <4>1. DOMAIN kept # {}
        BY <2>1, <3>1, FS_EmptySet, GatewayBounds
      <4>2. \A m \in DOMAIN kept : kept[m] \in Nat
        BY <1>1 DEF Cached, KeptSet
      <4>3. oldest \in DOMAIN kept
        <5> HIDE DEF kept
        <5> QED
          BY <4>1, <4>2, MinExists
      <4>4. Cardinality(DOMAIN kept \ {oldest}) = Cardinality(DOMAIN kept) - 1
        BY <2>1, <4>3, FS_RemoveElement
      <4>5. room = Restrict2(kept, DOMAIN kept \ {oldest})
        BY <3>1
      <4> HIDE DEF kept, oldest, room
      <4>6. DOMAIN room = DOMAIN kept \ {oldest} /\ \A m \in DOMAIN room : room[m] = kept[m]
        BY <4>5 DEF Restrict2
      <4> QED
        BY <2>1, <4>4, <4>6, GatewayBounds
    <3>2. CASE ~(Cardinality(DOMAIN kept) >= NonceCacheMax)
      <4>1. room = kept
        BY <3>2
      <4> HIDE DEF kept, room
      <4> QED
        BY <2>1, <3>2, <4>1, GatewayBounds
    <3> QED
      BY <3>1, <3>2
  <2>3. room = kept => DOMAIN room = DOMAIN kept
    OBVIOUS
  <2>4. /\ nonces' = [m \in DOMAIN room \cup {j.m} |-> IF m = j.m THEN j.at ELSE room[m]]
        /\ accepted' = [accepted EXCEPT ![j.m] = @ + 1] /\ evicted' = (evicted \/ room # kept)
    BY <1>2, <1>4
  <2> HIDE DEF kept, room, j
  <2>5. /\ DOMAIN nonces' = DOMAIN room \cup {j.m} /\ nonces'[j.m] = j.at
        /\ \A m \in DOMAIN room : nonces'[m] = nonces[m]
    BY <1>1, <1>4, <2>2, <2>4
  <2>6. /\ j.m \notin KeptSet(j.at) /\ DOMAIN room \in SUBSET KeptSet(j.at)
        /\ ~evicted' => ~evicted /\ DOMAIN room = KeptSet(j.at)
    BY <1>1, <1>4, <2>2, <2>3, <2>4
  <2>7. \E R \in SUBSET KeptSet(j.at) :
          /\ DOMAIN nonces' = R \cup {j.m} /\ nonces'[j.m] = j.at
          /\ \A m \in R : nonces'[m] = nonces[m]
          /\ Cardinality(R) < NonceCacheMax
          /\ ~evicted' => ~evicted /\ R = KeptSet(j.at)
    BY <2>2, <2>5, <2>6
  <2> QED
    BY <2>4, <2>6, <2>7 DEF j
<1> QED
  BY <1>3, <1>4

LEMMA NoncesKept ==
    [GatewayNext]_gatewayVars =>
      \/ UNCHANGED <<nonces, accepted, late, evicted>> /\ (now' = now \/ now' = now + 1)
      \/ (\E r \in Requests : ConsumeNonce(r)) \/ (\E r \in Requests : ConsumeQuota(r)) \/ Restart
BY RouteStepsServeNothing
   DEF GatewayNext, ServeStep, Tick, PaidUnlock, PresentMessage, PresentSession, gatewayVars, serveVars

LEMMA CachedStep == Requested /\ Cached /\ GateRest /\ [GatewayNext]_gatewayVars => Cached'
<1> SUFFICES ASSUME Requested, Cached, GateRest, [GatewayNext]_gatewayVars PROVE Cached'
  OBVIOUS
<1>0. now \in Nat
  BY GatewayBounds DEF GateRest
<1>1. CASE UNCHANGED nonces /\ (now' = now \/ now' = now + 1)
  <2>1. \A n : n \in 0..now => n \in 0..now'
    BY <1>0, <1>1
  <2> QED
    BY <1>1, <2>1 DEF Cached
<1>2. CASE Restart
  <2>1. DOMAIN nonces' = {}
    BY <1>2 DEF Restart
  <2> QED
    BY <2>1, FS_EmptySet, GatewayBounds DEF Cached
<1>3. ASSUME NEW r \in Requests, ConsumeNonce(r) PROVE Cached'
  <2> DEFINE j == req[r]
  <2>1. /\ now' = now /\ j.m \in Messages /\ j.at \in 0..now /\ Issued[j.m] <= j.at + Skew
        /\ KeptSet(j.at) \in SUBSET (DOMAIN nonces)
    BY <1>3 DEF ConsumeNonce, Requested, Waiting, KeptSet
  <2>2. IsFiniteSet(DOMAIN nonces) /\ Cardinality(DOMAIN nonces) \in Nat
        /\ Cardinality(DOMAIN nonces) <= NonceCacheMax
    BY FS_CardinalityType DEF Cached
  <2>3. CASE /\ DOMAIN nonces' = KeptSet(j.at) /\ \A m \in DOMAIN nonces' : nonces'[m] = nonces[m]
    <3>1. IsFiniteSet(DOMAIN nonces') /\ Cardinality(DOMAIN nonces') <= NonceCacheMax
      <4>1. /\ IsFiniteSet(KeptSet(j.at)) /\ Cardinality(KeptSet(j.at)) <= Cardinality(DOMAIN nonces)
            /\ Cardinality(KeptSet(j.at)) \in Nat
        BY <2>1, <2>2, FS_Subset, FS_CardinalityType
      <4> QED
        BY <2>2, <2>3, <4>1, GatewayBounds
    <3> QED
      BY <2>1, <2>3, <3>1 DEF Cached
  <2>4. ASSUME NEW R \in SUBSET KeptSet(j.at), DOMAIN nonces' = R \cup {j.m}, nonces'[j.m] = j.at,
               \A m \in R : nonces'[m] = nonces[m], Cardinality(R) < NonceCacheMax
        PROVE  Cached'
    <3>1. IsFiniteSet(R) /\ Cardinality(R) \in Nat
      <4>1. R \in SUBSET (DOMAIN nonces)
        BY <2>1
      <4>2. IsFiniteSet(R)
        BY <2>2, <4>1, FS_Subset
      <4> QED
        BY <4>2, FS_CardinalityType
    <3>2. IsFiniteSet(R \cup {j.m}) /\ Cardinality(R \cup {j.m}) <= Cardinality(R) + 1
          /\ Cardinality(R \cup {j.m}) \in Nat
      <4>1. IsFiniteSet(R \cup {j.m}) /\ (Cardinality(R \cup {j.m}) = Cardinality(R)
                                         \/ Cardinality(R \cup {j.m}) = Cardinality(R) + 1)
        BY <3>1, FS_AddElement
      <4> QED
        BY <3>1, <4>1
    <3>3. IsFiniteSet(DOMAIN nonces') /\ Cardinality(DOMAIN nonces') <= NonceCacheMax
      BY <2>4, <3>1, <3>2, GatewayBounds
    <3> QED
      BY <2>1, <2>4, <3>3 DEF Cached
  <2> QED
    BY <1>3, <2>3, <2>4, NonceConsumed
<1>4. ASSUME NEW r \in Requests, ConsumeQuota(r) PROVE UNCHANGED <<nonces, now>>
  BY <1>4 DEF ConsumeQuota
<1> QED
  BY <1>1, <1>2, <1>3, <1>4, NoncesKept

\* A message is forgotten only when whoever still waits with it read its clock
\* before, and nobody can present it any more.
LEMMA RememberedStep ==
    Requested /\ Cached /\ Remembered /\ GateRest /\ [GatewayNext]_gatewayVars => Remembered'
<1> SUFFICES ASSUME Requested, Cached, Remembered, GateRest, [GatewayNext]_gatewayVars,
                    ~late', ~evicted', NEW m \in Messages, accepted'[m] # 0
             PROVE  /\ accepted'[m] = 1
                    /\ \/ m \in DOMAIN nonces'
                       \/ now' > Issued[m] + Window /\ \A r \in Requests : Waiting(r)' => req'[r].m # m
  BY DEF Remembered
<1>0. now \in Nat /\ Window \in Nat /\ Skew \in Nat /\ Issued[m] \in Int
  BY GatewayBounds DEF GateRest
<1>1. CASE Restart
  BY <1>1 DEF Restart
<1>2. ASSUME UNCHANGED <<accepted, nonces>>, now' \in {now, now + 1}, ~late, ~evicted,
             \A r \in Requests : Waiting(r)' /\ req'[r].m = m =>
                (Waiting(r) /\ req[r].m = m) \/ now <= Issued[m] + Window
      PROVE  /\ accepted'[m] = 1
             /\ \/ m \in DOMAIN nonces'
                \/ now' > Issued[m] + Window /\ \A r \in Requests : Waiting(r)' => req'[r].m # m
  BY <1>0, <1>2 DEF Remembered
<1>3. ASSUME NEW r \in Requests, ConsumeNonce(r)
      PROVE  /\ accepted'[m] = 1
             /\ \/ m \in DOMAIN nonces'
                \/ now' > Issued[m] + Window /\ \A q \in Requests : Waiting(q)' => req'[q].m # m
  <2> DEFINE j == req[r]
  <2>1. /\ ~late /\ \A q \in Requests : Waiting(q) => ~(req[q].at < j.at)
        /\ now' = now /\ Waiting(r)
    BY <1>3 DEF ConsumeNonce, Overtakes, Waiting
  <2>2. /\ j.m \in Messages /\ j.at \in 0..now /\ Issued[j.m] + Window >= j.at
        /\ Issued[j.m] \in Int
    BY <2>1, GatewayBounds DEF Requested
  <2>3. \A q \in Requests : Waiting(q)' => Waiting(q) /\ req'[q] = req[q]
    <3>1. \/ req' = [req EXCEPT ![r] = NotServing]
          \/ req' = [req EXCEPT ![r] = [pc |-> "quota", wallet |-> req[r].wallet, day |-> now \div DayLength]]
      BY <1>3 DEF ConsumeNonce
    <3>2. /\ \A q \in Requests \ {r} : req'[q] = req[q]
          /\ req'[r].pc # "nonce"
      BY <3>1 DEF Requested, NotServing
    <3> QED
      BY <3>2 DEF Waiting
  \* A message dropped by the pruning has expired for all.
  <2>4. ASSUME NEW x \in Messages, x \in DOMAIN nonces, x \notin KeptSet(j.at)
        PROVE  /\ now > Issued[x] + Window /\ j.at > Issued[x] + Window
               /\ \A q \in Requests : Waiting(q) => req[q].m # x
    <3>1. nonces[x] \in Int /\ Issued[x] <= nonces[x] + Skew /\ Issued[x] \in Int
      BY <2>4, GatewayBounds DEF Cached
    <3>2. nonces[x] < j.at - Window - Skew
      BY <1>0, <2>2, <2>4, <3>1 DEF KeptSet, Kept
    <3>3. j.at > Issued[x] + Window
      BY <1>0, <2>2, <3>1, <3>2
    <3>4. \A q \in Requests : Waiting(q) => req[q].m # x
      <4> SUFFICES ASSUME NEW q \in Requests, Waiting(q), req[q].m = x PROVE FALSE
        OBVIOUS
      <4>1. Issued[x] + Window >= req[q].at /\ req[q].at \in Int
        BY <1>0 DEF Requested
      <4> QED
        BY <1>0, <2>1, <2>2, <3>1, <3>3, <4>1
    <3> QED
      BY <1>0, <2>2, <3>1, <3>3, <3>4
  <2>5. CASE UNCHANGED <<accepted, evicted>> /\ DOMAIN nonces' = KeptSet(j.at)
    <3>1. /\ accepted[m] = 1
          /\ \/ m \in DOMAIN nonces
             \/ now > Issued[m] + Window /\ \A q \in Requests : Waiting(q) => req[q].m # m
      BY <2>1, <2>5 DEF Remembered
    <3> QED
      BY <2>1, <2>3, <2>4, <2>5, <3>1
  <2>6. CASE /\ j.m \notin KeptSet(j.at) /\ accepted' = [accepted EXCEPT ![j.m] = @ + 1] /\ ~evicted
             /\ DOMAIN nonces' = KeptSet(j.at) \cup {j.m}
    <3>1. accepted[j.m] = 0
      BY <2>1, <2>2, <2>4, <2>6, <1>0 DEF Remembered
    <3>2. CASE m = j.m
      BY <2>2, <2>6, <3>1, <3>2 DEF GateRest
    <3>3. CASE m # j.m
      <4>1. accepted'[m] = accepted[m]
        BY <2>6, <3>3 DEF GateRest
      <4>2. /\ accepted[m] = 1
            /\ \/ m \in DOMAIN nonces
               \/ now > Issued[m] + Window /\ \A q \in Requests : Waiting(q) => req[q].m # m
        BY <2>1, <2>6, <4>1 DEF Remembered
      <4> QED
        BY <2>1, <2>3, <2>4, <2>6, <4>1, <4>2
    <3> QED
      BY <3>2, <3>3
  <2> QED
    BY <1>3, <2>5, <2>6, NonceConsumed
<1>4. ASSUME NEW r \in Requests, ConsumeQuota(r)
      PROVE  /\ UNCHANGED <<accepted, nonces, now, evicted>> /\ (~late' => ~late)
             /\ \A q \in Requests : Waiting(q)' => Waiting(q) /\ req'[q] = req[q]
  <2>1. req' = [req EXCEPT ![r] = NotServing] /\ UNCHANGED <<accepted, nonces, now, evicted>>
        /\ (~late' => ~late)
    BY <1>4 DEF ConsumeQuota
  <2> QED
    BY <2>1 DEF Requested, Waiting, NotServing
<1>5. ASSUME NEW r \in Requests, NEW method \in {"GET", "POST"}, NEW p \in Paths, NEW x \in Messages, PresentMessage(r, method, p, x)
      PROVE  \A q \in Requests : Waiting(q)' /\ req'[q].m = m =>
                (Waiting(q) /\ req[q].m = m) \/ now <= Issued[m] + Window
  <2>1. PICK g : req' = [req EXCEPT ![r] = [pc |-> "nonce", gate |-> g, m |-> x, at |-> now, wallet |-> Signer[x]]]
    BY <1>5 DEF PresentMessage
  <2>2. req'[r].m = x /\ \A q \in Requests \ {r} : req'[q] = req[q]
    BY <2>1 DEF Requested
  <2>3. m = x => now <= Issued[m] + Window
    BY <1>0, <1>5 DEF PresentMessage, Fresh
  <2> QED
    BY <2>2, <2>3 DEF Waiting
<1>6. ASSUME \/ UNCHANGED req
             \/ \E r \in Requests, method \in {"GET", "POST"}, p \in Paths, t \in tokens :
                   PresentSession(r, method, p, t)
      PROVE  \A q \in Requests : Waiting(q)' => Waiting(q) /\ req'[q] = req[q]
  <2>1. CASE UNCHANGED req
    BY <2>1 DEF Waiting
  <2>2. CASE \E r \in Requests, method \in {"GET", "POST"}, p \in Paths, t \in tokens : PresentSession(r, method, p, t)
    <3>1. PICK r \in Requests, t \in tokens :
            req' = [req EXCEPT ![r] = [pc |-> "quota", wallet |-> t.wallet, day |-> now \div DayLength]]
      BY <2>2 DEF PresentSession
    <3>2. req'[r].pc # "nonce" /\ \A q \in Requests \ {r} : req'[q] = req[q]
      BY <3>1 DEF Requested
    <3> QED
      BY <3>2 DEF Waiting
  <2> QED
    BY <1>6, <2>1, <2>2
<1>7. \/ Restart \/ (\E r \in Requests : ConsumeNonce(r)) \/ (\E r \in Requests : ConsumeQuota(r))
      \/ /\ UNCHANGED <<nonces, accepted, late, evicted>> /\ now' \in {now, now + 1}
         /\ \/ \E r \in Requests, method \in {"GET", "POST"}, p \in Paths, x \in Messages : PresentMessage(r, method, p, x)
            \/ UNCHANGED req
            \/ \E r \in Requests, method \in {"GET", "POST"}, p \in Paths, t \in tokens : PresentSession(r, method, p, t)
  <2>1. CASE RouteStep \/ UNCHANGED gatewayVars
    BY <2>1, RouteStepsServeNothing DEF gatewayVars, serveVars
  <2>2. CASE Tick \/ \E w \in Wallets : PaidUnlock(w)
    BY <2>2 DEF Tick, PaidUnlock
  <2>3. CASE \E r \in Requests, method \in {"GET", "POST"}, p \in Paths, x \in Messages : PresentMessage(r, method, p, x)
    <3>1. UNCHANGED <<nonces, accepted, late, evicted, now>>
      BY <2>3 DEF PresentMessage
    <3> QED BY <2>3, <3>1
  <2>4. CASE \E r \in Requests, method \in {"GET", "POST"}, p \in Paths, t \in tokens : PresentSession(r, method, p, t)
    <3>1. UNCHANGED <<nonces, accepted, late, evicted, now>>
      BY <2>4 DEF PresentSession
    <3> QED BY <2>4, <3>1
  <2> QED BY <2>1, <2>2, <2>3, <2>4 DEF GatewayNext, ServeStep
<1> QED
  BY <1>1, <1>2, <1>3, <1>4, <1>5, <1>6, <1>7

\* A counter of a row is incremented; a row without it stays as it is.
LEMMA Bump ==
    ASSUME NEW D, NEW f \in [D -> Nat], NEW k
    PROVE  LET g == [f EXCEPT ![k] = @ + 1]
           IN  g \in [D -> Nat] /\ \A d \in D : g[d] = IF d = k THEN f[d] + 1 ELSE f[d]
<1>1. CASE k \in D
  BY <1>1
<1>2. CASE k \notin D
  BY <1>2
<1> QED
  BY <1>1, <1>2

\* consume counts a call in the day it was read, and in what it keeps of that day.
LEMMA CountedStep == Requested /\ Counted /\ [GatewayNext]_gatewayVars => Counted'
<1> SUFFICES ASSUME Requested, Counted, [GatewayNext]_gatewayVars PROVE Counted'
  OBVIOUS
<1>0. FreeQuota \in Nat
  BY GatewayBounds
<1>1. CASE UNCHANGED <<quota, freeCalls>> /\ (~late' => ~late)
  BY <1>1 DEF Counted
<1>2. CASE Restart
  <2>1. /\ quota'.day = -1 /\ quota'.counts = [w \in Wallets |-> 0]
        /\ freeCalls' = [w \in Wallets |-> [d \in DOMAIN freeCalls[w] |-> 0]]
    BY <1>2 DEF Restart
  <2>2. \A w \in Wallets : DOMAIN freeCalls[w] = Days
    BY DEF Counted
  <2>3. freeCalls' \in [Wallets -> [Days -> Nat]] /\ \A w \in Wallets, d \in Days : freeCalls'[w][d] = 0
    BY <2>1, <2>2
  <2>4. /\ quota'.day \in Int /\ quota'.counts \in [Wallets -> Nat]
        /\ \A w \in Wallets : quota'.counts[w] = 0
    BY <2>1
  <2> QED
    BY <1>0, <2>3, <2>4 DEF Counted
<1>3. ASSUME NEW r \in Requests, ConsumeQuota(r) PROVE Counted'
  <2> DEFINE j == req[r]
             counts == IF quota.day = j.day THEN quota.counts ELSE [w \in Wallets |-> 0]
             free == UnderLimit(counts[j.wallet])
  <2>1. /\ quota' = [day |-> j.day, counts |-> IF free THEN [counts EXCEPT ![j.wallet] = @ + 1] ELSE counts]
        /\ freeCalls' = IF free THEN [freeCalls EXCEPT ![j.wallet][j.day] = @ + 1] ELSE freeCalls
        /\ ~late' => ~late /\ ~(j.day < quota.day)
    BY <1>3 DEF ConsumeQuota
  <2>2. j.wallet \in Wallets /\ j.day \in Int /\ quota.day \in Int
    BY <1>3 DEF ConsumeQuota, Requested, Counting, Counted
  <2>3. counts \in [Wallets -> Nat] /\ \A w \in Wallets : counts[w] <= FreeQuota
    BY <1>0 DEF Counted
  <2>4. ~late' => \A w \in Wallets, d \in Days :
          /\ freeCalls[w][d] <= FreeQuota
          /\ d = j.day => freeCalls[w][d] = counts[w]
          /\ d > j.day => freeCalls[w][d] = 0
    <3> SUFFICES ASSUME ~late', NEW w \in Wallets, NEW d \in Days
                 PROVE  /\ freeCalls[w][d] <= FreeQuota
                        /\ d = j.day => freeCalls[w][d] = counts[w]
                        /\ d > j.day => freeCalls[w][d] = 0
      OBVIOUS
    <3>1. ~late /\ quota.day <= j.day /\ d \in Int
      BY <2>1, <2>2 DEF Days
    <3>2. /\ freeCalls[w][d] <= FreeQuota
          /\ d = quota.day => freeCalls[w][d] = quota.counts[w]
          /\ d > quota.day => freeCalls[w][d] = 0
      BY <3>1 DEF Counted
    <3>3. CASE quota.day = j.day
      BY <3>2, <3>3
    <3>4. CASE quota.day # j.day
      <4>1. quota.day < j.day
        BY <2>2, <3>1, <3>4
      <4>2. counts[w] = 0
        BY <3>4
      <4>3. d >= j.day => d > quota.day
        BY <2>2, <3>1, <4>1
      <4> QED
        BY <2>2, <3>1, <3>2, <4>2, <4>3
    <3> QED
      BY <3>3, <3>4
  <2> HIDE DEF j, counts, free
  <2>5. CASE ~free
    BY <2>1, <2>2, <2>3, <2>4, <2>5 DEF Counted
  <2>6. CASE free
    <3>1. counts[j.wallet] < FreeQuota
      BY <2>6 DEF free, UnderLimit
    <3>2. quota'.day = j.day /\ quota'.counts = [counts EXCEPT ![j.wallet] = @ + 1]
          /\ freeCalls' = [freeCalls EXCEPT ![j.wallet][j.day] = @ + 1]
      BY <2>1, <2>6
    <3>3. /\ quota'.counts \in [Wallets -> Nat] /\ quota'.counts[j.wallet] = counts[j.wallet] + 1
          /\ \A w \in Wallets \ {j.wallet} : quota'.counts[w] = counts[w]
      BY <2>2, <2>3, <3>2
    <3>4. \A w \in Wallets : quota'.counts[w] <= FreeQuota
      BY <1>0, <2>2, <2>3, <3>1, <3>3
    <3>5. /\ freeCalls' \in [Wallets -> [Days -> Nat]]
          /\ \A w \in Wallets, d \in Days :
               freeCalls'[w][d] = IF w = j.wallet /\ d = j.day THEN freeCalls[w][d] + 1 ELSE freeCalls[w][d]
      <4>1. freeCalls \in [Wallets -> [Days -> Nat]]
        BY DEF Counted
      <4> DEFINE row == [freeCalls[j.wallet] EXCEPT ![j.day] = @ + 1]
      <4>2. row \in [Days -> Nat]
            /\ \A d \in Days : row[d] = IF d = j.day THEN freeCalls[j.wallet][d] + 1 ELSE freeCalls[j.wallet][d]
        <5>1. freeCalls[j.wallet] \in [Days -> Nat]
          BY <2>2, <4>1
        <5> QED
          BY <5>1, Bump
      <4>3. freeCalls' = [freeCalls EXCEPT ![j.wallet] = row]
        BY <3>2
      <4> HIDE DEF row
      <4> QED
        BY <2>2, <4>1, <4>2, <4>3
    <3>6. ASSUME ~late', NEW w \in Wallets, NEW d \in Days
          PROVE  /\ freeCalls'[w][d] <= FreeQuota
                 /\ d = j.day => freeCalls'[w][d] = quota'.counts[w]
                 /\ d > j.day => freeCalls'[w][d] = 0
      <4>1. /\ freeCalls[w][d] <= FreeQuota
            /\ d = j.day => freeCalls[w][d] = counts[w]
            /\ d > j.day => freeCalls[w][d] = 0
        BY <2>4, <3>6
      <4>2. CASE w = j.wallet /\ d = j.day
        <5>1. freeCalls'[w][d] = counts[w] + 1 /\ quota'.counts[w] = counts[w] + 1
          BY <3>3, <3>5, <4>1, <4>2
        <5> QED
          BY <2>2, <3>4, <4>2, <5>1
      <4>3. CASE ~(w = j.wallet /\ d = j.day)
        <5>1. freeCalls'[w][d] = freeCalls[w][d] /\ (d = j.day => quota'.counts[w] = counts[w])
          BY <3>3, <3>5, <4>3
        <5> QED
          BY <4>1, <5>1
      <4> QED
        BY <4>2, <4>3
    <3> QED
      BY <2>2, <3>2, <3>3, <3>4, <3>5, <3>6 DEF Counted
  <2> QED
    BY <2>5, <2>6
<1>4. ASSUME NEW r \in Requests, ConsumeNonce(r)
      PROVE  UNCHANGED <<quota, freeCalls>> /\ (~late' => ~late)
  BY <1>4 DEF ConsumeNonce
<1>5. \/ UNCHANGED <<quota, freeCalls, late>> \/ Restart
      \/ (\E r \in Requests : ConsumeNonce(r)) \/ (\E r \in Requests : ConsumeQuota(r))
  BY RouteStepsServeNothing
     DEF GatewayNext, ServeStep, Tick, PaidUnlock, PresentMessage, PresentSession, gatewayVars, serveVars
<1> QED
  BY <1>1, <1>2, <1>3, <1>4, <1>5

LEMMA LeftStep ==
    left \in 0..(MaxChanges + MaxRestarts) /\ [GatewayNext]_gatewayVars
      => left' \in 0..(MaxChanges + MaxRestarts)
<1> SUFFICES ASSUME left \in 0..(MaxChanges + MaxRestarts), [GatewayNext]_gatewayVars
             PROVE  left' \in 0..(MaxChanges + MaxRestarts)
  OBVIOUS
<1>1. left' = left \/ (left > 0 /\ left' = left - 1)
  BY RouteStepsServeNothing
     DEF GatewayNext, ServeStep, Tick, Restart, Event, PaidUnlock, PresentMessage, PresentSession,
         ConsumeNonce, ConsumeQuota, gatewayVars
<1>2. MaxChanges + MaxRestarts \in Nat
  BY GatewayBounds
<1> QED
  BY <1>1, <1>2

GatewayInv == RoutesInv /\ GatesInv

LEMMA GatewayInitial == GatewayInit => GatewayInv
<1>1. GatewayInit => left \in {MaxChanges, MaxRestarts}
  <2> SUFFICES ASSUME GatewayInit PROVE left \in {MaxChanges, MaxRestarts}
    OBVIOUS
  <2> QED
    BY Zenon DEF GatewayInit
<1>2. {MaxChanges, MaxRestarts} \subseteq 0..(MaxChanges + MaxRestarts)
  BY GatewayBounds
<1> QED
  BY <1>1, <1>2, RoutesInitial, RenderedInit, GatesInit DEF GatewayInv, GatesInv, GateRest

LEMMA GatewayStep == GatewayInv /\ [GatewayNext]_gatewayVars => GatewayInv'
BY RoutesNext, RenderedStep, RequestedStep, CachedStep, RememberedStep, CountedStep, LeftStep
   DEF GatewayInv, GatesInv, GateRest

\* What the process gives for nothing or for a signature, for every window, skew,
\* cache size and quota and any number of requests: a signed message signs in once
\* unless the cache overflowed or a request overtook one that read its clock
\* before, and a wallet has its quota of free calls a day; the nonces never outgrow
\* their cache (consumeNonce, freeQuotaCounter.consume).
THEOREM GatewayLimits == GatewaySpec => []LimitsHold
<1>1. GatewayInv => LimitsHold
  <2> SUFFICES ASSUME GatewayInv PROVE GatewayTypeOK /\ OneSignInPerMessage /\ FreeCallsWithinQuota
    BY DEF LimitsHold
  <2>1. \A o \in Offers : store[o].table \in Tables \cup {<<>>, Catchall}
    BY DEF GatewayInv, GatesInv, Rendered, Copy
  <2>2. \A s \in Sources : refresh[s].pc \in {"idle", "apply", "prefixes", "base"}
    BY DEF GatewayInv, RoutesInv, Shape, Running, NotServing, Sources, TableSources
  <2>3. GatewayTypeOK
    BY <2>1, <2>2
       DEF GatewayInv, GatesInv, Rendered, Cached, GoodConfig, GoodRoutes, UnderOffers, GatewayTypeOK
  <2>4. OneSignInPerMessage
    <3> SUFFICES ASSUME ~late, ~evicted, NEW m \in Messages PROVE accepted[m] <= 1
      BY DEF OneSignInPerMessage
    <3>1. accepted[m] = 0 \/ accepted[m] = 1
      BY DEF GatewayInv, GatesInv, Remembered
    <3> QED
      BY <3>1
  <2>5. FreeCallsWithinQuota
    BY DEF GatewayInv, GatesInv, Counted, FreeCallsWithinQuota
  <2> QED
    BY <2>3, <2>4, <2>5
<1> QED
  BY <1>1, GatewayInitial, GatewayStep, PTL DEF GatewaySpec

-----------------------------------------------------------------------------
(* Gates: what the document says of a path *)

\* The rules of an offer, by the route they come from.
TableRule(o, auth, i) ==
    Rule(o, store[o], auth, i, store[o].table[i].segs, store[o].table[i].wild, store[o].table[i].gate)
JobsRule(o, auth) == Rule(o, store[o], auth, Len(store[o].table) + 1, <<"jobs">>, TRUE, "free")

LEMMA WholePrefix ==
    ASSUME NEW S, NEW s \in Seq(S), NEW p \in Seq(S), IsPrefixOf(s, p), Len(s) >= Len(p)
    PROVE  s = p
BY DEF IsPrefixOf

LEMMA PrefixOfItself ==
    ASSUME NEW S, NEW p \in Seq(S)
    PROVE  IsPrefixOf(p, p)
BY DEF IsPrefixOf

LEMMA PrefixIs ==
    ASSUME NEW S, NEW s \in Seq(S), NEW t \in Seq(S)
    PROVE  IsPrefixOf(s, t) <=> Len(s) <= Len(t) /\ \A k \in 1..Len(s) : s[k] = t[k]
<1>1. ASSUME Len(s) <= Len(t)
      PROVE  /\ SubSeq(t, 1, Len(s)) \in Seq(S) /\ Len(SubSeq(t, 1, Len(s))) = Len(s)
             /\ \A k \in 1..Len(s) : SubSeq(t, 1, Len(s))[k] = t[k]
  BY <1>1
<1>2. ASSUME Len(s) <= Len(t), \A k \in 1..Len(s) : s[k] = t[k]
      PROVE  SubSeq(t, 1, Len(s)) = s
  BY <1>1, <1>2, SeqEqual
<1> QED BY <1>1, <1>2 DEF IsPrefixOf

LEMMA JoinedPrefix ==
    ASSUME NEW S, NEW b \in Seq(S), NEW x \in Seq(S), NEW y \in Seq(S)
    PROVE  /\ IsPrefixOf(b \o x, b \o y) => IsPrefixOf(x, y)
           /\ IsPrefixOf(x, y) => IsPrefixOf(b \o x, b \o y)
           /\ b \o x = b \o y => x = y
<1>1. /\ b \o x \in Seq(S) /\ Len(b \o x) = Len(b) + Len(x)
      /\ \A k \in 1..Len(x) : (b \o x)[Len(b) + k] = x[k]
      /\ \A k \in 1..Len(b) : (b \o x)[k] = b[k]
  OBVIOUS
<1>2. /\ b \o y \in Seq(S) /\ Len(b \o y) = Len(b) + Len(y)
      /\ \A k \in 1..Len(y) : (b \o y)[Len(b) + k] = y[k]
      /\ \A k \in 1..Len(b) : (b \o y)[k] = b[k]
  OBVIOUS
<1>3. ASSUME NEW s \in Seq(S), NEW t \in Seq(S)
      PROVE  IsPrefixOf(s, t) <=> Len(s) <= Len(t) /\ \A k \in 1..Len(s) : s[k] = t[k]
  BY PrefixIs
<1>4. IsPrefixOf(b \o x, b \o y) => IsPrefixOf(x, y)
  <2> SUFFICES ASSUME IsPrefixOf(b \o x, b \o y) PROVE IsPrefixOf(x, y)
    OBVIOUS
  <2>1. Len(b \o x) <= Len(b \o y) /\ \A k \in 1..Len(b \o x) : (b \o x)[k] = (b \o y)[k]
    BY <1>1, <1>2, <1>3
  <2>2. Len(x) <= Len(y)
    BY <1>1, <1>2, <2>1
  <2>3. ASSUME NEW k \in 1..Len(x) PROVE x[k] = y[k]
    <3>1. Len(b) + k \in 1..Len(b \o x) /\ k \in 1..Len(y)
      BY <1>1, <2>2
    <3> QED BY <1>1, <1>2, <2>1, <3>1
  <2> QED BY <1>3, <2>2, <2>3
<1>5. IsPrefixOf(x, y) => IsPrefixOf(b \o x, b \o y)
  <2> SUFFICES ASSUME IsPrefixOf(x, y) PROVE IsPrefixOf(b \o x, b \o y)
    OBVIOUS
  <2>1. Len(x) <= Len(y) /\ \A k \in 1..Len(x) : x[k] = y[k]
    BY <1>3
  <2>2. ASSUME NEW k \in 1..Len(b \o x) PROVE (b \o x)[k] = (b \o y)[k]
    <3>1. CASE k <= Len(b)
      BY <1>1, <1>2, <3>1
    <3>2. CASE k > Len(b)
      <4>1. PICK m \in 1..Len(x) : k = Len(b) + m
        <5>1. k - Len(b) \in 1..Len(x) /\ k = Len(b) + (k - Len(b))
          BY <1>1, <3>2
        <5> QED BY <5>1
      <4>2. (b \o x)[Len(b) + m] = x[m]
        BY <1>1
      <4>3. (b \o y)[Len(b) + m] = y[m]
        BY <1>2, <2>1
      <4>4. x[m] = y[m]
        BY <2>1
      <4> QED BY <4>1, <4>2, <4>3, <4>4, Zenon
    <3>3. k <= Len(b) \/ k > Len(b)
      BY <1>1, LenProperties
    <3> QED BY <3>1, <3>2, <3>3, Zenon
  <2>3. Len(b \o x) <= Len(b \o y) /\ b \o x \in Seq(S) /\ b \o y \in Seq(S)
    BY <1>1, <1>2, <2>1
  <2> QED BY <1>3, <2>2, <2>3
<1>6. ASSUME b \o x = b \o y PROVE x = y
  <2>1. Len(x) = Len(y)
    BY <1>1, <1>2, <1>6
  <2>2. \A k \in 1..Len(x) : x[k] = y[k]
    BY <1>1, <1>2, <1>6, <2>1
  <2> QED BY <2>1, <2>2, SeqEqual
<1> QED BY <1>4, <1>5, <1>6

LEMMA EntryTyped ==
    ASSUME store \in [Offers -> Copy], NEW o \in Offers, NEW i \in DOMAIN store[o].table
    PROVE  /\ store[o].table[i].segs \in Seq(Segment) /\ store[o].table[i].wild \in BOOLEAN
           /\ Len(store[o].table) \in Nat /\ i \in 1..Len(store[o].table)
<1>1. store[o].table \in Tables \cup {<<>>, Catchall}
  BY DEF Copy
<1>2. CASE store[o].table \in Tables
  <2>1. store[o].table \in Seq(RouteEntry)
    BY <1>2, GatewayBounds
  <2>2. store[o].table[i] \in RouteEntry
    BY <2>1
  <2> QED BY <2>1, <2>2 DEF RouteEntry, Segment
<1>3. CASE store[o].table = Catchall
  <2>1. DOMAIN Catchall = {1} /\ Len(Catchall) = 1 /\ Catchall[1].segs = <<>>
    BY DEF Catchall
  <2>5. Catchall[1].wild \in BOOLEAN
    <3>1. Catchall[1].wild = TRUE
      BY DEF Catchall
    <3> QED BY <3>1
  <2>2. <<>> \in Seq(Segment)
    OBVIOUS
  <2>3. i = 1
    BY <1>3, <2>1
  <2>4. Len(store[o].table) = 1 /\ store[o].table[i] = Catchall[1]
    BY <1>3, <2>1, <2>3
  <2>6. i \in 1..Len(store[o].table)
    BY <2>3, <2>4
  <2>7. store[o].table[i].segs \in Seq(Segment) /\ store[o].table[i].wild \in BOOLEAN
    BY <2>1, <2>2, <2>4, <2>5, Zenon
  <2> QED BY <2>4, <2>6, <2>7
<1>4. store[o].table # <<>>
  OBVIOUS
<1> QED BY <1>1, <1>2, <1>3, <1>4

LEMMA RuleFields ==
    ASSUME NEW o, NEW auth
    PROVE  /\ \A i : /\ TableRule(o, auth, i).offer = o /\ TableRule(o, auth, i).at = i
                     /\ TableRule(o, auth, i).segs = Base[o] \o store[o].table[i].segs
                     /\ TableRule(o, auth, i).wild = store[o].table[i].wild
                     /\ TableRule(o, auth, i).gate = store[o].table[i].gate
           /\ JobsRule(o, auth).offer = o /\ JobsRule(o, auth).at = Len(store[o].table) + 1
           /\ JobsRule(o, auth).segs = Base[o] \o <<"jobs">>
           /\ JobsRule(o, auth).wild = TRUE /\ JobsRule(o, auth).gate = "free"
BY DEF TableRule, JobsRule, Rule

\* What is needed of a rule: it is a route of the table, or that of the jobs.
LEMMA RuleOf ==
    ASSUME store \in [Offers -> Copy], NEW o \in Offers, NEW auth,
           NEW r \in RoutesFromStore(store, auth), r.offer = o
    PROVE  /\ Published(store[o])
           /\ \/ \E i \in DOMAIN store[o].table : r = TableRule(o, auth, i)
              \/ store[o].async /\ r = JobsRule(o, auth)
<1>1. PICK q \in Offers : Published(store[q]) /\ r \in RulesFromOffer(q, store[q], auth)
  BY DEF RoutesFromStore
<1>2. \/ \E i \in DOMAIN store[q].table : r = TableRule(q, auth, i)
      \/ store[q].async /\ r = JobsRule(q, auth)
  BY <1>1 DEF RulesFromOffer, TableRule, JobsRule
<1>3. r.offer = q
  <2>1. CASE \E i \in DOMAIN store[q].table : r = TableRule(q, auth, i)
    BY <2>1 DEF TableRule, Rule
  <2>2. CASE r = JobsRule(q, auth)
    BY <2>2 DEF JobsRule, Rule
  <2> QED BY <1>2, <2>1, <2>2
<1> QED BY <1>1, <1>2, <1>3

LEMMA RulesThere ==
    ASSUME NEW o \in Offers, NEW auth, Published(store[o])
    PROVE  /\ \A i \in DOMAIN store[o].table : TableRule(o, auth, i) \in RoutesFromStore(store, auth)
           /\ store[o].async => JobsRule(o, auth) \in RoutesFromStore(store, auth)
<1>1. RulesFromOffer(o, store[o], auth) \subseteq RoutesFromStore(store, auth)
  BY DEF RoutesFromStore
<1>2. /\ \A i \in DOMAIN store[o].table : TableRule(o, auth, i) \in RulesFromOffer(o, store[o], auth)
      /\ store[o].async => JobsRule(o, auth) \in RulesFromOffer(o, store[o], auth)
  BY DEF RulesFromOffer, TableRule, JobsRule
<1> QED BY <1>1, <1>2

\* The rule that is found at a path is not behind another of its offer that is
\* declared for just that path.
LEMMA FoundAtPath ==
    ASSUME NEW wired, NEW p \in Seq(Segment), NEW r \in MatchRoute(wired, p), NEW s \in wired,
           r.segs \in Seq(Segment), r.wild \in BOOLEAN, s.wild \in BOOLEAN,
           s.offer = r.offer, s.segs = p
    PROVE  /\ r.segs = p
           /\ ~s.wild => ~r.wild
           /\ s.wild = r.wild => ~(s.at < r.at)
<1>1. MatchPattern(r, p) /\ MatchPattern(s, p) /\ ~Before(s, r)
  BY PrefixOfItself DEF MatchRoute, MatchPattern
<1>2. ~s.wild => ~r.wild
  BY <1>1 DEF Before
<1>3. ASSUME r.wild PROVE Len(r.segs) >= Len(p)
  <2>1. s.wild
    BY <1>2, <1>3
  <2>2. ~(Len(s.segs) > Len(r.segs))
    BY <1>1, <1>3, <2>1 DEF Before
  <2> QED BY <2>2
<1>4. r.segs = p
  BY <1>1, <1>3, WholePrefix DEF MatchPattern
<1> QED BY <1>1, <1>2, <1>4 DEF Before

\* The gate of the table's rule that is found at its own path is documented.
LEMMA FoundIsDocumented ==
    ASSUME store \in [Offers -> Copy], NEW o \in Offers, NEW auth, Published(store[o]),
           NEW p \in Seq(Segment), NEW j \in DOMAIN store[o].table,
           NEW r \in MatchRoute(RoutesFromStore(store, auth), p), r = TableRule(o, auth, j), r.segs = p
    PROVE  \E op \in OpenAPIPathsForRouteTable(store[o].table) :
             op.key = store[o].table[j].segs /\ op.gate = store[o].table[j].gate
<1> DEFINE tbl == store[o].table
<1>1. PICK m \in DefaultMethods(tbl[j]) : TRUE
  BY DEF DefaultMethods
<1>2. ASSUME NEW i \in DOMAIN tbl, tbl[i].segs = tbl[j].segs
      PROVE  /\ ~RouteBefore(tbl[i], tbl[j])
             /\ RouteBefore(tbl[j], tbl[i]) \/ ~(i < j)
  <2> DEFINE s == TableRule(o, auth, i)
  <2>1. /\ s \in RoutesFromStore(store, auth) /\ s.offer = r.offer /\ s.segs = p /\ r.segs = p
        /\ s.wild = tbl[i].wild /\ r.wild = tbl[j].wild /\ s.at = i /\ r.at = j
    <3>1. s \in RoutesFromStore(store, auth)
      BY RulesThere
    <3>2. s.offer = o /\ s.at = i /\ s.segs = Base[o] \o tbl[i].segs /\ s.wild = tbl[i].wild
      BY DEF TableRule, Rule
    <3>3. r.offer = o /\ r.at = j /\ r.segs = Base[o] \o tbl[j].segs /\ r.wild = tbl[j].wild
      <4>1. /\ TableRule(o, auth, j).offer = o /\ TableRule(o, auth, j).at = j
            /\ TableRule(o, auth, j).segs = Base[o] \o tbl[j].segs /\ TableRule(o, auth, j).wild = tbl[j].wild
        BY DEF TableRule, Rule
      <4> QED BY <4>1, Zenon
    <3> QED BY <1>2, <3>1, <3>2, <3>3, Zenon
  <2>2. tbl[i].wild \in BOOLEAN /\ tbl[j].wild \in BOOLEAN /\ Len(tbl[i].segs) \in Nat
    BY EntryTyped
  <2>3. (~s.wild => ~r.wild) /\ (s.wild = r.wild => ~(s.at < r.at))
    BY <2>1, <2>2, FoundAtPath
  <2>4. /\ ~tbl[i].wild => ~tbl[j].wild
        /\ tbl[i].wild = tbl[j].wild => ~(i < j)
    BY <2>1, <2>3
  <2> QED BY <1>2, <2>2, <2>4 DEF RouteBefore
<1>3. Claims(tbl, j, m)
  BY <1>1, <1>2 DEF Claims
<1>4. Operation(tbl[j], m) \in OpenAPIPathsForRouteTable(tbl)
  BY <1>1, <1>3 DEF OpenAPIPathsForRouteTable
<1> QED BY <1>4 DEF Operation

LEMMA DocumentedOps ==
    ASSUME NEW o \in Offers, NEW op \in OpenAPIPathsForOffer(o, store[o])
    PROVE  \/ /\ op \in SaidByItself(o, store[o])
              /\ \/ Kind[o] = "agent" /\ op.key = <<"chat">> /\ op.gate = "paid" /\ op \notin JobPages
                 \/ Kind[o] # "agent" /\ store[o].async /\ op.key = <<"jobs", "job">> /\ op.gate = "free" /\ op \in JobPages
           \/ /\ Kind[o] # "agent" /\ store[o].table = Catchall
              /\ op.key \in {<<"chat">>, <<>>} /\ op.gate = "paid"
           \/ /\ Kind[o] # "agent" /\ OpenAPIPathsForRouteTable(store[o].table) \subseteq OpenAPIPathsForOffer(o, store[o])
              /\ \E i \in DOMAIN store[o].table : op.key = store[o].table[i].segs
<1>1. \A q \in OpenAIOperations(Kind[o]) : q.key = <<"chat">> /\ q.gate = "paid" /\ q \notin JobPages
  BY DEF OpenAIOperations, BuyerPaths, Paid, JobPages
<1>2. CASE Kind[o] = "agent"
  BY <1>1, <1>2 DEF OpenAPIPathsForOffer, SaidByItself
<1>3. CASE Kind[o] # "agent"
  <2>1. CASE store[o].async /\ op \in JobPages
    <3>1. op.key = <<"jobs", "job">> /\ op.gate = "free"
      BY <2>1 DEF JobPages
    <3>2. op \in SaidByItself(o, store[o])
      BY <1>3, <2>1 DEF SaidByItself, AnnotateAsyncPaths
    <3> QED BY <1>3, <2>1, <3>1, <3>2
  <2>2. CASE store[o].table = Catchall /\ op \in OpenAIOperations(Kind[o])
    BY <1>1, <1>3, <2>2
  <2>3. CASE store[o].table = Catchall /\ op = Paid("GET", <<>>)
    BY <1>3, <2>3 DEF Paid
  <2>4. CASE store[o].table # Catchall /\ op \in OpenAPIPathsForRouteTable(store[o].table)
    <3>1. OpenAPIPathsForRouteTable(store[o].table) \subseteq OpenAPIPathsForOffer(o, store[o])
      BY <1>3, <2>4 DEF OpenAPIPathsForOffer, AnnotateAsyncPaths
    <3>2. \E i \in DOMAIN store[o].table : op.key = store[o].table[i].segs
      BY <2>4 DEF OpenAPIPathsForRouteTable, Operation
    <3> QED BY <1>3, <3>1, <3>2
  <2> QED BY <1>3, <2>1, <2>2, <2>3, <2>4 DEF OpenAPIPathsForOffer, AnnotateAsyncPaths
<1> QED BY <1>2, <1>3

\* A pattern below an offer's path against a path below it.
LEMMA MatchesBelow ==
    ASSUME store \in [Offers -> Copy], NEW o \in Offers, NEW auth, NEW key \in Seq(Segment)
    PROVE  /\ \A i \in DOMAIN store[o].table :
                MatchPattern(TableRule(o, auth, i), Base[o] \o key) => MatchPattern(store[o].table[i], key)
           /\ MatchPattern(JobsRule(o, auth), Base[o] \o key) <=> IsPrefixOf(<<"jobs">>, key)
<1>1. Base[o] \in Seq(Segment) /\ <<"jobs">> \in Seq(Segment)
  BY GatewayBounds DEF Segment
<1>4. ASSUME NEW x \in Seq(Segment)
      PROVE  /\ IsPrefixOf(Base[o] \o x, Base[o] \o key) => IsPrefixOf(x, key)
             /\ Base[o] \o x = Base[o] \o key => x = key
  BY <1>1, JoinedPrefix
<1>2. ASSUME NEW i \in DOMAIN store[o].table, MatchPattern(TableRule(o, auth, i), Base[o] \o key)
      PROVE  MatchPattern(store[o].table[i], key)
  <2>1. store[o].table[i].segs \in Seq(Segment)
    BY EntryTyped
  <2>2. /\ IsPrefixOf(Base[o] \o store[o].table[i].segs, Base[o] \o key) => IsPrefixOf(store[o].table[i].segs, key)
        /\ Base[o] \o store[o].table[i].segs = Base[o] \o key => store[o].table[i].segs = key
    BY <1>4, <2>1
  <2> QED BY <1>2, <2>2 DEF MatchPattern, TableRule, Rule
<1>3. MatchPattern(JobsRule(o, auth), Base[o] \o key) <=> IsPrefixOf(<<"jobs">>, key)
  <2>1. IsPrefixOf(Base[o] \o <<"jobs">>, Base[o] \o key) <=> IsPrefixOf(<<"jobs">>, key)
    BY <1>1, JoinedPrefix
  <2> QED BY <2>1 DEF MatchPattern, JobsRule, Rule
<1> QED BY <1>2, <1>3

LEMMA AdvertisedAt ==
    ASSUME store \in [Offers -> Copy], NEW o \in Offers, NEW p, NEW auth,
           NEW r \in MatchRoute(RoutesFromStore(store, auth), p), r.offer = o,
           NEW op \in OpenAPIPathsForOffer(o, store[o]), PublicPath(o, op) = p,
           op \in SaidByItself(o, store[o]) => ~Overruled(store[o], op)
    PROVE  \E q \in OpenAPIPathsForOffer(o, store[o]) : PublicPath(o, q) = p /\ q.gate = r.gate
<1> USE DEF PublicPath
<1> DEFINE wired == RoutesFromStore(store, auth)
           tbl == store[o].table
           key == op.key
<1>1. /\ Base[o] \in Seq(Segment) /\ r \in wired /\ MatchPattern(r, p)
      /\ \A s \in wired : MatchPattern(s, p) => ~Before(s, r)
  BY GatewayBounds DEF MatchRoute
<1>2. /\ Published(store[o])
      /\ (\E i \in DOMAIN tbl : r = TableRule(o, auth, i)) \/ (store[o].async /\ r = JobsRule(o, auth))
  BY <1>1, RuleOf
<1>3. ASSUME NEW k \in Seq(Segment), k = op.key
      PROVE  /\ p \in Seq(Segment) /\ p = Base[o] \o k
             /\ MatchPattern(JobsRule(o, auth), p) <=> IsPrefixOf(<<"jobs">>, k)
             /\ \A i \in DOMAIN tbl : MatchPattern(TableRule(o, auth, i), p) => MatchPattern(tbl[i], k)
  <2>1. p = Base[o] \o k
    BY <1>3
  <2>2. Base[o] \o k \in Seq(Segment)
    BY <1>1
  <2>3. /\ MatchPattern(JobsRule(o, auth), Base[o] \o k) <=> IsPrefixOf(<<"jobs">>, k)
        /\ \A i \in DOMAIN tbl : MatchPattern(TableRule(o, auth, i), Base[o] \o k) => MatchPattern(tbl[i], k)
    BY MatchesBelow
  <2> QED BY <2>1, <2>2, <2>3, Zenon
<1>4. <<>> \in Seq(Segment) /\ <<"chat">> \in Seq(Segment) /\ <<"jobs", "job">> \in Seq(Segment)
  BY DEF Segment
<1>5. ~IsPrefixOf(<<"jobs">>, <<>>) /\ ~IsPrefixOf(<<"jobs">>, <<"chat">>) /\ IsPrefixOf(<<"jobs">>, <<"jobs", "job">>)
  <2>1. ASSUME NEW s \in Seq(Segment), Len(s) > 0
        PROVE  IsPrefixOf(<<"jobs">>, s) <=> s[1] = "jobs"
    <3>1. <<"jobs">> \in Seq(Segment) /\ Len(<<"jobs">>) = 1 /\ <<"jobs">>[1] = "jobs"
      BY DEF Segment
    <3>2. PICK first \in Seq(Segment) : first = <<"jobs">> /\ Len(first) = 1 /\ first[1] = "jobs"
      BY <3>1
    <3>3. IsPrefixOf(first, s) <=> Len(first) <= Len(s) /\ \A k \in 1..Len(first) : first[k] = s[k]
      BY PrefixIs
    <3>4. IsPrefixOf(first, s) <=> s[1] = "jobs"
      BY <2>1, <3>2, <3>3
    <3> QED BY <3>2, <3>4
  <2>2. /\ Len(<<"chat">>) > 0 /\ <<"chat">>[1] # "jobs"
        /\ Len(<<"jobs", "job">>) > 0 /\ <<"jobs", "job">>[1] = "jobs"
    OBVIOUS
  <2>3. ~IsPrefixOf(<<"jobs">>, <<>>)
    BY DEF IsPrefixOf
  <2> QED BY <1>4, <2>1, <2>2, <2>3
<1>6. CASE op \in SaidByItself(o, store[o]) /\ op.key = <<"chat">> /\ op.gate = "paid" /\ op \notin JobPages
  <2>1. PICK i \in DOMAIN tbl : r = TableRule(o, auth, i)
    BY <1>1, <1>2, <1>3, <1>4, <1>5, <1>6
  <2>2. MatchPattern(tbl[i], op.key)
    BY <1>1, <1>3, <1>4, <1>6, <2>1
  <2>3. tbl[i].gate = op.gate
    BY <1>6, <2>2 DEF Overruled
  <2>4. r.gate = tbl[i].gate
    BY <2>1 DEF TableRule, Rule
  <2> QED BY <2>3, <2>4
<1>7. CASE /\ op \in SaidByItself(o, store[o]) /\ store[o].async
           /\ op.key = <<"jobs", "job">> /\ op.gate = "free" /\ op \in JobPages
  <2>1. CASE r = JobsRule(o, auth)
    <3>1. r.gate = op.gate
      BY <1>7, <2>1 DEF JobsRule, Rule
    <3> QED BY <3>1
  <2>2. CASE \E i \in DOMAIN tbl : r = TableRule(o, auth, i)
    <3>1. PICK i \in DOMAIN tbl : r = TableRule(o, auth, i)
      BY <2>2
    <3>2. MatchPattern(tbl[i], op.key) /\ ~Before(JobsRule(o, auth), r)
      BY <1>1, <1>2, <1>3, <1>4, <1>5, <1>7, <3>1, RulesThere
    <3>3. ASSUME tbl[i].segs = <<>> PROVE FALSE
      <4>1. tbl[i].wild
        BY <1>7, <3>2, <3>3 DEF MatchPattern
      <4>2. ~(Len(JobsRule(o, auth).segs) > Len(r.segs))
        <5>1. JobsRule(o, auth).wild
          BY DEF JobsRule, Rule
        <5>2. r.wild
          BY <3>1, <4>1 DEF TableRule, Rule
        <5> QED BY <3>2, <5>1, <5>2 DEF Before
      <4>3. r.segs = Base[o] \o <<>> /\ JobsRule(o, auth).segs = Base[o] \o <<"jobs">>
        BY <3>1, <3>3 DEF JobsRule, TableRule, Rule
      <4>4. <<>> \in Seq(Segment) /\ <<"jobs">> \in Seq(Segment) /\ Len(<<>>) = 0 /\ Len(<<"jobs">>) = 1
        BY DEF Segment
      <4> QED BY <1>1, <4>2, <4>3, <4>4
    <3>4. tbl[i].gate = op.gate
      BY <1>7, <3>2, <3>3 DEF Overruled
    <3>5. r.gate = tbl[i].gate
      BY <3>1 DEF TableRule, Rule
    <3> QED BY <3>4, <3>5
  <2> QED BY <1>2, <2>1, <2>2
<1>8. CASE tbl = Catchall /\ op.key \in {<<"chat">>, <<>>} /\ op.gate = "paid"
  <2>1. PICK i \in DOMAIN tbl : r = TableRule(o, auth, i)
    BY <1>1, <1>2, <1>3, <1>4, <1>5, <1>8
  <2>2. tbl[i].gate = "paid"
    <3>1. DOMAIN Catchall = {1} /\ Catchall[1].gate = "paid"
      BY DEF Catchall
    <3> QED BY <1>8, <3>1
  <2>3. r.gate = tbl[i].gate
    BY <2>1 DEF TableRule, Rule
  <2> QED BY <1>8, <2>2, <2>3
<1>9. CASE /\ OpenAPIPathsForRouteTable(tbl) \subseteq OpenAPIPathsForOffer(o, store[o])
           /\ \E i \in DOMAIN tbl : op.key = tbl[i].segs
  <2>1. PICK i \in DOMAIN tbl : op.key = tbl[i].segs
    BY <1>9
  <2>2. op.key \in Seq(Segment) /\ tbl[i].wild \in BOOLEAN /\ i < Len(tbl) + 1
    BY <2>1, EntryTyped
  <2>3. p \in Seq(Segment) /\ TableRule(o, auth, i) \in wired
    BY <1>2, <1>3, <2>2, RulesThere
  <2>4. TableRule(o, auth, i).offer = o /\ TableRule(o, auth, i).segs = p
        /\ TableRule(o, auth, i).wild = tbl[i].wild /\ TableRule(o, auth, i).at = i
    BY <2>1 DEF TableRule, Rule
  <2>5. CASE \E j \in DOMAIN tbl : r = TableRule(o, auth, j)
    <3>1. PICK j \in DOMAIN tbl : r = TableRule(o, auth, j)
      BY <2>5
    <3>2. r.segs = Base[o] \o tbl[j].segs /\ r.wild = tbl[j].wild /\ r.gate = tbl[j].gate
      <4>1. r.segs = Base[o] \o tbl[j].segs /\ r.gate = tbl[j].gate
        <5>1. /\ TableRule(o, auth, j).segs = Base[o] \o tbl[j].segs
              /\ TableRule(o, auth, j).gate = tbl[j].gate
          BY DEF TableRule, Rule
        <5> QED BY <3>1, <5>1, Zenon
      <4>2. r.wild = tbl[j].wild
        BY <3>1 DEF TableRule, Rule
      <4> QED BY <4>1, <4>2
    <3>3. tbl[j].segs \in Seq(Segment) /\ tbl[j].wild \in BOOLEAN
      BY EntryTyped
    <3>4. r.segs \in Seq(Segment) /\ r.wild \in BOOLEAN /\ TableRule(o, auth, i).wild \in BOOLEAN
      BY <1>1, <2>2, <2>4, <3>2, <3>3
    <3>5. r.segs = p
      BY <2>3, <2>4, <3>4, FoundAtPath
    <3>6. \E q \in OpenAPIPathsForRouteTable(tbl) : q.key = tbl[j].segs /\ q.gate = tbl[j].gate
      BY <1>2, <2>3, <3>1, <3>5, FoundIsDocumented
    <3> QED BY <1>9, <3>2, <3>5, <3>6
  <2>6. CASE store[o].async /\ r = JobsRule(o, auth)
    <3>1. r.segs = Base[o] \o <<"jobs">> /\ r.wild = TRUE /\ r.at = Len(tbl) + 1
      BY <2>6 DEF JobsRule, Rule
    <3>2. r.segs \in Seq(Segment) /\ r.wild \in BOOLEAN /\ TableRule(o, auth, i).wild \in BOOLEAN
      <4>1. <<"jobs">> \in Seq(Segment)
        BY DEF Segment
      <4>2. r.segs \in Seq(Segment)
        BY <1>1, <3>1, <4>1
      <4>3. r.wild \in BOOLEAN
        BY <3>1
      <4>4. TableRule(o, auth, i).wild \in BOOLEAN
        BY <2>2, <2>4
      <4> QED BY <4>2, <4>3, <4>4
    <3>3. /\ ~TableRule(o, auth, i).wild => ~r.wild
          /\ TableRule(o, auth, i).wild = r.wild => ~(TableRule(o, auth, i).at < r.at)
      BY <2>3, <2>4, <3>2, FoundAtPath
    <3>4. FALSE
      BY <2>2, <2>4, <3>1, <3>2, <3>3
    <3> QED BY <3>4
  <2> QED BY <1>2, <2>5, <2>6
<1> QED BY <1>6, <1>7, <1>8, <1>9, DocumentedOps

\* What the controller's document says of a path is what the verifier does there,
\* for every offer, path and set of route tables: the gate of the rule a request
\* meets is a documented gate of the path, unless the offer declares over what its
\* document says by itself (openAPIPathsForRouteTable, sortRoutesBySpecificity).
THEOREM AdvertisedHolds == GatewaySpec => []AdvertisedIsEnforced
<1>1. GatewayInv => AdvertisedIsEnforced
  <2> SUFFICES ASSUME GatewayInv, focus = "requests", NEW o \in Offers, NEW p \in Paths,
                      NEW first \in {op \in OpenAPIPathsForOffer(o, store[o]) : PublicPath(o, op) = p},
                      \A op \in {op \in OpenAPIPathsForOffer(o, store[o]) : PublicPath(o, op) = p}
                                 \cap SaidByItself(o, store[o]) : ~Overruled(store[o], op),
                      NEW r \in MatchRoute(config.routes, p), r.offer = o
               PROVE  r.gate \in {op.gate : op \in {op \in OpenAPIPathsForOffer(o, store[o]) : PublicPath(o, op) = p}}
    BY DEF AdvertisedIsEnforced
  <2>1. store \in [Offers -> Copy] /\ config.routes = RoutesFromStore(store, secret)
    BY DEF GatewayInv, RoutesInv, Frozen, GatesInv, Rendered
  <2>2. first \in OpenAPIPathsForOffer(o, store[o]) /\ PublicPath(o, first) = p
    OBVIOUS
  <2>3. first \in SaidByItself(o, store[o]) => ~Overruled(store[o], first)
    OBVIOUS
  <2>4. \E q \in OpenAPIPathsForOffer(o, store[o]) : PublicPath(o, q) = p /\ q.gate = r.gate
    BY <2>1, <2>2, <2>3, AdvertisedAt
  <2> QED BY <2>4
<1> QED
  BY <1>1, GatewayInitial, GatewayStep, PTL DEF GatewaySpec

-----------------------------------------------------------------------------
(* Models: the inductive invariant *)

\* The commands, by the fields they carry; a step changes pc only.
SetupCommands ==
    [pc : {"secret", "entries", "hotadd", "restart", "promote", "record", "sync", "end"},
     entry : [name : OperatorModels, at : 1..3], key : {0} \cup Keys,
     promotes : BOOLEAN, records : BOOLEAN, sync : BOOLEAN]
PreferCommands == [pc : {"record", "sync", "end"}, sync : BOOLEAN]
RemoveCommands ==
    [pc : {"hotdelete", "record", "sync", "end"}, name : OperatorModels, sync : BOOLEAN]
UpCommands == [pc : {"idle", "auto", "autorestart", "reconcile", "upsync"}]
KeysCommands == [pc : {"keys", "uprestart", "upsync"}, listed : BOOLEAN]
ModelCommands ==
    SetupCommands \cup PreferCommands \cup RemoveCommands \cup UpCommands \cup KeysCommands

BeforeReconcile == {"auto", "autorestart", "reconcile"}
AfterReconcile == {"keys", "uprestart", "upsync"}

\* A list names a model once.
NamedOnce(list) == \A i, j \in 1..Len(list) : list[i].name = list[j].name => i = j
RouteList(list) == list \in Seq(ModelEntries) /\ NamedOnce(list)

ValuesOK ==
    /\ secretKey \in {0} \cup Keys /\ routerKey \in {0} \cup Keys /\ hostKey \in {0} \cup Keys
    /\ portUp \in BOOLEAN /\ unsaved \in BOOLEAN /\ replayedUp \in BOOLEAN
    /\ modelFaults \in Nat /\ modelCmds \in Nat
    /\ intent \in [OperatorModels -> 0..3] /\ head \in OperatorModels \cup {NoRoutes}

ListsOK ==
    /\ Up => RouteList(routes)
    /\ modelRec # NoRoutes => modelRec \in ModelRecords
    /\ RouteList(RecordedList)
    /\ \A i \in 1..Len(RecordedList) : RecordedList[i].name \in OperatorModels

CommandOK ==
    /\ modelCmd \in ModelCommands
    /\ modelCmd.pc # "idle" => Up
    /\ modelCmd.pc \in BeforeReconcile \cup AfterReconcile => ~unsaved
    /\ modelCmd.pc = "secret" => modelCmd.key # 0
    /\ modelCmd.pc \in {"hotadd", "restart", "promote", "hotdelete"} => unsaved
    /\ modelCmd.pc \in {"hotadd", "restart", "promote"} => Lists(routes, modelCmd.entry.name)
    /\ modelCmd.pc = "hotdelete" => ~Lists(routes, modelCmd.name)
    /\ modelCmd.pc = "keys" => modelRec # NoRoutes

\* A list names n after nothing but names of skip.
Leads(list, n, skip) ==
    \E i \in 1..Len(list) : /\ list[i].name = n /\ n \notin skip
                            /\ \A j \in 1..(i - 1) : list[j].name \in skip

\* What the operator set up is in a list as it was set up, and the name promoted
\* last is before every other that is recorded.
Unrecorded == {CatchAll, PaidModel}
HasSetUp(list, setup) ==
    \A n \in OperatorModels : setup[n] # 0 => \E i \in 1..Len(list) : list[i] = Entry(n, setup[n])
HasIntent(list, setup, promoted) ==
    HasSetUp(list, setup) /\ (promoted # NoRoutes => Leads(list, promoted, Unrecorded))

\* The list has it, unless a stack up has yet to put the record back; the record
\* has it when the last change was recorded.
IntentKept ==
    /\ Up /\ modelCmd.pc \notin BeforeReconcile => HasIntent(routes, intent, head)
    /\ ~unsaved => HasIntent(RecordedList, intent, head)
    /\ modelCmd.pc \in AfterReconcile /\ head # NoRoutes => Leads(routes, head, {})

ReplayKept == replayedUp => modelCmd = ModelIdle /\ Up /\ (head # NoRoutes => primary = head)

\* Without a failed call, what the router and the list differ in is what the step
\* under way adds, deletes or restarts for.
RouterNames == {e.name : e \in router}
SameNames == RouterNames = EntryNames(routes)
SameKey == routerKey = secretKey
InStepAt(pc) ==
    /\ pc \in {"idle", "secret", "promote", "record", "sync", "end", "auto", "reconcile", "upsync"} =>
         SameNames /\ SameKey
    /\ pc = "entries" => SameNames /\ (modelCmd.key = 0 => SameKey)
    /\ pc = "hotadd" => SameKey /\ EntryNames(routes) = RouterNames \cup {modelCmd.entry.name}
    /\ pc = "hotdelete" => SameKey /\ EntryNames(routes) = RouterNames \ {modelCmd.name}
    /\ pc = "keys" => SameKey /\ (~modelCmd.listed => SameNames)
RouterInStep == modelFaults = 0 /\ Up => InStepAt(modelCmd.pc)

ModelIInv == ValuesOK /\ ListsOK /\ CommandOK /\ IntentKept /\ ReplayKept /\ RouterInStep

-----------------------------------------------------------------------------
(* Models: lemmas about lists *)

LEMMA FunctionIsSeq ==
    ASSUME NEW S, NEW c \in Nat, NEW s \in [1..c -> S]
    PROVE  s \in Seq(S) /\ Len(s) = c
<1>1. s \in Seq(S)
  BY SeqDef
<1>2. Len(s) \in Nat /\ DOMAIN s = 1..Len(s) /\ DOMAIN s = 1..c
  BY <1>1, LenProperties
<1> QED BY <1>1, <1>2

\* The positions of a list the entries left come from: they rise, and none of an
\* entry that is left is missing.
LEMMA LeavingIs ==
    ASSUME NEW E, NEW list \in Seq(E), NEW names
    PROVE  LET remaining == Leaving(list, names) IN
           /\ remaining \in Seq(E)
           /\ \E from \in [1..Len(remaining) -> 1..Len(list)] :
                /\ \A k \in 1..Len(remaining) : remaining[k] = list[from[k]] /\ list[from[k]].name \notin names
                /\ \A k, m \in 1..Len(remaining) : k < m => from[k] < from[m]
                /\ \A i \in 1..Len(list) : list[i].name \notin names => \E k \in 1..Len(remaining) : from[k] = i
<1> DEFINE K == {i \in 1..Len(list) : list[i].name \notin names}
           Place(i) == Cardinality({k \in K : k <= i})
           c == Cardinality(K)
           f == [i \in K |-> Place(i)]
           At(j) == CHOOSE i \in K : Place(i) = j
           remaining == Leaving(list, names)
<1>1. Len(list) \in Nat /\ \A i \in 1..Len(list) : list[i] \in E
  BY ElementOfSeq, LenProperties
<1>2. IsFiniteSet(K) /\ c \in Nat
  <2>1. IsFiniteSet(1..Len(list))
    BY <1>1, FS_Interval
  <2> QED BY <2>1, FS_Subset, FS_CardinalityType
<1>3. \A T \in SUBSET K : IsFiniteSet(T) /\ Cardinality(T) \in Nat /\ Cardinality(T) <= c
  BY <1>2, FS_Subset, FS_CardinalityType
<1>4. K \subseteq 1..Len(list) /\ K \subseteq Int
  OBVIOUS
<1>5. ASSUME NEW i \in K
      PROVE  Place(i) \in 1..c
  <2>1. Place(i) \in Nat /\ Place(i) <= c /\ IsFiniteSet({k \in K : k <= i})
    BY <1>3
  <2>2. i \in {k \in K : k <= i}
    BY <1>4
  <2>3. Place(i) # 0
    BY <2>1, <2>2, FS_EmptySet
  <2> QED BY <1>2, <2>1, <2>3
<1>6. ASSUME NEW i \in K, NEW j \in K, i < j
      PROVE  Place(i) < Place(j)
  <2> HIDE DEF K
  <2>a. \A k \in K : k <= i => k <= j
    BY <1>4, <1>6
  <2>1. {k \in K : k <= i} \in SUBSET {k \in K : k <= j}
    BY <2>a
  <2>2. j \in {k \in K : k <= j} /\ j \notin {k \in K : k <= i}
    BY <1>4, <1>6
  <2>3. IsFiniteSet({k \in K : k <= j})
    BY <1>3
  <2>4. Place(i) <= Place(j) /\ Place(i) # Place(j)
    BY <2>1, <2>2, <2>3, FS_Subset
  <2>5. Place(i) \in Nat /\ Place(j) \in Nat
    BY <1>3
  <2> QED BY <2>4, <2>5
<1>7. f \in Injection(K, 1..c)
  <2>1. f \in [K -> 1..c]
    BY <1>5
  <2>2. ASSUME NEW i \in K, NEW j \in K, f[i] = f[j]
        PROVE  i = j
    <3>1. Place(i) = Place(j) /\ Place(i) \in Nat
      BY <1>3, <2>2
    <3> HIDE DEF Place, K
    <3> QED BY <1>4, <1>6, <3>1
  <2> HIDE DEF f, c, K
  <2> QED BY <2>1, <2>2 DEF Injection, IsInjective
<1>8. \A j \in 1..c : \E i \in K : Place(i) = j
  <2>1. Cardinality(1..c) = c /\ IsFiniteSet(1..c)
    BY <1>2, FS_Interval
  <2>2. f \in Surjection(K, 1..c)
    <3> HIDE DEF f, K
    <3> QED BY <1>7, <2>1, FS_Injection
  <2>3. \A j \in 1..c : \E i \in K : f[i] = j
    <3> HIDE DEF f, K, c
    <3> QED BY <2>2 DEF Surjection
  <2> QED BY <2>3
<1>9. \A j \in 1..c : At(j) \in K /\ Place(At(j)) = j
  <2> HIDE DEF K, Place, c
  <2> QED BY <1>8
<1>10. remaining = [j \in 1..c |-> list[At(j)]]
  BY DEF Leaving
<1> HIDE DEF K, Place, c, At, remaining
<1>11. remaining \in Seq(E) /\ Len(remaining) = c
  <2>1. remaining \in [1..c -> E]
    <3>1. \A i \in K : list[i] \in E
      BY <1>1, <1>4
    <3>2. ASSUME NEW j \in 1..c
          PROVE  list[At(j)] \in E
      BY <1>9, <3>1
    <3> QED BY <1>10, <3>2
  <2> QED BY <1>2, <2>1, FunctionIsSeq
<1> DEFINE from == [j \in 1..c |-> At(j)]
<1>12. from \in [1..Len(remaining) -> 1..Len(list)]
  BY <1>4, <1>9, <1>11
<1>13. \A k \in 1..c : remaining[k] = list[from[k]] /\ list[from[k]].name \notin names
  <2>1. \A i \in K : list[i].name \notin names
    BY DEF K
  <2> QED BY <1>9, <1>10, <2>1
<1>14. ASSUME NEW k \in 1..c, NEW m \in 1..c, k < m
       PROVE  from[k] < from[m]
  <2>1. At(k) \in K /\ At(m) \in K /\ Place(At(k)) = k /\ Place(At(m)) = m
    BY <1>9
  <2>2. At(k) # At(m) /\ ~(At(m) < At(k))
    <3>1. k \in Int /\ m \in Int
      BY <1>2
    <3>2. At(m) < At(k) => Place(At(m)) < Place(At(k))
      BY <1>6, <2>1
    <3> QED BY <1>14, <2>1, <3>1, <3>2
  <2>3. At(k) \in Int /\ At(m) \in Int
    BY <1>4, <2>1
  <2> QED BY <2>2, <2>3
<1>15. ASSUME NEW i \in 1..Len(list), list[i].name \notin names
       PROVE  \E k \in 1..c : from[k] = i
  <2>1. i \in K
    BY <1>15 DEF K
  <2>2. Place(i) \in 1..c /\ At(Place(i)) \in K /\ Place(At(Place(i))) = Place(i)
    BY <1>5, <1>9, <2>1
  <2>3. At(Place(i)) = i
    <3>a. \A k \in K : k \in Int
      BY <1>4
    <3>b. \A k \in 1..c : k \in Int
      BY <1>2
    <3>1. i \in Int /\ At(Place(i)) \in Int /\ Place(i) \in Int
      BY <3>a, <3>b, <2>1, <2>2
    <3>2. /\ i < At(Place(i)) => Place(i) < Place(At(Place(i)))
          /\ At(Place(i)) < i => Place(At(Place(i))) < Place(i)
      BY <1>6, <2>1, <2>2
    <3> QED BY <2>2, <3>1, <3>2
  <2> QED BY <2>2, <2>3
<1> HIDE DEF from
<1> QED BY <1>11, <1>12, <1>13, <1>14, <1>15 DEF remaining

\* What leaving names does to a list that names a model once.
LEMMA LeavingKeeps ==
    ASSUME NEW list, RouteList(list), NEW names
    PROVE  LET remaining == Leaving(list, names) IN
           /\ RouteList(remaining)
           /\ EntryNames(remaining) = EntryNames(list) \ names
           /\ \A i \in 1..Len(list) : list[i].name \notin names => \E k \in 1..Len(remaining) : remaining[k] = list[i]
           /\ \A n, skip : Leads(list, n, skip) /\ n \notin names => Leads(remaining, n, skip)
<1> DEFINE remaining == Leaving(list, names)
<1>1. list \in Seq(ModelEntries) /\ NamedOnce(list) /\ Len(list) \in Nat
  BY LenProperties DEF RouteList
<1>2. remaining \in Seq(ModelEntries) /\ Len(remaining) \in Nat
  BY <1>1, LeavingIs, LenProperties
<1>3. PICK from \in [1..Len(remaining) -> 1..Len(list)] :
        /\ \A k \in 1..Len(remaining) : remaining[k] = list[from[k]] /\ list[from[k]].name \notin names
        /\ \A k, m \in 1..Len(remaining) : k < m => from[k] < from[m]
        /\ \A i \in 1..Len(list) : list[i].name \notin names => \E k \in 1..Len(remaining) : from[k] = i
  BY <1>1, LeavingIs
<1> HIDE DEF remaining
<1>4. NamedOnce(remaining)
  <2> SUFFICES ASSUME NEW k \in 1..Len(remaining), NEW m \in 1..Len(remaining), remaining[k].name = remaining[m].name
               PROVE  k = m
    BY DEF NamedOnce
  <2>1. from[k] = from[m]
    <3>1. from[k] \in 1..Len(list) /\ from[m] \in 1..Len(list)
      BY <1>3
    <3>2. list[from[k]].name = list[from[m]].name
      BY <1>3
    <3> QED BY <1>1, <3>1, <3>2 DEF NamedOnce
  <2>2. from[k] \in Int /\ k \in Int /\ m \in Int
    BY <1>1, <1>2, <1>3
  <2> QED BY <1>3, <2>1, <2>2
<1>5. EntryNames(remaining) = EntryNames(list) \ names
  <2>1. EntryNames(remaining) \subseteq EntryNames(list) \ names
    BY <1>3 DEF EntryNames
  <2>2. EntryNames(list) \ names \subseteq EntryNames(remaining)
    BY <1>3 DEF EntryNames
  <2> QED BY <2>1, <2>2
<1>6. \A i \in 1..Len(list) : list[i].name \notin names => \E k \in 1..Len(remaining) : remaining[k] = list[i]
  BY <1>3
<1>7. ASSUME NEW n, NEW skip, Leads(list, n, skip), n \notin names
      PROVE  Leads(remaining, n, skip)
  <2>1. PICK i \in 1..Len(list) : list[i].name = n /\ n \notin skip /\ \A j \in 1..(i - 1) : list[j].name \in skip
    BY <1>7 DEF Leads
  <2>2. PICK k \in 1..Len(remaining) : from[k] = i
    BY <1>3, <1>7, <2>1
  <2>3. ASSUME NEW j \in 1..(k - 1)
        PROVE  remaining[j].name \in skip
    <3>1. j \in 1..Len(remaining) /\ j < k
      BY <1>2, <2>2
    <3>2. from[j] \in 1..(i - 1)
      BY <1>1, <1>3, <2>2, <3>1
    <3> QED BY <1>3, <2>1, <3>1, <3>2
  <2>4. remaining[k].name = n
    BY <1>3, <2>1, <2>2
  <2> QED BY <2>1, <2>3, <2>4 DEF Leads
<1> QED BY <1>2, <1>4, <1>5, <1>6, <1>7 DEF RouteList, remaining

\* What is left of a list starts with the first entry that is not left out.
LEMMA FirstLeft ==
    ASSUME NEW list, RouteList(list), NEW names, NEW n, n # NoRoutes
    PROVE  First(Leaving(list, names)) = n <=> Leads(list, n, names)
<1> DEFINE remaining == Leaving(list, names)
<1>1. list \in Seq(ModelEntries) /\ Len(list) \in Nat
  BY LenProperties DEF RouteList
<1>2. remaining \in Seq(ModelEntries) /\ Len(remaining) \in Nat
  BY <1>1, LeavingIs, LenProperties
<1>3. PICK from \in [1..Len(remaining) -> 1..Len(list)] :
        /\ \A k \in 1..Len(remaining) : remaining[k] = list[from[k]] /\ list[from[k]].name \notin names
        /\ \A k, m \in 1..Len(remaining) : k < m => from[k] < from[m]
        /\ \A i \in 1..Len(list) : list[i].name \notin names => \E k \in 1..Len(remaining) : from[k] = i
  BY <1>1, LeavingIs
<1> HIDE DEF remaining
<1>4. remaining = <<>> <=> Len(remaining) = 0
  BY <1>2, EmptySeq
<1>5. ASSUME First(remaining) = n
      PROVE  Leads(list, n, names)
  <2>1. remaining # <<>> /\ remaining[1].name = n
    BY <1>5 DEF First
  <2>2. 1 \in 1..Len(remaining)
    BY <1>2, <1>4, <2>1
  <2>3. from[1] \in 1..Len(list) /\ list[from[1]].name = n /\ n \notin names
    BY <1>3, <2>1, <2>2
  <2>4. ASSUME NEW j \in 1..(from[1] - 1), list[j].name \notin names
        PROVE  FALSE
    <3>1. j \in 1..Len(list) /\ j < from[1]
      BY <1>1, <2>3
    <3>2. PICK k \in 1..Len(remaining) : from[k] = j
      BY <1>3, <2>4, <3>1
    <3>3. k # 1 /\ 1 < k
      BY <1>2, <2>3, <3>1, <3>2
    <3>4. from[1] < from[k]
      BY <1>3, <2>2, <3>3
    <3> QED BY <1>1, <2>3, <3>1, <3>2, <3>4
  <2> QED BY <2>3, <2>4 DEF Leads
<1>6. ASSUME Leads(list, n, names)
      PROVE  First(remaining) = n
  <2>1. PICK i \in 1..Len(list) : list[i].name = n /\ n \notin names /\ \A j \in 1..(i - 1) : list[j].name \in names
    BY <1>6 DEF Leads
  <2>2. PICK k \in 1..Len(remaining) : from[k] = i
    BY <1>3, <2>1
  <2>3. 1 \in 1..Len(remaining) /\ remaining # <<>>
    BY <1>2, <1>4, <2>2
  <2>4. k = 1
    <3>1. SUFFICES ASSUME 1 < k
                   PROVE  FALSE
      BY <1>2, <2>2
    <3>2. from[1] \in 1..(i - 1)
      BY <1>1, <1>3, <2>2, <2>3, <3>1
    <3>3. list[from[1]].name \in names
      BY <2>1, <3>2
    <3>4. list[from[1]].name \notin names
      BY <1>3, <2>3
    <3> QED BY <3>3, <3>4
  <2> QED BY <1>3, <2>1, <2>2, <2>3, <2>4 DEF First
<1> QED BY <1>5, <1>6 DEF remaining

LEMMA NamedIs ==
    ASSUME NEW list, RouteList(list), NEW i \in 1..Len(list)
    PROVE  Lists(list, list[i].name) /\ Named(list, list[i].name) = list[i]
<1> DEFINE P(j) == list[j].name = list[i].name
<1>1. (CHOOSE j \in 1..Len(list) : P(j)) = i
  <2>1. \A j \in 1..Len(list) : P(j) => j = i
    BY DEF RouteList, NamedOnce
  <2>2. P(i)
    OBVIOUS
  <2> QED BY <2>1, <2>2
<1> QED BY <1>1 DEF Lists, Named

\* The longer of two lists keeps the head of the other.
LEMMA PatchKeeps ==
    ASSUME NEW list, RouteList(list), NEW e \in ModelEntries
    PROVE  LET new == PatchLiteLLMConfig(list, e) IN
           /\ RouteList(new)
           /\ EntryNames(new) = EntryNames(list) \cup {e.name}
           /\ \E k \in 1..Len(new) : new[k] = e
           /\ \A i \in 1..Len(list) : list[i].name # e.name => \E k \in 1..Len(new) : new[k] = list[i]
           /\ \A n, skip : Leads(list, n, skip) => Leads(new, n, skip)
<1> DEFINE new == PatchLiteLLMConfig(list, e)
<1>1. /\ list \in Seq(ModelEntries) /\ NamedOnce(list) /\ Len(list) \in Nat
      /\ \A i \in 1..Len(list) : list[i] \in ModelEntries
  BY ElementOfSeq, LenProperties DEF RouteList
<1>2. CASE Lists(list, e.name)
  <2>1. new = [i \in 1..Len(list) |-> IF list[i].name = e.name THEN e ELSE list[i]]
    <3>1. DOMAIN list = 1..Len(list)
      BY <1>1, LenProperties
    <3> QED BY <1>2, <3>1 DEF PatchLiteLLMConfig
  <2> HIDE DEF new
  <2>2. new \in Seq(ModelEntries) /\ Len(new) = Len(list)
    <3>1. new \in [1..Len(list) -> ModelEntries]
      BY <1>1, <2>1
    <3> QED BY <1>1, <3>1, FunctionIsSeq
  <2>3. \A i \in 1..Len(list) : new[i].name = list[i].name
    BY <2>1
  <2>4. NamedOnce(new)
    BY <1>1, <2>2, <2>3 DEF NamedOnce
  <2>5. PICK k \in 1..Len(list) : list[k].name = e.name
    BY <1>2 DEF Lists
  <2>6. new[k] = e
    BY <2>1, <2>5
  <2>7. \A i \in 1..Len(list) : list[i].name # e.name => new[i] = list[i]
    BY <2>1
  <2>8. EntryNames(new) = EntryNames(list) /\ e.name \in EntryNames(list)
    BY <2>2, <2>3, <2>5 DEF EntryNames
  <2>9. ASSUME NEW n, NEW skip, Leads(list, n, skip)
        PROVE  Leads(new, n, skip)
    <3>1. PICK i \in 1..Len(list) : list[i].name = n /\ n \notin skip /\ \A j \in 1..(i - 1) : list[j].name \in skip
      BY <2>9 DEF Leads
    <3>2. \A j \in 1..(i - 1) : new[j].name \in skip
      BY <1>1, <2>3, <3>1
    <3> QED BY <2>2, <2>3, <3>1, <3>2 DEF Leads
  <2> QED BY <2>2, <2>4, <2>6, <2>7, <2>8, <2>9 DEF RouteList, new
<1>3. CASE ~Lists(list, e.name)
  <2>1. new = Append(list, e)
    BY <1>3 DEF PatchLiteLLMConfig
  <2> HIDE DEF new
  <2>2. /\ new \in Seq(ModelEntries) /\ Len(new) = Len(list) + 1
        /\ \A i \in 1..Len(list) : new[i] = list[i]
        /\ new[Len(list) + 1] = e
    BY <1>1, <2>1, AppendProperties
  <2>3. \A i \in 1..Len(list) : list[i].name # e.name
    BY <1>3 DEF Lists
  <2>4. \A i \in 1..Len(new) : i \in 1..Len(list) \/ i = Len(list) + 1
    BY <1>1, <2>2
  <2>5. \A i \in 1..Len(list) : i \in 1..Len(new)
    BY <1>1, <2>2
  <2>6. Len(list) + 1 \in 1..Len(new)
    BY <1>1, <2>2
  <2>7. NamedOnce(new)
    BY <1>1, <2>2, <2>3, <2>4 DEF NamedOnce
  <2>8. EntryNames(new) = EntryNames(list) \cup {e.name}
    BY <2>2, <2>4, <2>5, <2>6 DEF EntryNames
  <2>9. ASSUME NEW n, NEW skip, Leads(list, n, skip)
        PROVE  Leads(new, n, skip)
    <3>1. PICK i \in 1..Len(list) : list[i].name = n /\ n \notin skip /\ \A j \in 1..(i - 1) : list[j].name \in skip
      BY <2>9 DEF Leads
    <3>2. \A j \in 1..(i - 1) : new[j].name \in skip
      BY <1>1, <2>2, <3>1
    <3> QED BY <2>2, <2>5, <3>1, <3>2 DEF Leads
  <2> QED BY <2>2, <2>5, <2>6, <2>7, <2>8, <2>9 DEF RouteList, new
<1> QED BY <1>2, <1>3

\* The entries of a list behind those of another that names none of them.
LEMMA JoinKeeps ==
    ASSUME NEW a, NEW b, RouteList(a), RouteList(b), EntryNames(a) \cap EntryNames(b) = {}
    PROVE  /\ RouteList(a \o b) /\ EntryNames(a \o b) = EntryNames(a) \cup EntryNames(b)
           /\ \A i \in 1..Len(a) : i \in 1..Len(a \o b) /\ (a \o b)[i] = a[i]
           /\ \A i \in 1..Len(b) : \E k \in 1..Len(a \o b) : (a \o b)[k] = b[i]
<1>1. a \in Seq(ModelEntries) /\ b \in Seq(ModelEntries) /\ NamedOnce(a) /\ NamedOnce(b)
  BY DEF RouteList
<1>2. Len(a) \in Nat /\ Len(b) \in Nat
  BY <1>1, LenProperties
<1> DEFINE new == a \o b
<1>3. /\ new \in Seq(ModelEntries) /\ Len(new) = Len(a) + Len(b)
      /\ \A i \in 1..(Len(a) + Len(b)) : new[i] = IF i <= Len(a) THEN a[i] ELSE b[i - Len(a)]
  BY <1>1, ConcatProperties
<1> HIDE DEF new
<1>4. \A i \in 1..Len(a) : i \in 1..Len(new) /\ new[i] = a[i]
  BY <1>2, <1>3
<1>5. \A i \in 1..Len(b) : Len(a) + i \in 1..Len(new) /\ new[Len(a) + i] = b[i]
  <2> SUFFICES ASSUME NEW i \in 1..Len(b)
               PROVE  Len(a) + i \in 1..Len(new) /\ new[Len(a) + i] = b[i]
    OBVIOUS
  <2>1. Len(a) + i \in 1..(Len(a) + Len(b)) /\ ~(Len(a) + i <= Len(a)) /\ Len(a) + i - Len(a) = i
    BY <1>2
  <2> QED BY <1>3, <2>1
<1>6. \A k \in 1..Len(new) : k \in 1..Len(a) \/ \E i \in 1..Len(b) : k = Len(a) + i
  <2> SUFFICES ASSUME NEW k \in 1..Len(new), k \notin 1..Len(a)
               PROVE  \E i \in 1..Len(b) : k = Len(a) + i
    OBVIOUS
  <2>1. k - Len(a) \in 1..Len(b) /\ k = Len(a) + (k - Len(a))
    BY <1>2, <1>3
  <2> QED BY <2>1
<1>7. NamedOnce(new)
  <2> SUFFICES ASSUME NEW k \in 1..Len(new), NEW m \in 1..Len(new), new[k].name = new[m].name
               PROVE  k = m
    BY DEF NamedOnce
  <2>1. CASE k \in 1..Len(a) /\ m \in 1..Len(a)
    BY <1>1, <1>4, <2>1 DEF NamedOnce
  <2>2. CASE k \notin 1..Len(a) /\ m \notin 1..Len(a)
    <3>1. PICK i \in 1..Len(b) : k = Len(a) + i
      BY <1>6, <2>2
    <3>2. PICK j \in 1..Len(b) : m = Len(a) + j
      BY <1>6, <2>2
    <3>3. b[i].name = b[j].name
      BY <1>5, <3>1, <3>2
    <3> QED BY <1>1, <3>1, <3>2, <3>3 DEF NamedOnce
  <2>3. CASE k \in 1..Len(a) /\ m \notin 1..Len(a)
    <3>1. PICK j \in 1..Len(b) : m = Len(a) + j
      BY <1>6, <2>3
    <3>2. a[k].name = b[j].name
      BY <1>4, <1>5, <2>3, <3>1
    <3> QED BY <2>3, <3>2 DEF EntryNames
  <2>4. CASE k \notin 1..Len(a) /\ m \in 1..Len(a)
    <3>1. PICK i \in 1..Len(b) : k = Len(a) + i
      BY <1>6, <2>4
    <3>2. b[i].name = a[m].name
      BY <1>4, <1>5, <2>4, <3>1
    <3> QED BY <2>4, <3>2 DEF EntryNames
  <2> QED BY <2>1, <2>2, <2>3, <2>4
<1>8. EntryNames(new) = EntryNames(a) \cup EntryNames(b)
  <2>1. EntryNames(new) \subseteq EntryNames(a) \cup EntryNames(b)
    <3> SUFFICES ASSUME NEW k \in 1..Len(new)
                 PROVE  new[k].name \in EntryNames(a) \cup EntryNames(b)
      BY DEF EntryNames
    <3>1. CASE k \in 1..Len(a)
      BY <1>4, <3>1 DEF EntryNames
    <3>2. CASE k \notin 1..Len(a)
      <4>1. PICK i \in 1..Len(b) : k = Len(a) + i
        BY <1>6, <3>2
      <4>2. new[k].name = b[i].name
        BY <1>5, <4>1
      <4> QED BY <4>2 DEF EntryNames
    <3> QED BY <3>1, <3>2
  <2>2. EntryNames(a) \subseteq EntryNames(new)
    BY <1>4 DEF EntryNames
  <2>3. EntryNames(b) \subseteq EntryNames(new)
    <3> SUFFICES ASSUME NEW i \in 1..Len(b)
                 PROVE  b[i].name \in EntryNames(new)
      BY DEF EntryNames
    <3>1. Len(a) + i \in 1..Len(new) /\ new[Len(a) + i].name = b[i].name
      BY <1>5
    <3> HIDE DEF new
    <3> QED BY <3>1 DEF EntryNames
  <2> QED BY <2>1, <2>2, <2>3
<1> QED BY <1>3, <1>4, <1>5, <1>7, <1>8 DEF RouteList, new

LEMMA ReorderKeeps ==
    ASSUME NEW list, RouteList(list), NEW n, Lists(list, n)
    PROVE  LET new == ReorderModelList(list, n) IN
           /\ RouteList(new) /\ EntryNames(new) = EntryNames(list)
           /\ \A i \in 1..Len(list) : \E k \in 1..Len(new) : new[k] = list[i]
           /\ \A skip : n \notin skip => Leads(new, n, skip)
<1> DEFINE one == <<Named(list, n)>>
           rest == Leaving(list, {n})
           new == ReorderModelList(list, n)
<1>1. PICK p \in 1..Len(list) : list[p].name = n /\ Named(list, n) = list[p]
  BY NamedIs DEF Lists
<1>2. list[p] \in ModelEntries
  BY ElementOfSeq DEF RouteList
<1>3. one \in Seq(ModelEntries) /\ Len(one) = 1 /\ one[1] = list[p]
  BY <1>1, <1>2
<1>4. RouteList(one) /\ EntryNames(one) = {n}
  <2>1. \A i \in 1..Len(one) : i = 1
    BY <1>3
  <2>2. 1 \in 1..Len(one)
    BY <1>3
  <2> HIDE DEF one
  <2> QED BY <1>1, <1>3, <2>1, <2>2 DEF RouteList, NamedOnce, EntryNames
<1>5. /\ RouteList(rest) /\ EntryNames(rest) = EntryNames(list) \ {n}
      /\ \A i \in 1..Len(list) : list[i].name \notin {n} => \E k \in 1..Len(rest) : rest[k] = list[i]
  BY LeavingKeeps
<1>6. new = one \o rest
  BY DEF ReorderModelList, Without
<1>7. n \in EntryNames(list)
  BY <1>1 DEF EntryNames
<1>a. EntryNames(one) \cap EntryNames(rest) = {}
  BY <1>4, <1>5
<1> HIDE DEF one, rest, new
<1>8. /\ RouteList(new) /\ EntryNames(new) = EntryNames(one) \cup EntryNames(rest)
      /\ \A i \in 1..Len(one) : i \in 1..Len(new) /\ new[i] = one[i]
      /\ \A i \in 1..Len(rest) : \E k \in 1..Len(new) : new[k] = rest[i]
  <2>1. RouteList(one) /\ RouteList(rest)
    BY <1>4, <1>5
  <2>2. /\ RouteList(one \o rest) /\ EntryNames(one \o rest) = EntryNames(one) \cup EntryNames(rest)
        /\ \A i \in 1..Len(one) : i \in 1..Len(one \o rest) /\ (one \o rest)[i] = one[i]
        /\ \A i \in 1..Len(rest) : \E k \in 1..Len(one \o rest) : (one \o rest)[k] = rest[i]
    BY <2>1, <1>a, JoinKeeps
  <2> QED BY <1>6, <2>2
<1>9. 1 \in 1..Len(new) /\ new[1] = list[p]
  <2>1. 1 \in 1..Len(one)
    BY <1>3
  <2> QED BY <1>3, <1>8, <2>1
<1>10. \A i \in 1..Len(list) : \E k \in 1..Len(new) : new[k] = list[i]
  <2> SUFFICES ASSUME NEW i \in 1..Len(list)
               PROVE  \E k \in 1..Len(new) : new[k] = list[i]
    OBVIOUS
  <2>1. CASE list[i].name = n
    <3>1. i = p
      BY <1>1, <2>1 DEF RouteList, NamedOnce
    <3> QED BY <1>9, <3>1
  <2>2. CASE list[i].name # n
    BY <1>5, <1>8, <2>2
  <2> QED BY <2>1, <2>2
<1>11. ASSUME NEW skip, n \notin skip
       PROVE  Leads(new, n, skip)
  <2>1. \A j \in 1..(1 - 1) : FALSE
    OBVIOUS
  <2>2. new[1].name = n
    BY <1>1, <1>9
  <2> QED BY <1>9, <1>11, <2>1, <2>2 DEF Leads
<1>12. EntryNames(new) = EntryNames(list)
  BY <1>4, <1>5, <1>7, <1>8
<1> QED BY <1>8, <1>10, <1>11, <1>12 DEF new

LEMMA MergeKeeps ==
    ASSUME NEW recorded, NEW live, RouteList(recorded), RouteList(live)
    PROVE  LET new == MergeRecorded(recorded, live) IN
           /\ RouteList(new)
           /\ \A i \in 1..Len(recorded) : i \in 1..Len(new) /\ new[i] = recorded[i]
<1> DEFINE rest == Leaving(live, EntryNames(recorded))
<1>1. RouteList(rest) /\ EntryNames(rest) = EntryNames(live) \ EntryNames(recorded)
  BY LeavingKeeps
<1> HIDE DEF rest
<1>2. EntryNames(recorded) \cap EntryNames(rest) = {}
  BY <1>1
<1>3. /\ RouteList(recorded \o rest)
      /\ \A i \in 1..Len(recorded) : i \in 1..Len(recorded \o rest) /\ (recorded \o rest)[i] = recorded[i]
  BY <1>1, <1>2, JoinKeeps
<1> QED BY <1>3 DEF MergeRecorded, rest

\* What is recorded of a list keeps what the operator set up, and in its place.
LEMMA FilterKeeps ==
    ASSUME NEW list, RouteList(list), ModelAssumption
    PROVE  LET new == FilterRecordable(list) IN
           /\ RouteList(new) /\ \A i \in 1..Len(new) : new[i].name \in OperatorModels
           /\ \A setup, promoted : promoted \in OperatorModels \cup {NoRoutes} /\ HasIntent(list, setup, promoted)
                                     => HasIntent(new, setup, promoted)
<1> DEFINE new == FilterRecordable(list)
<1>1. new = Leaving(list, Unrecorded)
  BY DEF FilterRecordable, Unrecorded
<1> HIDE DEF new
<1>2. /\ RouteList(new) /\ EntryNames(new) = EntryNames(list) \ Unrecorded
      /\ \A i \in 1..Len(list) : list[i].name \notin Unrecorded => \E k \in 1..Len(new) : new[k] = list[i]
      /\ \A n, skip : Leads(list, n, skip) /\ n \notin Unrecorded => Leads(new, n, skip)
  BY <1>1, LeavingKeeps
<1>3. ASSUME NEW i \in 1..Len(new)
      PROVE  new[i].name \in OperatorModels
  <2>1. new[i] \in ModelEntries
    BY <1>2, ElementOfSeq DEF RouteList
  <2>2. new[i].name \in EntryNames(new)
    BY DEF EntryNames
  <2> QED BY <1>2, <2>1, <2>2 DEF ModelEntries, Unrecorded
<1>4. \A n \in OperatorModels : n \notin Unrecorded
  BY DEF Unrecorded, ModelAssumption
<1>5. ASSUME NEW setup, NEW promoted \in OperatorModels \cup {NoRoutes}, HasIntent(list, setup, promoted)
      PROVE  HasIntent(new, setup, promoted)
  <2>1. HasSetUp(new, setup)
    <3> SUFFICES ASSUME NEW n \in OperatorModels, setup[n] # 0
                 PROVE  \E i \in 1..Len(new) : new[i] = Entry(n, setup[n])
      BY DEF HasSetUp
    <3>1. PICK i \in 1..Len(list) : list[i] = Entry(n, setup[n])
      BY <1>5 DEF HasIntent, HasSetUp
    <3>2. list[i].name = n
      BY <3>1 DEF Entry
    <3> QED BY <1>2, <1>4, <3>1, <3>2
  <2>2. promoted # NoRoutes => Leads(new, promoted, Unrecorded)
    BY <1>2, <1>4, <1>5 DEF HasIntent
  <2> QED BY <2>1, <2>2 DEF HasIntent
<1> QED BY <1>2, <1>3, <1>5 DEF new

-----------------------------------------------------------------------------
(* Models: lemmas about commands *)

LEMMA CommandShape ==
    ASSUME modelCmd \in ModelCommands
    PROVE  /\ modelCmd.pc = "idle" <=> modelCmd = ModelIdle
           /\ modelCmd.pc \in {"secret", "entries", "hotadd", "restart", "promote"} => modelCmd \in SetupCommands
           /\ modelCmd.pc = "hotdelete" => modelCmd \in RemoveCommands
           /\ modelCmd.pc \in {"record", "sync", "end"} =>
                modelCmd \in SetupCommands \cup PreferCommands \cup RemoveCommands
           /\ modelCmd.pc \in {"auto", "autorestart", "reconcile"} => modelCmd \in UpCommands
           /\ modelCmd.pc \in {"keys", "uprestart"} => modelCmd \in KeysCommands
           /\ modelCmd.pc = "upsync" => modelCmd \in UpCommands \cup KeysCommands
<1>1. /\ modelCmd \in SetupCommands =>
           modelCmd.pc \in {"secret", "entries", "hotadd", "restart", "promote", "record", "sync", "end"}
      /\ modelCmd \in PreferCommands => modelCmd.pc \in {"record", "sync", "end"}
      /\ modelCmd \in RemoveCommands => modelCmd.pc \in {"hotdelete", "record", "sync", "end"}
      /\ modelCmd \in UpCommands => modelCmd.pc \in {"idle", "auto", "autorestart", "reconcile", "upsync"}
      /\ modelCmd \in KeysCommands => modelCmd.pc \in {"keys", "uprestart", "upsync"}
  BY DEF SetupCommands, PreferCommands, RemoveCommands, UpCommands, KeysCommands
<1>2. modelCmd \in UpCommands /\ modelCmd.pc = "idle" => modelCmd = ModelIdle
  BY DEF UpCommands, ModelIdle
<1>3. modelCmd = ModelIdle => modelCmd.pc = "idle"
  BY DEF ModelIdle
<1> QED BY <1>1, <1>2, <1>3 DEF ModelCommands

\* A step of a command leaves what it carries.
LEMMA GotoKeeps ==
    ASSUME modelCmd \in ModelCommands, NEW pc, Goto(pc)
    PROVE  /\ modelCmd'.pc = pc
           /\ modelCmd \in SetupCommands =>
                modelCmd'.entry = modelCmd.entry /\ modelCmd'.key = modelCmd.key
           /\ modelCmd \in RemoveCommands => modelCmd'.name = modelCmd.name
           /\ modelCmd \in KeysCommands => modelCmd'.listed = modelCmd.listed
           /\ modelCmd \in SetupCommands
                /\ pc \in {"secret", "entries", "hotadd", "restart", "promote", "record", "sync", "end"}
                => modelCmd' \in SetupCommands
           /\ modelCmd \in PreferCommands /\ pc \in {"record", "sync", "end"} => modelCmd' \in PreferCommands
           /\ modelCmd \in RemoveCommands /\ pc \in {"hotdelete", "record", "sync", "end"}
                => modelCmd' \in RemoveCommands
           /\ modelCmd \in UpCommands /\ pc \in {"idle", "auto", "autorestart", "reconcile", "upsync"}
                => modelCmd' \in UpCommands
           /\ modelCmd \in KeysCommands /\ pc \in {"keys", "uprestart", "upsync"} => modelCmd' \in KeysCommands
<1>1. modelCmd' = [modelCmd EXCEPT !.pc = pc]
  BY DEF Goto
<1>2. CASE modelCmd \in SetupCommands
  BY <1>1, <1>2 DEF SetupCommands, PreferCommands, RemoveCommands, UpCommands, KeysCommands
<1>3. CASE modelCmd \in PreferCommands
  BY <1>1, <1>3 DEF SetupCommands, PreferCommands, RemoveCommands, UpCommands, KeysCommands
<1>4. CASE modelCmd \in RemoveCommands
  BY <1>1, <1>4 DEF SetupCommands, PreferCommands, RemoveCommands, UpCommands, KeysCommands
<1>5. CASE modelCmd \in UpCommands
  BY <1>1, <1>5 DEF SetupCommands, PreferCommands, RemoveCommands, UpCommands, KeysCommands
<1>6. CASE modelCmd \in KeysCommands
  BY <1>1, <1>6 DEF SetupCommands, PreferCommands, RemoveCommands, UpCommands, KeysCommands
<1> QED BY <1>2, <1>3, <1>4, <1>5, <1>6 DEF ModelCommands

LEMMA ListsSame ==
    ASSUME ListsOK, UNCHANGED <<routes, modelRec>>
    PROVE  ListsOK' /\ RecordedList' = RecordedList /\ (Up' <=> Up)
BY DEF ListsOK, RecordedList, Up, RouteList, NamedOnce

\* The pods that start have the names of the list and the key of the Secret.
LEMMA RolledInStep ==
    ASSUME Rolled, UNCHANGED <<routes, secretKey>>
    PROVE  SameNames' /\ SameKey'
<1>1. router' = {routes[i] : i \in 1..Len(routes)} /\ routerKey' = secretKey
  BY DEF Rolled, RouteEntries
<1>2. {e.name : e \in router'} = {routes[i].name : i \in 1..Len(routes)}
  BY <1>1
<1>3. RouterNames' = {e.name : e \in router'} /\ EntryNames(routes)' = {routes'[i].name : i \in 1..Len(routes')}
  BY DEF RouterNames, EntryNames
<1> QED BY <1>1, <1>2, <1>3 DEF SameNames, SameKey

\* A call that failed is all it takes.
LEMMA FaultTold ==
    ASSUME ModelFault, modelFaults \in Nat
    PROVE  RouterInStep' /\ modelFaults' \in Nat
BY DEF ModelFault, RouterInStep

\* A command that is under way: the cluster is there, and no stack up was the last.
LEMMA Busy ==
    ASSUME ModelIInv, modelCmd.pc # "idle"
    PROVE  replayedUp = FALSE /\ Up /\ RouteList(routes) /\ modelCmd # ModelIdle
BY CommandShape DEF ModelIInv, CommandOK, ReplayKept, ValuesOK, ListsOK, ModelIdle

-----------------------------------------------------------------------------
(* Models: the commands keep the invariant *)

\* Where a step leaves the lists and what the operator set up, the place of the
\* command is all that counts.
LEMMA IntentSame ==
    ASSUME IntentKept, UNCHANGED <<routes, modelRec, intentVars>>,
           modelCmd'.pc \notin BeforeReconcile => modelCmd.pc \notin BeforeReconcile,
           modelCmd'.pc \in AfterReconcile => modelCmd.pc \in AfterReconcile
    PROVE  IntentKept'
<1>1. RecordedList' = RecordedList
  BY DEF RecordedList
<1>2. /\ HasIntent(routes, intent, head)' = HasIntent(routes, intent, head)
      /\ HasIntent(RecordedList, intent, head)' = HasIntent(RecordedList, intent, head)
      /\ Leads(routes, head, {})' = Leads(routes, head, {})
  BY <1>1 DEF intentVars, HasIntent, HasSetUp, Leads
<1> QED BY <1>2 DEF IntentKept, Up, intentVars

LEMMA SetupKeeps ==
    ASSUME ModelAssumption, ModelIInv, NEW n \in OperatorModels, NEW at \in 1..3, NEW key \in {0} \cup Keys,
           NEW promotes \in BOOLEAN, NEW records \in BOOLEAN, Setup(n, at, key, promotes, records)
    PROVE  ModelIInv'
<1>1. /\ Up /\ modelCmd = ModelIdle /\ modelCmds' = modelCmds + 1 /\ replayedUp' = FALSE
      /\ UNCHANGED <<hostKey, portUp, primary, modelFaults, clusterVars, modelRec, intentVars>>
      /\ modelCmd' = [pc |-> IF key = 0 THEN "entries" ELSE "secret", entry |-> Entry(n, at), key |-> key,
                      promotes |-> promotes, records |-> records, sync |-> TRUE]
  BY DEF Setup, ModelBegin
<1>2. modelCmd.pc = "idle" /\ modelCmd' \in SetupCommands /\ modelCmd'.key = key
      /\ modelCmd'.pc = IF key = 0 THEN "entries" ELSE "secret"
  BY <1>1 DEF SetupCommands, Entry, ModelIdle
<1>3. ValuesOK'
  <2>1. modelCmds' \in Nat
    BY <1>1 DEF ModelIInv, ValuesOK
  <2>2. replayedUp' \in BOOLEAN
    BY <1>1
  <2> QED BY <1>1, <2>1, <2>2 DEF ModelIInv, ValuesOK, clusterVars, intentVars
<1>4. ListsOK' /\ (Up' <=> Up)
  BY <1>1, ListsSame DEF ModelIInv, clusterVars
<1>5. CommandOK'
  BY <1>1, <1>2, <1>4 DEF CommandOK, ModelCommands, BeforeReconcile, AfterReconcile
<1>6. IntentKept'
  BY <1>1, <1>2, IntentSame DEF ModelIInv, clusterVars, BeforeReconcile, AfterReconcile
<1>7. ReplayKept'
  BY <1>1 DEF ReplayKept
<1>8. RouterInStep'
  <2>1. UNCHANGED <<SameNames, SameKey>>
    BY <1>1 DEF clusterVars, SameNames, SameKey, RouterNames, EntryNames
  <2>2. modelFaults = 0 => SameNames /\ SameKey
    BY <1>1, <1>2 DEF ModelIInv, RouterInStep, InStepAt
  <2> QED BY <1>1, <1>2, <2>1, <2>2 DEF RouterInStep, InStepAt
<1> QED BY <1>3, <1>4, <1>5, <1>6, <1>7, <1>8 DEF ModelIInv

LEMMA SetupsKeep ==
    ASSUME ModelAssumption, ModelIInv, SetupCloudProvider \/ SetupOllama \/ AddCustomEndpoint
    PROVE  ModelIInv'
<1>1. CASE SetupCloudProvider
  <2>1. PICK k \in ExistingAPIKey : Setup(CloudModel, Detected, k, TRUE, TRUE)
    BY <1>1 DEF SetupCloudProvider
  <2>2. k \in Keys
    BY DEF ExistingAPIKey, ModelIInv, ValuesOK
  <2>3. CloudModel \in OperatorModels /\ Detected \in 1..3 /\ k \in {0} \cup Keys /\ TRUE \in BOOLEAN
    BY <2>2 DEF OperatorModels, Detected
  <2> QED BY <2>1, <2>3, SetupKeeps, Zenon
<1>2. CASE SetupOllama
  <2>1. PICK named \in BOOLEAN : Setup(OllamaModel, Detected, 0, named, TRUE)
    BY <1>2 DEF SetupOllama
  <2>2. OllamaModel \in OperatorModels /\ Detected \in 1..3 /\ 0 \in {0} \cup Keys /\ TRUE \in BOOLEAN
    BY DEF OperatorModels, Detected
  <2> QED BY <2>1, <2>2, SetupKeeps, Zenon
<1>3. CASE AddCustomEndpoint
  <2>1. PICK at \in {2, 3}, sync \in BOOLEAN : Setup(LocalModel, at, 0, sync, sync)
    BY <1>3 DEF AddCustomEndpoint
  <2> QED BY <2>1, SetupKeeps DEF OperatorModels
<1> QED BY <1>1, <1>2, <1>3

LEMMA PatchSecretKeeps ==
    ASSUME ModelIInv, PatchSecret
    PROVE  ModelIInv'
<1>1. /\ modelCmd.pc = "secret" /\ secretKey' = modelCmd.key /\ Goto("entries")
      /\ UNCHANGED <<routes, router, routerKey, hostKey, portUp, modelRec, primary, intentVars, modelCounts, replayedUp>>
  BY DEF PatchSecret
<1>2. modelCmd \in SetupCommands /\ modelCmd' \in SetupCommands /\ modelCmd'.pc = "entries"
      /\ modelCmd'.key = modelCmd.key /\ modelCmd.key # 0
  BY <1>1, CommandShape, GotoKeeps DEF ModelIInv, CommandOK
<1>3. ValuesOK'
  <2>1. secretKey' \in {0} \cup Keys
    BY <1>1, <1>2 DEF SetupCommands
  <2> QED BY <1>1, <2>1 DEF ModelIInv, ValuesOK, intentVars, modelCounts
<1>4. ListsOK' /\ (Up' <=> Up)
  BY <1>1, ListsSame DEF ModelIInv
<1>5. CommandOK'
  BY <1>1, <1>2, <1>4, Busy DEF CommandOK, ModelCommands, BeforeReconcile, AfterReconcile
<1>6. IntentKept'
  BY <1>1, <1>2, IntentSame DEF ModelIInv, BeforeReconcile, AfterReconcile
<1>7. ReplayKept'
  BY <1>1, Busy DEF ReplayKept
<1>8. RouterInStep'
  <2>1. UNCHANGED SameNames
    BY <1>1 DEF SameNames, RouterNames, EntryNames
  <2>2. modelFaults = 0 => SameNames
    BY <1>1, <1>2, Busy DEF ModelIInv, RouterInStep, InStepAt
  <2> QED BY <1>1, <1>2, <2>1, <2>2 DEF RouterInStep, InStepAt, modelCounts
<1> QED BY <1>3, <1>4, <1>5, <1>6, <1>7, <1>8 DEF ModelIInv

LEMMA PatchEntriesKeeps ==
    ASSUME ModelAssumption, ModelIInv, PatchEntries
    PROVE  ModelIInv'
<1>1. /\ modelCmd.pc = "entries"
      /\ routes' = PatchLiteLLMConfig(routes, modelCmd.entry)
      /\ intent' = [intent EXCEPT ![modelCmd.entry.name] = modelCmd.entry.at] /\ unsaved' = TRUE
      /\ Goto(IF modelCmd.key = 0 THEN "hotadd" ELSE "restart")
      /\ UNCHANGED <<secretKey, router, routerKey, hostKey, portUp, modelRec, primary, head, modelCounts, replayedUp>>
  BY DEF PatchEntries
<1>2. /\ modelCmd \in SetupCommands /\ modelCmd' \in SetupCommands
      /\ modelCmd'.pc = IF modelCmd.key = 0 THEN "hotadd" ELSE "restart"
      /\ modelCmd'.key = modelCmd.key /\ modelCmd'.entry = modelCmd.entry
  BY <1>1, CommandShape, GotoKeeps DEF ModelIInv, CommandOK
<1>3. /\ modelCmd.entry.name \in OperatorModels /\ modelCmd.entry.at \in 1..3
      /\ modelCmd.entry \in ModelEntries /\ modelCmd.entry = Entry(modelCmd.entry.name, modelCmd.entry.at)
  BY <1>2 DEF SetupCommands, ModelEntries, Entry
<1>4. Up /\ RouteList(routes) /\ replayedUp = FALSE
  BY <1>1, Busy
<1>5. /\ RouteList(routes')
      /\ EntryNames(routes') = EntryNames(routes) \cup {modelCmd.entry.name}
      /\ \E k \in 1..Len(routes') : routes'[k] = modelCmd.entry
      /\ \A i \in 1..Len(routes) : routes[i].name # modelCmd.entry.name =>
           \E k \in 1..Len(routes') : routes'[k] = routes[i]
      /\ \A n, skip : Leads(routes, n, skip) => Leads(routes', n, skip)
  <2> DEFINE new == PatchLiteLLMConfig(routes, modelCmd.entry)
  <2>1. /\ RouteList(new)
        /\ EntryNames(new) = EntryNames(routes) \cup {modelCmd.entry.name}
        /\ \E k \in 1..Len(new) : new[k] = modelCmd.entry
        /\ \A i \in 1..Len(routes) : routes[i].name # modelCmd.entry.name =>
             \E k \in 1..Len(new) : new[k] = routes[i]
        /\ \A n, skip : Leads(routes, n, skip) => Leads(new, n, skip)
    BY <1>3, <1>4, PatchKeeps
  <2>2. routes' = new
    BY <1>1
  <2> HIDE DEF new
  <2> QED BY <2>1, <2>2
<1>6. Up'
  BY <1>5 DEF Up, RouteList, ModelAssumption
<1>7. ValuesOK'
  BY <1>1, <1>3 DEF ModelIInv, ValuesOK, modelCounts
<1>8. ListsOK'
  <2>1. RecordedList' = RecordedList
    BY <1>1 DEF RecordedList
  <2>2. RouteList(RecordedList)' /\ RouteList(routes)'
    BY <1>5, <2>1 DEF ModelIInv, ListsOK, RouteList, NamedOnce
  <2> QED BY <1>1, <2>1, <2>2 DEF ModelIInv, ListsOK
<1>9. CommandOK'
  <2>1. Lists(routes, modelCmd.entry.name)'
    BY <1>2, <1>5 DEF Lists
  <2> QED BY <1>1, <1>2, <1>6, <2>1 DEF CommandOK, ModelCommands, BeforeReconcile, AfterReconcile
<1>10. IntentKept'
  <2>1. HasIntent(routes, intent, head)
    BY <1>1, <1>4 DEF ModelIInv, IntentKept, BeforeReconcile
  <2>2. HasSetUp(routes', intent')
    <3> SUFFICES ASSUME NEW n \in OperatorModels, intent'[n] # 0
                 PROVE  \E i \in 1..Len(routes') : routes'[i] = Entry(n, intent'[n])
      BY DEF HasSetUp
    <3>1. CASE n = modelCmd.entry.name
      BY <1>1, <1>3, <1>5, <3>1 DEF ModelIInv, ValuesOK
    <3>2. CASE n # modelCmd.entry.name
      <4>1. intent'[n] = intent[n]
        BY <1>1, <3>2 DEF ModelIInv, ValuesOK
      <4>2. PICK i \in 1..Len(routes) : routes[i] = Entry(n, intent[n])
        BY <2>1, <4>1 DEF HasIntent, HasSetUp
      <4>3. routes[i].name = n
        BY <4>2 DEF Entry
      <4> QED BY <1>5, <3>2, <4>1, <4>2, <4>3
    <3> QED BY <3>1, <3>2
  <2>3. head' # NoRoutes => Leads(routes', head', Unrecorded)
    BY <1>1, <1>5, <2>1 DEF HasIntent
  <2>4. HasIntent(routes, intent, head)'
    BY <2>2, <2>3 DEF HasIntent, HasSetUp, Leads, Unrecorded
  <2> QED BY <1>1, <1>2, <2>4 DEF IntentKept, AfterReconcile
<1>11. ReplayKept'
  BY <1>1, <1>4 DEF ReplayKept
<1>12. RouterInStep'
  <2>1. modelFaults = 0 => SameNames /\ (modelCmd.key = 0 => SameKey)
    BY <1>1, <1>4 DEF ModelIInv, RouterInStep, InStepAt
  <2>2. RouterNames' = RouterNames /\ (SameKey' <=> SameKey)
    BY <1>1 DEF RouterNames, SameKey
  <2>3. EntryNames(routes)' = EntryNames(routes) \cup {modelCmd.entry.name}
    BY <1>5 DEF EntryNames
  <2> QED BY <1>1, <1>2, <2>1, <2>2, <2>3 DEF RouterInStep, InStepAt, SameNames, modelCounts
<1> QED BY <1>7, <1>8, <1>9, <1>10, <1>11, <1>12 DEF ModelIInv

\* A step of a setup that leaves the lists: what the router has of the list is
\* what remains to be shown.
LEMMA SetupStepKeeps ==
    ASSUME ModelIInv, modelCmd.pc \in {"hotadd", "restart", "promote"}, NEW pc, Goto(pc),
           pc \in {"restart", "promote", "record", "end"},
           UNCHANGED <<routes, secretKey, hostKey, portUp, modelRec, primary, intentVars, modelCmds, replayedUp>>,
           routerKey' \in {0} \cup Keys, modelFaults' \in Nat, RouterInStep'
    PROVE  ModelIInv'
<1>1. /\ modelCmd \in SetupCommands /\ modelCmd' \in SetupCommands /\ modelCmd'.pc = pc
      /\ modelCmd'.entry = modelCmd.entry
  BY CommandShape, GotoKeeps DEF ModelIInv, CommandOK
<1>2. ValuesOK'
  BY DEF ModelIInv, ValuesOK, intentVars
<1>3. ListsOK' /\ (Up' <=> Up)
  BY ListsSame DEF ModelIInv
<1>4. CommandOK'
  <2>1. Lists(routes, modelCmd.entry.name) /\ unsaved
    BY DEF ModelIInv, CommandOK
  <2>2. Lists(routes, modelCmd.entry.name)' /\ unsaved'
    BY <1>1, <2>1 DEF Lists, intentVars
  <2> QED BY <1>1, <1>3, <2>2, Busy DEF CommandOK, ModelCommands, BeforeReconcile, AfterReconcile
<1>5. IntentKept'
  BY <1>1, IntentSame DEF ModelIInv, BeforeReconcile, AfterReconcile
<1>6. ReplayKept'
  BY Busy DEF ReplayKept
<1> QED BY <1>2, <1>3, <1>4, <1>5, <1>6 DEF ModelIInv

LEMMA HotAddKeeps ==
    ASSUME ModelIInv, HotAdd
    PROVE  ModelIInv'
<1>1. /\ modelCmd.pc = "hotadd"
      /\ \/ router' = router \cup {modelCmd.entry} /\ Goto(Configured) /\ UNCHANGED modelFaults
         \/ ModelFault /\ Goto("restart") /\ UNCHANGED router
      /\ UNCHANGED <<routes, secretKey, routerKey, hostKey, portUp, modelRec, primary, intentVars, modelCmds, replayedUp>>
  BY DEF HotAdd
<1>2. modelFaults \in Nat /\ routerKey' \in {0} \cup Keys
  BY <1>1 DEF ModelIInv, ValuesOK
<1>3. CASE router' = router \cup {modelCmd.entry} /\ Goto(Configured) /\ UNCHANGED modelFaults
  <2>1. Configured \in {"promote", "record", "end"}
    BY DEF Configured
  <2>2. modelCmd'.pc = Configured
    BY <1>3, GotoKeeps DEF ModelIInv, CommandOK
  <2>3. modelFaults = 0 => SameKey /\ EntryNames(routes) = RouterNames \cup {modelCmd.entry.name}
    BY <1>1, Busy DEF ModelIInv, RouterInStep, InStepAt
  <2>4. RouterNames' = RouterNames \cup {modelCmd.entry.name}
    BY <1>3 DEF RouterNames
  <2>5. (SameKey' <=> SameKey) /\ EntryNames(routes)' = EntryNames(routes)
    BY <1>1 DEF SameKey, EntryNames
  <2>6. RouterInStep'
    BY <1>3, <2>1, <2>2, <2>3, <2>4, <2>5 DEF RouterInStep, InStepAt, SameNames
  <2> QED BY <1>1, <1>2, <1>3, <2>1, <2>6, SetupStepKeeps
<1>4. CASE ModelFault /\ Goto("restart") /\ UNCHANGED router
  <2>1. RouterInStep' /\ modelFaults' \in Nat
    BY <1>2, <1>4, FaultTold
  <2> QED BY <1>1, <1>2, <1>4, <2>1, SetupStepKeeps
<1> QED BY <1>1, <1>3, <1>4

\* A command that ends where it left the lists.
LEMMA EndKeeps ==
    ASSUME ModelIInv, ModelEnds, modelCmd.pc \notin {"idle"} \cup BeforeReconcile,
           UNCHANGED <<routes, modelRec, secretKey, hostKey, portUp, intentVars, modelCmds, replayedUp>>,
           routerKey' \in {0} \cup Keys, modelFaults' \in Nat, RouterInStep'
    PROVE  ModelIInv'
<1>1. modelCmd' = [pc |-> "idle"] /\ modelCmd'.pc = "idle" /\ modelCmd' \in UpCommands
  BY DEF ModelEnds, ModelIdle, UpCommands
<1>2. ValuesOK'
  BY DEF ModelIInv, ValuesOK, intentVars
<1>3. ListsOK' /\ (Up' <=> Up)
  BY ListsSame DEF ModelIInv
<1>4. CommandOK'
  BY <1>1, <1>3 DEF CommandOK, ModelCommands, BeforeReconcile, AfterReconcile
<1>5. IntentKept'
  BY <1>1, IntentSame DEF ModelIInv, BeforeReconcile, AfterReconcile
<1>6. ReplayKept'
  BY Busy DEF ReplayKept
<1> QED BY <1>2, <1>3, <1>4, <1>5, <1>6 DEF ModelIInv

LEMMA RestartKeeps ==
    ASSUME ModelIInv, RestartLiteLLM
    PROVE  ModelIInv'
<1>1. /\ modelCmd.pc = "restart"
      /\ \/ Rolled /\ Goto(Configured) /\ UNCHANGED modelFaults
         \/ ModelFault /\ (Rolled \/ Unrolled) /\ ModelEnds
      /\ UNCHANGED <<routes, secretKey, hostKey, portUp, modelRec, primary, intentVars, modelCmds, replayedUp>>
  BY DEF RestartLiteLLM
<1>2. modelFaults \in Nat /\ (Rolled \/ Unrolled => routerKey' \in {0} \cup Keys)
  BY DEF ModelIInv, ValuesOK, Rolled, Unrolled
<1>3. CASE Rolled /\ Goto(Configured) /\ UNCHANGED modelFaults
  <2>1. Configured \in {"promote", "record", "end"}
    BY DEF Configured
  <2>2. modelCmd'.pc = Configured
    BY <1>3, GotoKeeps DEF ModelIInv, CommandOK
  <2>3. SameNames' /\ SameKey'
    BY <1>1, <1>3, RolledInStep
  <2>4. RouterInStep'
    BY <2>1, <2>2, <2>3 DEF RouterInStep, InStepAt
  <2> QED BY <1>1, <1>2, <1>3, <2>1, <2>4, SetupStepKeeps
<1>4. CASE ModelFault /\ (Rolled \/ Unrolled) /\ ModelEnds
  <2>1. RouterInStep' /\ modelFaults' \in Nat
    BY <1>2, <1>4, FaultTold
  <2> QED BY <1>1, <1>2, <1>4, <2>1, EndKeeps DEF BeforeReconcile
<1> QED BY <1>1, <1>3, <1>4

\* A name moves to the head of the list: the record is written after it.
LEMMA ReorderHasIntent ==
    ASSUME ModelAssumption, RouteList(routes), NEW n \in OperatorModels, Lists(routes, n),
           HasSetUp(routes, intent), routes' = ReorderModelList(routes, n), intent' = intent, head' = n
    PROVE  RouteList(routes') /\ Up' /\ HasIntent(routes, intent, head)' /\ EntryNames(routes)' = EntryNames(routes)
<1>1. /\ RouteList(routes') /\ EntryNames(routes') = EntryNames(routes)
      /\ \A i \in 1..Len(routes) : \E k \in 1..Len(routes') : routes'[k] = routes[i]
      /\ \A skip : n \notin skip => Leads(routes', n, skip)
  <2> DEFINE new == ReorderModelList(routes, n)
  <2>1. /\ RouteList(new) /\ EntryNames(new) = EntryNames(routes)
        /\ \A i \in 1..Len(routes) : \E k \in 1..Len(new) : new[k] = routes[i]
        /\ \A skip : n \notin skip => Leads(new, n, skip)
    BY ReorderKeeps
  <2>2. routes' = new
    OBVIOUS
  <2> HIDE DEF new
  <2> QED BY <2>1, <2>2
<1>2. Up'
  BY <1>1 DEF Up, RouteList, ModelAssumption
<1>3. HasSetUp(routes', intent')
  BY <1>1 DEF HasSetUp
<1>4. Leads(routes', head', Unrecorded)
  BY <1>1 DEF Unrecorded, ModelAssumption
<1>5. HasIntent(routes, intent, head)'
  BY <1>3, <1>4 DEF HasIntent, HasSetUp, Leads, Unrecorded
<1> QED BY <1>1, <1>2, <1>5 DEF EntryNames

LEMMA PromoteKeeps ==
    ASSUME ModelAssumption, ModelIInv, Promote
    PROVE  ModelIInv'
<1>1. /\ modelCmd.pc = "promote" /\ Goto("record")
      /\ \/ routes' = ReorderModelList(routes, modelCmd.entry.name) /\ head' = modelCmd.entry.name /\ UNCHANGED modelFaults
         \/ ModelFault /\ UNCHANGED <<routes, head>>
      /\ UNCHANGED <<secretKey, router, routerKey, hostKey, portUp, modelRec, primary, intent, unsaved, modelCmds, replayedUp>>
  BY DEF Promote
<1>2. modelFaults \in Nat /\ routerKey' \in {0} \cup Keys
  BY <1>1 DEF ModelIInv, ValuesOK
<1>3. CASE ModelFault /\ UNCHANGED <<routes, head>>
  <2>1. RouterInStep' /\ modelFaults' \in Nat
    BY <1>2, <1>3, FaultTold
  <2> QED BY <1>1, <1>2, <1>3, <2>1, SetupStepKeeps DEF intentVars
<1>4. CASE routes' = ReorderModelList(routes, modelCmd.entry.name) /\ head' = modelCmd.entry.name /\ UNCHANGED modelFaults
  <2> DEFINE n == modelCmd.entry.name
  <2>1. /\ modelCmd \in SetupCommands /\ modelCmd' \in SetupCommands /\ modelCmd'.pc = "record"
        /\ n \in OperatorModels
    <3>1. modelCmd \in SetupCommands /\ modelCmd' \in SetupCommands /\ modelCmd'.pc = "record"
      BY <1>1, CommandShape, GotoKeeps DEF ModelIInv, CommandOK
    <3> QED BY <3>1 DEF SetupCommands
  <2>2. Lists(routes, n) /\ HasSetUp(routes, intent) /\ RouteList(routes) /\ replayedUp = FALSE
    BY <1>1, Busy DEF ModelIInv, CommandOK, IntentKept, HasIntent, BeforeReconcile
  <2>3. RouteList(routes') /\ Up' /\ HasIntent(routes, intent, head)' /\ EntryNames(routes)' = EntryNames(routes)
    BY <1>1, <1>4, <2>1, <2>2, ReorderHasIntent
  <2>4. ValuesOK'
    BY <1>1, <1>4, <2>1 DEF ModelIInv, ValuesOK
  <2>5. ListsOK'
    BY <1>1, <2>3 DEF ModelIInv, ListsOK, RecordedList, RouteList, NamedOnce
  <2>6. CommandOK'
    BY <2>1, <2>3 DEF CommandOK, ModelCommands, BeforeReconcile, AfterReconcile
  <2>7. IntentKept'
    <3>1. unsaved
      BY <1>1 DEF ModelIInv, CommandOK
    <3> QED BY <1>1, <2>1, <2>3, <3>1 DEF IntentKept, AfterReconcile
  <2>8. ReplayKept'
    BY <1>1, <2>2 DEF ReplayKept
  <2>9. RouterInStep'
    <3>1. modelFaults = 0 => SameNames /\ SameKey
      BY <1>1, Busy DEF ModelIInv, RouterInStep, InStepAt
    <3>2. RouterNames' = RouterNames /\ (SameKey' <=> SameKey)
      BY <1>1 DEF RouterNames, SameKey
    <3> QED BY <1>4, <2>1, <2>3, <3>1, <3>2 DEF RouterInStep, InStepAt, SameNames
  <2> QED BY <2>4, <2>5, <2>6, <2>7, <2>8, <2>9 DEF ModelIInv
<1> QED BY <1>1, <1>3, <1>4

LEMMA PreferKeeps ==
    ASSUME ModelAssumption, ModelIInv, PreferModels
    PROVE  ModelIInv'
<1>1. PICK n \in OperatorModels, c \in ModelPreferCommand :
        /\ Up /\ Lists(routes, n)
        /\ ModelBegin(c)
        /\ routes' = ReorderModelList(routes, n) /\ head' = n /\ unsaved' = TRUE
        /\ UNCHANGED <<secretKey, router, routerKey, modelRec, intent>>
  BY DEF PreferModels
<1>2. /\ modelCmd = ModelIdle /\ modelCmds' = modelCmds + 1 /\ modelCmd' = c /\ replayedUp' = FALSE
      /\ UNCHANGED <<hostKey, portUp, primary, modelFaults>>
  BY <1>1 DEF ModelBegin
<1>3. modelCmd.pc = "idle" /\ modelCmd' \in PreferCommands /\ modelCmd'.pc = "record"
  BY <1>2 DEF ModelPreferCommand, PreferCommands, ModelIdle
<1>4. HasSetUp(routes, intent) /\ RouteList(routes)
  BY <1>1, <1>3 DEF ModelIInv, ListsOK, IntentKept, HasIntent, BeforeReconcile
<1>5. RouteList(routes') /\ Up' /\ HasIntent(routes, intent, head)' /\ EntryNames(routes)' = EntryNames(routes)
  BY <1>1, <1>4, ReorderHasIntent
<1>6. ValuesOK'
  <2>1. modelCmds' \in Nat
    BY <1>2 DEF ModelIInv, ValuesOK
  <2> QED BY <1>1, <1>2, <2>1 DEF ModelIInv, ValuesOK
<1>7. ListsOK'
  BY <1>1, <1>5 DEF ModelIInv, ListsOK, RecordedList, RouteList, NamedOnce
<1>8. CommandOK'
  BY <1>3, <1>5 DEF CommandOK, ModelCommands, BeforeReconcile, AfterReconcile
<1>9. IntentKept'
  BY <1>1, <1>3, <1>5 DEF IntentKept, AfterReconcile
<1>10. ReplayKept'
  BY <1>2 DEF ReplayKept
<1>11. RouterInStep'
  <2>1. modelFaults = 0 => SameNames /\ SameKey
    BY <1>1, <1>3 DEF ModelIInv, RouterInStep, InStepAt
  <2>2. RouterNames' = RouterNames /\ (SameKey' <=> SameKey)
    BY <1>1 DEF RouterNames, SameKey
  <2> QED BY <1>2, <1>3, <1>5, <2>1, <2>2 DEF RouterInStep, InStepAt, SameNames
<1> QED BY <1>6, <1>7, <1>8, <1>9, <1>10, <1>11 DEF ModelIInv

\* Names leave the list, and no intent is about them any more.
LEMMA LeavingHasIntent ==
    ASSUME ModelAssumption, RouteList(routes), NEW names, HasIntent(routes, intent, head),
           routes' = Leaving(routes, names),
           \A n \in OperatorModels : intent'[n] # 0 => n \notin names /\ intent'[n] = intent[n],
           head' # NoRoutes => head' \notin names /\ head' = head
    PROVE  /\ RouteList(routes') /\ Up' /\ HasIntent(routes, intent, head)'
           /\ EntryNames(routes)' = EntryNames(routes) \ names
<1>1. /\ RouteList(routes') /\ EntryNames(routes') = EntryNames(routes) \ names
      /\ \A i \in 1..Len(routes) : routes[i].name \notin names => \E k \in 1..Len(routes') : routes'[k] = routes[i]
      /\ \A n, skip : Leads(routes, n, skip) /\ n \notin names => Leads(routes', n, skip)
  BY LeavingKeeps
<1>2. Up'
  BY <1>1 DEF Up, RouteList, ModelAssumption
<1>3. HasSetUp(routes', intent')
  <2> SUFFICES ASSUME NEW n \in OperatorModels, intent'[n] # 0
               PROVE  \E i \in 1..Len(routes') : routes'[i] = Entry(n, intent'[n])
    BY DEF HasSetUp
  <2>1. PICK i \in 1..Len(routes) : routes[i] = Entry(n, intent[n])
    BY DEF HasIntent, HasSetUp
  <2>2. routes[i].name = n
    BY <2>1 DEF Entry
  <2> QED BY <1>1, <2>1, <2>2
<1>4. head' # NoRoutes => Leads(routes', head', Unrecorded)
  BY <1>1 DEF HasIntent
<1>5. HasIntent(routes, intent, head)'
  BY <1>3, <1>4 DEF HasIntent, HasSetUp, Leads, Unrecorded
<1> QED BY <1>1, <1>2, <1>5 DEF EntryNames

LEMMA RemoveKeeps ==
    ASSUME ModelAssumption, ModelIInv, RemoveModel
    PROVE  ModelIInv'
<1>1. PICK n \in OperatorModels : \E c \in ModelRemoveCommand(n) :
        /\ Up /\ Lists(routes, n)
        /\ ModelBegin(c)
        /\ routes' = Without(routes, n) /\ unsaved' = TRUE
        /\ intent' = [intent EXCEPT ![n] = 0] /\ head' = IF head = n THEN NoRoutes ELSE head
        /\ UNCHANGED <<secretKey, router, routerKey, modelRec>>
  BY DEF RemoveModel
<1>2. PICK c \in ModelRemoveCommand(n) :
        /\ Up /\ Lists(routes, n)
        /\ ModelBegin(c)
        /\ routes' = Without(routes, n) /\ unsaved' = TRUE
        /\ intent' = [intent EXCEPT ![n] = 0] /\ head' = IF head = n THEN NoRoutes ELSE head
        /\ UNCHANGED <<secretKey, router, routerKey, modelRec>>
  BY <1>1
<1>3. /\ modelCmd = ModelIdle /\ modelCmds' = modelCmds + 1 /\ modelCmd' = c /\ replayedUp' = FALSE
      /\ UNCHANGED <<hostKey, portUp, primary, modelFaults>>
  BY <1>2 DEF ModelBegin
<1>4. modelCmd.pc = "idle" /\ modelCmd' \in RemoveCommands /\ modelCmd'.pc = "hotdelete" /\ modelCmd'.name = n
  BY <1>3 DEF ModelRemoveCommand, RemoveCommands, ModelIdle
<1>5. HasIntent(routes, intent, head) /\ RouteList(routes) /\ intent \in [OperatorModels -> 0..3]
  BY <1>2, <1>4 DEF ModelIInv, ListsOK, ValuesOK, IntentKept, BeforeReconcile
<1>6. /\ RouteList(routes') /\ Up' /\ HasIntent(routes, intent, head)'
      /\ EntryNames(routes)' = EntryNames(routes) \ {n}
  <2>1. routes' = Leaving(routes, {n})
    BY <1>2 DEF Without
  <2>2. \A m \in OperatorModels : intent'[m] # 0 => m \notin {n} /\ intent'[m] = intent[m]
    BY <1>2, <1>5
  <2>3. head' # NoRoutes => head' \notin {n} /\ head' = head
    BY <1>2
  <2> QED BY <1>5, <2>1, <2>2, <2>3, LeavingHasIntent
<1>7. ValuesOK'
  <2>1. modelCmds' \in Nat
    BY <1>3 DEF ModelIInv, ValuesOK
  <2>2. intent' \in [OperatorModels -> 0..3] /\ head' \in OperatorModels \cup {NoRoutes}
    BY <1>2 DEF ModelIInv, ValuesOK
  <2> QED BY <1>2, <1>3, <2>1, <2>2 DEF ModelIInv, ValuesOK
<1>8. ListsOK'
  BY <1>2, <1>6 DEF ModelIInv, ListsOK, RecordedList, RouteList, NamedOnce
<1>9. CommandOK'
  <2>1. ~Lists(routes, n)'
    <3>1. n \notin EntryNames(routes)'
      BY <1>6
    <3> QED BY <3>1 DEF Lists, EntryNames
  <2> QED BY <1>2, <1>4, <1>6, <2>1 DEF CommandOK, ModelCommands, BeforeReconcile, AfterReconcile
<1>10. IntentKept'
  BY <1>2, <1>4, <1>6 DEF IntentKept, AfterReconcile
<1>11. ReplayKept'
  BY <1>3 DEF ReplayKept
<1>12. RouterInStep'
  <2>1. modelFaults = 0 => SameNames /\ SameKey
    BY <1>2, <1>4 DEF ModelIInv, RouterInStep, InStepAt
  <2>2. RouterNames' = RouterNames /\ (SameKey' <=> SameKey)
    BY <1>2 DEF RouterNames, SameKey
  <2> QED BY <1>3, <1>4, <1>6, <2>1, <2>2 DEF RouterInStep, InStepAt, SameNames
<1> QED BY <1>7, <1>8, <1>9, <1>10, <1>11, <1>12 DEF ModelIInv

LEMMA HotDeleteKeeps ==
    ASSUME ModelIInv, HotDelete
    PROVE  ModelIInv'
<1>1. /\ modelCmd.pc = "hotdelete" /\ Goto("record")
      /\ \/ router' = {e \in router : e.name # modelCmd.name} /\ UNCHANGED modelFaults
         \/ ModelFault /\ UNCHANGED router
      /\ UNCHANGED <<routes, secretKey, routerKey, hostKey, portUp, modelRec, primary, intentVars, modelCmds, replayedUp>>
  BY DEF HotDelete
<1>2. modelCmd \in RemoveCommands /\ modelCmd' \in RemoveCommands /\ modelCmd'.pc = "record"
  BY <1>1, CommandShape, GotoKeeps DEF ModelIInv, CommandOK
<1>3. modelFaults \in Nat
  BY DEF ModelIInv, ValuesOK
<1>4. RouterInStep' /\ modelFaults' \in Nat
  <2>1. CASE router' = {e \in router : e.name # modelCmd.name} /\ UNCHANGED modelFaults
    <3>1. modelFaults = 0 => SameKey /\ EntryNames(routes) = RouterNames \ {modelCmd.name}
      BY <1>1, Busy DEF ModelIInv, RouterInStep, InStepAt
    <3>2. RouterNames' = RouterNames \ {modelCmd.name}
      BY <2>1 DEF RouterNames
    <3>3. (SameKey' <=> SameKey) /\ EntryNames(routes)' = EntryNames(routes)
      BY <1>1 DEF SameKey, EntryNames
    <3> QED BY <1>2, <1>3, <2>1, <3>1, <3>2, <3>3 DEF RouterInStep, InStepAt, SameNames
  <2>2. CASE ModelFault
    BY <1>3, <2>2, FaultTold
  <2> QED BY <1>1, <2>1, <2>2
<1>5. ValuesOK'
  BY <1>1, <1>4 DEF ModelIInv, ValuesOK, intentVars
<1>6. ListsOK' /\ (Up' <=> Up)
  BY <1>1, ListsSame DEF ModelIInv
<1>7. CommandOK'
  BY <1>1, <1>2, <1>6, Busy DEF CommandOK, ModelCommands, BeforeReconcile, AfterReconcile
<1>8. IntentKept'
  BY <1>1, <1>2, IntentSame DEF ModelIInv, BeforeReconcile, AfterReconcile
<1>9. ReplayKept'
  BY <1>1, Busy DEF ReplayKept
<1> QED BY <1>4, <1>5, <1>6, <1>7, <1>8, <1>9 DEF ModelIInv

LEMMA RecordKeeps ==
    ASSUME ModelAssumption, ModelIInv, RecordState
    PROVE  ModelIInv'
<1> DEFINE next == IF modelCmd.sync THEN "sync" ELSE "end"
           Saves(key) == modelRec' = [list |-> FilterRecordable(routes), key |-> key] /\ unsaved' = FALSE
<1>1. /\ modelCmd.pc = "record" /\ Goto(next)
      /\ \/ (\E key \in {0, FromEnv} \cup Keys : Saves(key)) /\ (UNCHANGED modelFaults \/ ModelFault)
         \/ ModelFault /\ UNCHANGED <<modelRec, unsaved>>
      /\ UNCHANGED <<clusterVars, hostKey, portUp, primary, intent, head, modelCmds, replayedUp>>
  <2>1. ToEnvRefs(ReferencedKey(routes)) \in {0, FromEnv} \cup Keys
    BY DEF ToEnvRefs, ReferencedKey, ModelIInv, ValuesOK
  <2>2. 0 \in {0, FromEnv} \cup Keys
    OBVIOUS
  <2>3. /\ modelCmd.pc = "record" /\ Goto(next)
        /\ \/ Saves(ToEnvRefs(ReferencedKey(routes))) /\ UNCHANGED modelFaults
           \/ ModelFault /\ Saves(0)
           \/ ModelFault /\ UNCHANGED <<modelRec, unsaved>>
        /\ UNCHANGED <<clusterVars, hostKey, portUp, primary, intent, head, modelCmds, replayedUp>>
    BY DEF RecordState
  <2> HIDE DEF Saves, next
  <2> QED BY <2>1, <2>2, <2>3
<1>2. /\ modelCmd' \in SetupCommands \cup PreferCommands \cup RemoveCommands
      /\ modelCmd'.pc = next /\ next \in {"sync", "end"}
  <2>1. next \in {"sync", "end"}
    OBVIOUS
  <2> HIDE DEF next
  <2>2. modelCmd \in ModelCommands /\ modelCmd \in SetupCommands \cup PreferCommands \cup RemoveCommands
    BY <1>1, CommandShape DEF ModelIInv, CommandOK
  <2>3. modelCmd'.pc = next
    BY <1>1, <2>2, GotoKeeps
  <2>4. modelCmd' \in SetupCommands \cup PreferCommands \cup RemoveCommands
    BY <1>1, <2>1, <2>2, GotoKeeps
  <2> QED BY <2>1, <2>3, <2>4
<1> HIDE DEF next
<1>3. /\ RouteList(routes) /\ replayedUp = FALSE /\ Up /\ modelFaults \in Nat
      /\ HasIntent(routes, intent, head) /\ head \in OperatorModels \cup {NoRoutes}
  BY <1>1, Busy DEF ModelIInv, IntentKept, ValuesOK, BeforeReconcile
<1>4. modelFaults' \in Nat /\ RouterInStep'
  <2>1. CASE ModelFault
    BY <1>3, <2>1, FaultTold
  <2>2. CASE UNCHANGED modelFaults
    <3>1. modelFaults = 0 => SameNames /\ SameKey
      BY <1>1, <1>3 DEF ModelIInv, RouterInStep, InStepAt
    <3>2. UNCHANGED <<SameNames, SameKey>>
      BY <1>1 DEF SameNames, SameKey, RouterNames, EntryNames, clusterVars
    <3> QED BY <1>2, <1>3, <2>2, <3>1, <3>2 DEF RouterInStep, InStepAt
  <2> QED BY <1>1, <2>1, <2>2
<1>5. Up' /\ routes' = routes
  BY <1>1, <1>3 DEF clusterVars, Up
<1>6. CommandOK'
  BY <1>2, <1>5 DEF CommandOK, ModelCommands, BeforeReconcile, AfterReconcile
<1>7. ReplayKept'
  BY <1>1, <1>3 DEF ReplayKept
<1>8. ListsOK' /\ IntentKept' /\ unsaved' \in BOOLEAN
  <2>1. HasIntent(routes, intent, head)'
    BY <1>1, <1>3, <1>5 DEF HasIntent, HasSetUp, Leads
  <2>2. CASE \E key \in {0, FromEnv} \cup Keys : Saves(key)
    <3> DEFINE saved == FilterRecordable(routes)
    <3>1. PICK key \in {0, FromEnv} \cup Keys : modelRec' = [list |-> saved, key |-> key] /\ unsaved' = FALSE
      BY <2>2
    <3>2. /\ RouteList(saved) /\ \A i \in 1..Len(saved) : saved[i].name \in OperatorModels
          /\ HasIntent(saved, intent, head)
      BY <1>3, FilterKeeps
    <3> HIDE DEF saved
    <3>3. modelRec' \in ModelRecords
      BY <3>1, <3>2 DEF ModelRecords, RouteList
    <3>4. RecordedList' = saved
      BY <3>1, <3>3 DEF RecordedList, ModelAssumption
    <3>5. ListsOK'
      BY <1>3, <1>5, <3>2, <3>3, <3>4 DEF ListsOK, RouteList, NamedOnce
    <3>6. HasIntent(RecordedList, intent, head)'
      BY <1>1, <3>2, <3>4 DEF HasIntent, HasSetUp, Leads
    <3> QED BY <1>2, <2>1, <3>1, <3>5, <3>6 DEF IntentKept, AfterReconcile
  <2>3. CASE UNCHANGED <<modelRec, unsaved>>
    <3>1. ListsOK' /\ RecordedList' = RecordedList
      BY <1>5, <2>3, ListsSame DEF ModelIInv
    <3>2. HasIntent(RecordedList, intent, head)' = HasIntent(RecordedList, intent, head)
      BY <1>1, <3>1 DEF HasIntent, HasSetUp, Leads
    <3> QED BY <1>2, <2>1, <2>3, <3>1, <3>2 DEF ModelIInv, ValuesOK, IntentKept, AfterReconcile
  <2> QED BY <1>1, <2>2, <2>3
<1>9. ValuesOK'
  BY <1>1, <1>4, <1>8 DEF ModelIInv, ValuesOK, clusterVars
<1> QED BY <1>4, <1>6, <1>7, <1>8, <1>9 DEF ModelIInv

LEMMA SyncKeeps ==
    ASSUME ModelIInv, SyncDefaultModels
    PROVE  ModelIInv'
<1>1. /\ modelCmd.pc \in {"sync", "end"} /\ ModelEnds
      /\ UNCHANGED <<clusterVars, hostKey, portUp, modelRec, intentVars, modelCounts, replayedUp>>
  BY DEF SyncDefaultModels
<1>2. modelFaults = 0 => SameNames /\ SameKey
  BY <1>1, Busy DEF ModelIInv, RouterInStep, InStepAt
<1>3. UNCHANGED <<SameNames, SameKey>>
  BY <1>1 DEF SameNames, SameKey, RouterNames, EntryNames, clusterVars
<1>4. modelCmd'.pc = "idle"
  BY <1>1 DEF ModelEnds, ModelIdle
<1>5. RouterInStep'
  BY <1>1, <1>2, <1>3, <1>4 DEF RouterInStep, InStepAt, modelCounts
<1>6. routerKey' \in {0} \cup Keys /\ modelFaults' \in Nat
  BY <1>1 DEF ModelIInv, ValuesOK, clusterVars, modelCounts
<1> QED BY <1>1, <1>5, <1>6, EndKeeps DEF BeforeReconcile, clusterVars, modelCounts

LEMMA CutKeeps ==
    ASSUME ModelAssumption, ModelIInv, ModelCut
    PROVE  ModelIInv'
<1>1. /\ modelCmd # ModelIdle /\ ModelFault /\ modelCmd' = ModelIdle
      /\ intent' = [n \in OperatorModels |->
                      IF Lists(routes, n) /\ Named(routes, n).at = intent[n] THEN intent[n] ELSE 0]
      /\ head' = IF First(FilterRecordable(routes)) = head THEN head ELSE NoRoutes
      /\ UNCHANGED <<clusterVars, hostKey, portUp, modelRec, primary, unsaved, modelCmds, replayedUp>>
  BY DEF ModelCut, ModelEnds
<1>2. modelCmd.pc # "idle"
  BY <1>1, CommandShape DEF ModelIInv, CommandOK
<1>3. Up /\ RouteList(routes) /\ replayedUp = FALSE /\ modelFaults \in Nat
  BY <1>2, Busy DEF ModelIInv, ValuesOK
<1>4. RouterInStep' /\ modelFaults' \in Nat
  BY <1>1, <1>3, FaultTold
<1>5. modelCmd'.pc = "idle" /\ modelCmd' \in UpCommands
  BY <1>1 DEF ModelIdle, UpCommands
<1>6. /\ \A n \in OperatorModels : intent'[n] # 0 =>
           intent'[n] = intent[n] /\ Lists(routes, n) /\ Named(routes, n).at = intent[n]
      /\ head' # NoRoutes => head' = head /\ First(FilterRecordable(routes)) = head
  BY <1>1
<1>7. ValuesOK'
  <2>1. intent' \in [OperatorModels -> 0..3] /\ head' \in OperatorModels \cup {NoRoutes}
    BY <1>1 DEF ModelIInv, ValuesOK
  <2> QED BY <1>1, <1>4, <2>1 DEF ModelIInv, ValuesOK, clusterVars
<1>8. ListsOK' /\ RecordedList' = RecordedList /\ Up'
  BY <1>1, <1>3, ListsSame DEF ModelIInv, clusterVars
<1>9. CommandOK'
  BY <1>5, <1>8 DEF CommandOK, ModelCommands, BeforeReconcile, AfterReconcile
<1>10. IntentKept'
  <2>1. HasSetUp(routes, intent')
    <3> SUFFICES ASSUME NEW n \in OperatorModels, intent'[n] # 0
                 PROVE  \E i \in 1..Len(routes) : routes[i] = Entry(n, intent'[n])
      BY DEF HasSetUp
    <3>1. PICK i \in 1..Len(routes) : routes[i].name = n
      BY <1>6 DEF Lists
    <3>2. Named(routes, n) = routes[i]
      BY <1>3, <3>1, NamedIs
    <3>3. routes[i] \in ModelEntries
      BY <1>3, ElementOfSeq DEF RouteList
    <3>4. routes[i] = Entry(n, intent'[n])
      BY <1>6, <3>1, <3>2, <3>3 DEF ModelEntries, Entry
    <3> QED BY <3>4
  <2>2. head' # NoRoutes => Leads(routes, head', Unrecorded)
    BY <1>3, <1>6, FirstLeft DEF FilterRecordable, Unrecorded
  <2>3. HasIntent(routes, intent, head)'
    <3>1. routes' = routes
      BY <1>1 DEF clusterVars
    <3> QED BY <2>1, <2>2, <3>1 DEF HasIntent, HasSetUp, Leads, Unrecorded
  <2>4. ~unsaved => HasIntent(RecordedList, intent', head')
    BY <1>6 DEF ModelIInv, IntentKept, HasIntent, HasSetUp
  <2>5. HasIntent(RecordedList, intent, head)' <=> HasIntent(RecordedList, intent', head')
    BY <1>8 DEF HasIntent, HasSetUp, Leads
  <2> QED BY <1>1, <1>5, <2>3, <2>4, <2>5 DEF IntentKept, AfterReconcile
<1>11. ReplayKept'
  BY <1>1, <1>3 DEF ReplayKept
<1> QED BY <1>4, <1>7, <1>8, <1>9, <1>10, <1>11 DEF ModelIInv

-----------------------------------------------------------------------------
(* Models: a stack up, and what goes on around the commands *)

\* What the record has is what the operator counts on.
LEMMA SettledHasIntent ==
    ASSUME ModelAssumption, ListsOK, ValuesOK, IntentKept, Settled
    PROVE  /\ intent' \in [OperatorModels -> 0..3] /\ head' \in OperatorModels \cup {NoRoutes}
           /\ HasIntent(RecordedList, intent', head')
<1>1. CASE ~unsaved
  BY <1>1 DEF Settled, IntentKept, ValuesOK
<1>2. CASE unsaved
  <2>1. /\ intent' = [n \in OperatorModels |->
                        IF Lists(RecordedList, n) THEN Named(RecordedList, n).at ELSE 0]
        /\ head' = First(RecordedList)
    BY <1>2 DEF Settled
  <2>2. /\ RouteList(RecordedList) /\ RecordedList \in Seq(ModelEntries) /\ Len(RecordedList) \in Nat
        /\ \A i \in 1..Len(RecordedList) : RecordedList[i].name \in OperatorModels
    BY LenProperties DEF ListsOK, RouteList
  <2>3. ASSUME NEW n \in OperatorModels, Lists(RecordedList, n)
        PROVE  Named(RecordedList, n).at \in 0..3
               /\ \E i \in 1..Len(RecordedList) : RecordedList[i] = Entry(n, Named(RecordedList, n).at)
    <3>1. PICK i \in 1..Len(RecordedList) : RecordedList[i].name = n
      BY <2>3 DEF Lists
    <3>2. Named(RecordedList, n) = RecordedList[i]
      BY <2>2, <3>1, NamedIs
    <3>3. RecordedList[i] \in ModelEntries
      BY <2>2, ElementOfSeq
    <3>4. RecordedList[i] = Entry(n, RecordedList[i].at) /\ RecordedList[i].at \in 0..3
      BY <3>1, <3>3 DEF ModelEntries, Entry
    <3> QED BY <3>2, <3>4
  <2>4. intent' \in [OperatorModels -> 0..3] /\ HasSetUp(RecordedList, intent')
    BY <2>1, <2>3 DEF HasSetUp
  <2>5. CASE RecordedList = <<>>
    <3>1. head' = NoRoutes
      BY <2>1, <2>5 DEF First
    <3> QED BY <2>4, <3>1 DEF HasIntent
  <2>6. CASE RecordedList # <<>>
    <3>1. 1 \in 1..Len(RecordedList)
      BY <2>2, <2>6, EmptySeq
    <3>2. head' = RecordedList[1].name /\ head' \in OperatorModels
      BY <2>1, <2>2, <2>6, <3>1 DEF First
    <3>3. \A j \in 1..(1 - 1) : FALSE
      OBVIOUS
    <3>4. Leads(RecordedList, head', Unrecorded)
      BY <3>1, <3>2, <3>3 DEF Leads, Unrecorded, ModelAssumption
    <3> QED BY <2>4, <3>2, <3>4 DEF HasIntent
  <2> QED BY <2>5, <2>6
<1> QED BY <1>1, <1>2 DEF ValuesOK

LEMMA ChartIs ==
    ASSUME ModelAssumption
    PROVE  RouteList(Chart) /\ Chart # NoRoutes /\ {e.name : e \in RouteEntries(Chart)} = EntryNames(Chart)
<1>1. Chart \in Seq(ModelEntries) /\ Len(Chart) = 1
  BY DEF Chart, Entry, ModelEntries, Detected
<1>2. \A i \in 1..Len(Chart) : i = 1
  BY <1>1
<1>3. NamedOnce(Chart)
  BY <1>2 DEF NamedOnce
<1>4. Chart # NoRoutes
  BY <1>1 DEF ModelAssumption
<1>5. {e.name : e \in RouteEntries(Chart)} = EntryNames(Chart)
  BY DEF RouteEntries, EntryNames
<1> QED BY <1>1, <1>3, <1>4, <1>5 DEF RouteList

LEMMA StackSyncKeeps ==
    ASSUME ModelAssumption, ModelIInv, StackSync
    PROVE  ModelIInv'
<1>1. /\ modelCmd = ModelIdle /\ modelCmds' = modelCmds + 1
      /\ modelCmd' = [pc |-> "auto"] /\ replayedUp' = FALSE /\ unsaved' = FALSE /\ Settled
      /\ IF Up THEN UNCHANGED clusterVars
         ELSE routes' = Chart /\ secretKey' = 0 /\ router' = RouteEntries(Chart) /\ routerKey' = 0
      /\ UNCHANGED <<hostKey, portUp, modelRec, primary, modelFaults>>
  BY DEF StackSync
<1>2. modelCmd.pc = "idle" /\ modelCmd'.pc = "auto" /\ modelCmd' \in UpCommands
  BY <1>1 DEF ModelIdle, UpCommands
<1>3. RouteList(routes') /\ Up'
  <2>1. CASE Up
    BY <1>1, <2>1 DEF ModelIInv, ListsOK, Up, clusterVars
  <2>2. CASE ~Up
    BY <1>1, <2>2, ChartIs DEF Up
  <2> QED BY <2>1, <2>2
<1>4. RecordedList' = RecordedList
  BY <1>1 DEF RecordedList
<1>5. ListsOK'
  BY <1>1, <1>3, <1>4 DEF ModelIInv, ListsOK, RouteList, NamedOnce
<1>6. /\ intent' \in [OperatorModels -> 0..3] /\ head' \in OperatorModels \cup {NoRoutes}
      /\ HasIntent(RecordedList, intent', head')
  BY <1>1, SettledHasIntent DEF ModelIInv
<1>7. ValuesOK'
  <2>1. modelCmds' \in Nat
    BY <1>1 DEF ModelIInv, ValuesOK
  <2>2. secretKey' \in {0} \cup Keys /\ routerKey' \in {0} \cup Keys
    BY <1>1 DEF ModelIInv, ValuesOK, clusterVars
  <2> QED BY <1>1, <1>6, <2>1, <2>2 DEF ModelIInv, ValuesOK
<1>8. CommandOK'
  BY <1>1, <1>2, <1>3 DEF CommandOK, ModelCommands, BeforeReconcile, AfterReconcile
<1>9. IntentKept'
  <2>1. HasIntent(RecordedList, intent, head)'
    BY <1>4, <1>6 DEF HasIntent, HasSetUp, Leads
  <2> QED BY <1>2, <2>1 DEF IntentKept, BeforeReconcile, AfterReconcile
<1>10. ReplayKept'
  BY <1>1 DEF ReplayKept
<1>11. RouterInStep'
  <2>1. CASE Up
    <3>1. modelFaults = 0 => SameNames /\ SameKey
      BY <1>2, <2>1 DEF ModelIInv, RouterInStep, InStepAt
    <3>2. UNCHANGED <<SameNames, SameKey>>
      BY <1>1, <2>1 DEF clusterVars, SameNames, SameKey, RouterNames, EntryNames
    <3> QED BY <1>1, <1>2, <3>1, <3>2 DEF RouterInStep, InStepAt
  <2>2. CASE ~Up
    <3>1. routes' = Chart /\ secretKey' = 0 /\ router' = RouteEntries(Chart) /\ routerKey' = 0
      BY <1>1, <2>2
    <3>2. SameNames' /\ SameKey'
      BY <3>1, ChartIs DEF SameNames, SameKey, RouterNames, EntryNames
    <3> QED BY <1>2, <3>2 DEF RouterInStep, InStepAt
  <2> QED BY <2>1, <2>2
<1> QED BY <1>5, <1>7, <1>8, <1>9, <1>10, <1>11 DEF ModelIInv

LEMMA AutoEntriesKeep ==
    ASSUME NEW list, RouteList(list)
    PROVE  RouteList(AutoEntries(list)) /\ (~portUp /\ HasConfiguredModels(list) => AutoEntries(list) = list)
<1>1. Entry(OllamaModel, Detected) \in ModelEntries /\ Entry(LocalModel, Detected) \in ModelEntries
  BY DEF Entry, ModelEntries, OperatorModels, Detected
<1>2. RouteList(AutoEntriesOllama(list))
  BY <1>1, PatchKeeps DEF AutoEntriesOllama
<1>3. RouteList(AutoEntries(list))
  BY <1>1, <1>2, PatchKeeps DEF AutoEntries
<1> QED BY <1>3 DEF AutoEntries, AutoEntriesOllama

LEMMA AutoConfigureKeeps ==
    ASSUME ModelAssumption, ModelIInv, AutoConfigureLLM
    PROVE  ModelIInv'
<1> DEFINE next == IF portUp \/ ~HasConfiguredModels(routes) THEN "autorestart" ELSE "reconcile"
<1>1. /\ modelCmd.pc = "auto"
      /\ routes' = AutoEntries(routes)
      /\ Goto(next)
      /\ UNCHANGED <<secretKey, router, routerKey, hostKey, portUp, modelRec, primary, intentVars, modelCounts, replayedUp>>
  BY DEF AutoConfigureLLM
<1>2. RouteList(routes) /\ replayedUp = FALSE /\ Up /\ unsaved = FALSE
  BY <1>1, Busy DEF ModelIInv, CommandOK, ValuesOK, BeforeReconcile
<1>3. next \in {"autorestart", "reconcile"} /\ (next = "reconcile" => ~portUp /\ HasConfiguredModels(routes))
  OBVIOUS
<1> HIDE DEF next
<1>4. modelCmd' \in UpCommands /\ modelCmd'.pc = next
  BY <1>1, <1>3, CommandShape, GotoKeeps DEF ModelIInv, CommandOK
<1>5. RouteList(routes') /\ (next = "reconcile" => routes' = routes)
  BY <1>1, <1>2, <1>3, AutoEntriesKeep
<1>6. Up'
  BY <1>5 DEF Up, RouteList, ModelAssumption
<1>7. RecordedList' = RecordedList
  BY <1>1 DEF RecordedList
<1>8. ValuesOK'
  BY <1>1 DEF ModelIInv, ValuesOK, intentVars, modelCounts
<1>9. ListsOK'
  BY <1>1, <1>5, <1>7 DEF ModelIInv, ListsOK, RouteList, NamedOnce
<1>10. CommandOK'
  BY <1>1, <1>2, <1>3, <1>4, <1>6 DEF CommandOK, ModelCommands, BeforeReconcile, AfterReconcile, intentVars
<1>11. IntentKept'
  <2>1. HasIntent(RecordedList, intent, head)'
    BY <1>1, <1>2, <1>7 DEF ModelIInv, IntentKept, HasIntent, HasSetUp, Leads, intentVars
  <2> QED BY <1>3, <1>4, <2>1 DEF IntentKept, BeforeReconcile, AfterReconcile
<1>12. ReplayKept'
  BY <1>1, <1>2 DEF ReplayKept
<1>13. RouterInStep'
  <2>1. modelFaults = 0 => SameNames /\ SameKey
    BY <1>1, <1>2 DEF ModelIInv, RouterInStep, InStepAt
  <2>2. ASSUME next = "reconcile"
        PROVE  UNCHANGED <<SameNames, SameKey>>
    <3>1. routes' = routes
      BY <1>5, <2>2
    <3> QED BY <1>1, <3>1 DEF SameNames, SameKey, RouterNames, EntryNames
  <2> QED BY <1>1, <1>3, <1>4, <2>1, <2>2 DEF RouterInStep, InStepAt, modelCounts
<1> QED BY <1>8, <1>9, <1>10, <1>11, <1>12, <1>13 DEF ModelIInv

LEMMA UpRestartKeeps ==
    ASSUME ModelIInv,
           \/ AutoRestart /\ modelCmd.pc = "autorestart"
           \/ ReconcileRestart /\ modelCmd.pc = "uprestart"
    PROVE  ModelIInv'
<1> DEFINE next == IF modelCmd.pc = "autorestart" THEN "reconcile" ELSE "upsync"
<1>1. /\ modelCmd.pc \in {"autorestart", "uprestart"} /\ Goto(next)
      /\ \/ Rolled /\ UNCHANGED modelFaults
         \/ ModelFault /\ (Rolled \/ Unrolled)
      /\ UNCHANGED <<routes, secretKey, hostKey, portUp, modelRec, primary, intentVars, modelCmds, replayedUp>>
  BY DEF AutoRestart, ReconcileRestart, UpRestart
<1>2. /\ modelCmd' \in UpCommands \cup KeysCommands /\ modelCmd'.pc = next
      /\ next = "reconcile" => modelCmd.pc = "autorestart"
      /\ next = "upsync" => modelCmd.pc = "uprestart"
      /\ next \in {"reconcile", "upsync"}
  BY <1>1, CommandShape, GotoKeeps DEF ModelIInv, CommandOK
<1> HIDE DEF next
<1>3. Up /\ replayedUp = FALSE /\ unsaved = FALSE /\ modelFaults \in Nat
  BY <1>1, Busy DEF ModelIInv, CommandOK, ValuesOK, BeforeReconcile, AfterReconcile
<1>4. RouterInStep' /\ modelFaults' \in Nat
  <2>1. CASE ModelFault
    BY <1>3, <2>1, FaultTold
  <2>2. CASE Rolled /\ UNCHANGED modelFaults
    <3>1. SameNames' /\ SameKey'
      BY <1>1, <2>2, RolledInStep
    <3> QED BY <1>2, <1>3, <2>2, <3>1 DEF RouterInStep, InStepAt
  <2> QED BY <1>1, <2>1, <2>2
<1>5. ValuesOK'
  <2>1. routerKey' \in {0} \cup Keys
    BY <1>1 DEF ModelIInv, ValuesOK, Rolled, Unrolled
  <2> QED BY <1>1, <1>4, <2>1 DEF ModelIInv, ValuesOK, intentVars
<1>6. ListsOK' /\ (Up' <=> Up)
  BY <1>1, ListsSame DEF ModelIInv
<1>7. CommandOK'
  BY <1>1, <1>2, <1>3, <1>6 DEF CommandOK, ModelCommands, BeforeReconcile, AfterReconcile, intentVars
<1>8. IntentKept'
  BY <1>1, <1>2, IntentSame DEF ModelIInv, BeforeReconcile, AfterReconcile
<1>9. ReplayKept'
  BY <1>1, <1>3 DEF ReplayKept
<1> QED BY <1>4, <1>5, <1>6, <1>7, <1>8, <1>9 DEF ModelIInv

LEMMA ReconcileKeeps ==
    ASSUME ModelAssumption, ModelIInv, ReconcileRecorded
    PROVE  ModelIInv'
<1> DEFINE merged == MergeRecorded(RecordedList, routes)
<1>1. /\ modelCmd.pc = "reconcile"
      /\ \/ RecordedList = <<>> /\ Goto("upsync") /\ UNCHANGED routes
         \/ /\ RecordedList # <<>> /\ routes' = merged
            /\ modelCmd' = [pc |-> "keys", listed |-> merged # routes]
      /\ UNCHANGED <<secretKey, router, routerKey, hostKey, portUp, modelRec, primary, intentVars, modelCounts, replayedUp>>
  BY DEF ReconcileRecorded
<1>2. /\ RouteList(routes) /\ RouteList(RecordedList) /\ replayedUp = FALSE /\ Up /\ unsaved = FALSE
      /\ HasIntent(RecordedList, intent, head)
      /\ \A i \in 1..Len(RecordedList) : RecordedList[i].name \in OperatorModels
  BY <1>1, Busy DEF ModelIInv, ListsOK, CommandOK, ValuesOK, IntentKept, BeforeReconcile
<1>3. RecordedList \in Seq(ModelEntries) /\ Len(RecordedList) \in Nat
  BY <1>2, LenProperties DEF RouteList
<1>4. /\ RouteList(merged)
      /\ \A i \in 1..Len(RecordedList) : i \in 1..Len(merged) /\ merged[i] = RecordedList[i]
  BY <1>2, MergeKeeps
<1>5. RecordedList' = RecordedList
  BY <1>1 DEF RecordedList
<1> HIDE DEF merged
<1>6. modelFaults = 0 => SameNames /\ SameKey
  BY <1>1, <1>2 DEF ModelIInv, RouterInStep, InStepAt
<1>7. ValuesOK'
  BY <1>1 DEF ModelIInv, ValuesOK, intentVars, modelCounts
<1>8. ReplayKept'
  BY <1>1, <1>2 DEF ReplayKept
<1>9. HasIntent(RecordedList, intent, head)'
  BY <1>1, <1>2, <1>5 DEF HasIntent, HasSetUp, Leads, intentVars
<1>10. CASE RecordedList = <<>> /\ Goto("upsync") /\ UNCHANGED routes
  <2>1. modelCmd' \in UpCommands /\ modelCmd'.pc = "upsync"
    BY <1>1, <1>10, CommandShape, GotoKeeps DEF ModelIInv, CommandOK
  <2>2. ListsOK' /\ (Up' <=> Up)
    BY <1>1, <1>10, ListsSame DEF ModelIInv
  <2>3. CommandOK'
    BY <1>1, <1>2, <2>1, <2>2 DEF CommandOK, ModelCommands, BeforeReconcile, AfterReconcile, intentVars
  <2>4. Len(RecordedList) = 0
    BY <1>10
  <2>5. (\A n \in OperatorModels : intent[n] = 0) /\ head = NoRoutes
    BY <1>2, <2>4 DEF HasIntent, HasSetUp, Leads
  <2>6. HasIntent(routes', intent', head')
    BY <1>1, <2>5 DEF HasIntent, HasSetUp, intentVars
  <2>7. IntentKept'
    <3>1. head' = NoRoutes
      BY <1>1, <2>5 DEF intentVars
    <3>2. HasIntent(routes, intent, head)'
      BY <2>6 DEF HasIntent, HasSetUp, Leads
    <3> QED BY <1>9, <2>1, <3>1, <3>2 DEF IntentKept
  <2>8. RouterInStep'
    <3>1. UNCHANGED <<SameNames, SameKey>>
      BY <1>1, <1>10 DEF SameNames, SameKey, RouterNames, EntryNames
    <3> QED BY <1>1, <1>2, <1>6, <2>1, <3>1 DEF RouterInStep, InStepAt, modelCounts
  <2> QED BY <1>7, <1>8, <2>2, <2>3, <2>7, <2>8 DEF ModelIInv
<1>11. CASE /\ RecordedList # <<>> /\ routes' = merged
            /\ modelCmd' = [pc |-> "keys", listed |-> merged # routes]
  <2>1. modelCmd' \in KeysCommands /\ modelCmd'.pc = "keys" /\ (~modelCmd'.listed => routes' = routes)
    BY <1>11 DEF KeysCommands
  <2>2. Up' /\ RouteList(routes')
    BY <1>4, <1>11 DEF Up, RouteList, ModelAssumption
  <2>3. ListsOK'
    BY <1>1, <1>5, <2>2 DEF ModelIInv, ListsOK, RouteList, NamedOnce
  <2>4. CommandOK'
    <3>1. modelRec' # NoRoutes
      BY <1>1, <1>11 DEF RecordedList
    <3> QED BY <1>1, <1>2, <2>1, <2>2, <3>1 DEF CommandOK, ModelCommands, BeforeReconcile, AfterReconcile, intentVars
  <2>5. HasSetUp(merged, intent)
    <3> SUFFICES ASSUME NEW n \in OperatorModels, intent[n] # 0
                 PROVE  \E i \in 1..Len(merged) : merged[i] = Entry(n, intent[n])
      BY DEF HasSetUp
    <3>1. PICK i \in 1..Len(RecordedList) : RecordedList[i] = Entry(n, intent[n])
      BY <1>2 DEF HasIntent, HasSetUp
    <3> QED BY <1>4, <3>1
  <2>6. ASSUME head # NoRoutes, NEW skip, head \notin skip
        PROVE  Leads(merged, head, skip)
    <3>1. PICK i \in 1..Len(RecordedList) :
            RecordedList[i].name = head /\ \A j \in 1..(i - 1) : RecordedList[j].name \in Unrecorded
      BY <1>2, <2>6 DEF HasIntent, Leads
    <3>2. i = 1
      <4> SUFFICES ASSUME 1 < i
                   PROVE  FALSE
        BY <1>3, <3>1
      <4>1. 1 \in 1..(i - 1) /\ 1 \in 1..Len(RecordedList)
        BY <1>3, <3>1
      <4>2. RecordedList[1].name \in Unrecorded /\ RecordedList[1].name \in OperatorModels
        BY <1>2, <3>1, <4>1
      <4> QED BY <4>2 DEF Unrecorded, ModelAssumption
    <3>3. 1 \in 1..Len(merged) /\ merged[1].name = head
      BY <1>4, <3>1, <3>2
    <3>4. \A j \in 1..(1 - 1) : FALSE
      OBVIOUS
    <3> QED BY <2>6, <3>3, <3>4 DEF Leads
  <2>7. head # NoRoutes => Leads(merged, head, Unrecorded) /\ Leads(merged, head, {})
    <3>1. head # NoRoutes => head \in OperatorModels
      BY DEF ModelIInv, ValuesOK
    <3>2. head # NoRoutes => head \notin Unrecorded
      BY <3>1 DEF Unrecorded, ModelAssumption
    <3> QED BY <2>6, <3>2
  <2>8. IntentKept'
    <3>1. HasIntent(routes, intent, head)'
      BY <1>1, <1>11, <2>5, <2>7 DEF HasIntent, HasSetUp, Leads, intentVars, Unrecorded
    <3>2. (head # NoRoutes => Leads(routes, head, {}))'
      BY <1>1, <1>11, <2>7 DEF Leads, intentVars
    <3> QED BY <1>9, <3>1, <3>2 DEF IntentKept
  <2>9. RouterInStep'
    <3>1. SameKey' <=> SameKey
      BY <1>1 DEF SameKey
    <3>2. ~modelCmd'.listed => (SameNames' <=> SameNames)
      <4>1. ASSUME routes' = routes
            PROVE  SameNames' <=> SameNames
        BY <1>1, <4>1 DEF SameNames, RouterNames, EntryNames
      <4> QED BY <2>1, <4>1
    <3> QED BY <1>1, <1>6, <2>1, <3>1, <3>2 DEF RouterInStep, InStepAt, modelCounts
  <2> QED BY <1>7, <1>8, <2>3, <2>4, <2>8, <2>9 DEF ModelIInv
<1> QED BY <1>1, <1>10, <1>11

LEMMA KeysKeep ==
    ASSUME ModelIInv, ApplyRecordedSecrets
    PROVE  ModelIInv'
<1> DEFINE k == ResolveSecretRefs(modelRec.key)
           keyed == k # 0 /\ k # secretKey
           next == IF ReconcileNeedsRestart(modelCmd.listed, keyed) THEN "uprestart" ELSE "upsync"
<1>1. /\ modelCmd.pc = "keys"
      /\ secretKey' = IF keyed THEN k ELSE secretKey
      /\ Goto(next)
      /\ UNCHANGED <<routes, router, routerKey, hostKey, portUp, modelRec, primary, intentVars, modelCounts, replayedUp>>
  BY DEF ApplyRecordedSecrets
<1>2. next \in {"uprestart", "upsync"} /\ (next = "upsync" => ~modelCmd.listed /\ ~keyed)
  BY DEF ReconcileNeedsRestart
<1>3. keyed => k \in Keys
  <2>1. modelRec \in ModelRecords
    BY <1>1 DEF ModelIInv, ListsOK, CommandOK
  <2>2. modelRec.key \in {0, FromEnv} \cup Keys
    BY <2>1 DEF ModelRecords
  <2>3. hostKey \in {0} \cup Keys
    BY DEF ModelIInv, ValuesOK
  <2> QED BY <2>2, <2>3 DEF ResolveSecretRefs
<1> HIDE DEF next
<1>4. modelCmd' \in KeysCommands /\ modelCmd'.pc = next
  BY <1>1, <1>2, CommandShape, GotoKeeps DEF ModelIInv, CommandOK
<1>5. Up /\ replayedUp = FALSE /\ unsaved = FALSE
  BY <1>1, Busy DEF ModelIInv, CommandOK, ValuesOK, AfterReconcile
<1>6. ValuesOK'
  <2>1. secretKey' \in {0} \cup Keys
    BY <1>1, <1>3 DEF ModelIInv, ValuesOK
  <2> QED BY <1>1, <2>1 DEF ModelIInv, ValuesOK, intentVars, modelCounts
<1>7. ListsOK' /\ (Up' <=> Up)
  BY <1>1, ListsSame DEF ModelIInv
<1>8. CommandOK'
  BY <1>1, <1>2, <1>4, <1>5, <1>7 DEF CommandOK, ModelCommands, BeforeReconcile, AfterReconcile, intentVars
<1>9. IntentKept'
  BY <1>1, <1>2, <1>4, IntentSame DEF ModelIInv, BeforeReconcile, AfterReconcile
<1>10. ReplayKept'
  BY <1>1, <1>5 DEF ReplayKept
<1>11. RouterInStep'
  <2>1. modelFaults = 0 => SameKey /\ (~modelCmd.listed => SameNames)
    BY <1>1, <1>5 DEF ModelIInv, RouterInStep, InStepAt
  <2>2. SameNames' <=> SameNames
    BY <1>1 DEF SameNames, RouterNames, EntryNames
  <2>3. ~keyed => (SameKey' <=> SameKey)
    BY <1>1 DEF SameKey
  <2> HIDE DEF keyed
  <2> QED BY <1>1, <1>2, <1>4, <2>1, <2>2, <2>3 DEF RouterInStep, InStepAt, modelCounts
<1> QED BY <1>6, <1>7, <1>8, <1>9, <1>10, <1>11 DEF ModelIInv

LEMMA SetupDefaultKeeps ==
    ASSUME ModelAssumption, ModelIInv, SetupDefault
    PROVE  ModelIInv'
<1>1. /\ modelCmd.pc = "upsync" /\ modelCmd' = ModelIdle /\ primary' = Rank(routes) /\ replayedUp' = TRUE
      /\ UNCHANGED <<clusterVars, hostKey, portUp, modelRec, intentVars, modelCounts>>
  BY DEF SetupDefault, ModelEnds
<1>2. /\ Up /\ RouteList(routes) /\ modelCmd'.pc = "idle" /\ modelCmd' \in UpCommands
      /\ head \in OperatorModels \cup {NoRoutes}
  BY <1>1, Busy DEF ModelIdle, UpCommands, ModelIInv, ValuesOK
<1>3. ListsOK' /\ (Up' <=> Up)
  BY <1>1, ListsSame DEF ModelIInv, clusterVars
<1>4. ValuesOK'
  BY <1>1 DEF ModelIInv, ValuesOK, clusterVars, intentVars, modelCounts
<1>5. CommandOK'
  BY <1>2, <1>3 DEF CommandOK, ModelCommands, BeforeReconcile, AfterReconcile
<1>6. IntentKept'
  BY <1>1, <1>2, IntentSame DEF ModelIInv, BeforeReconcile, AfterReconcile, clusterVars
<1>7. ReplayKept'
  <2>1. ASSUME head # NoRoutes
        PROVE  Rank(routes) = head
    <3>1. Leads(routes, head, {})
      BY <1>1, <2>1 DEF ModelIInv, IntentKept, AfterReconcile
    <3>2. head \notin {CatchAll}
      BY <1>2, <2>1 DEF ModelAssumption
    <3>3. Leads(routes, head, {CatchAll})
      BY <3>1, <3>2 DEF Leads
    <3>4. First(Leaving(routes, {CatchAll})) = head
      BY <1>2, <2>1, <3>3, FirstLeft
    <3> QED BY <3>4 DEF Rank, GetConfiguredModels, Without
  <2> QED BY <1>1, <1>2, <1>3, <2>1 DEF ReplayKept, intentVars
<1>8. RouterInStep'
  <2>1. modelFaults = 0 => SameNames /\ SameKey
    BY <1>1, <1>2 DEF ModelIInv, RouterInStep, InStepAt
  <2>2. UNCHANGED <<SameNames, SameKey>>
    BY <1>1 DEF clusterVars, SameNames, SameKey, RouterNames, EntryNames
  <2> QED BY <1>1, <1>2, <2>1, <2>2 DEF RouterInStep, InStepAt, modelCounts
<1> QED BY <1>3, <1>4, <1>5, <1>6, <1>7, <1>8 DEF ModelIInv

LEMMA ClusterGoneKeeps ==
    ASSUME ModelIInv, ModelClusterGone
    PROVE  ModelIInv'
<1>1. /\ modelCmd = ModelIdle /\ modelCmds' = modelCmds + 1
      /\ routes' = NoRoutes /\ secretKey' = 0 /\ router' = {} /\ routerKey' = 0 /\ replayedUp' = FALSE
      /\ UNCHANGED <<hostKey, portUp, modelRec, primary, intentVars, modelCmd, modelFaults>>
  BY DEF ModelClusterGone
<1>2. ~Up' /\ modelCmd'.pc = "idle" /\ modelCmd.pc = "idle" /\ modelCmd' = modelCmd /\ RecordedList' = RecordedList
  BY <1>1 DEF Up, ModelIdle, RecordedList
<1>3. ValuesOK'
  <2>1. modelCmds' \in Nat /\ 0 \in {0} \cup Keys
    BY <1>1 DEF ModelIInv, ValuesOK
  <2> QED BY <1>1, <2>1 DEF ModelIInv, ValuesOK, intentVars
<1>4. ListsOK'
  BY <1>1, <1>2 DEF ModelIInv, ListsOK, RouteList, NamedOnce
<1>5. CommandOK'
  BY <1>2 DEF ModelIInv, CommandOK, BeforeReconcile, AfterReconcile
<1>6. IntentKept'
  <2>1. HasIntent(RecordedList, intent, head)' = HasIntent(RecordedList, intent, head)
    BY <1>1, <1>2 DEF HasIntent, HasSetUp, Leads, intentVars
  <2> QED BY <1>1, <1>2, <2>1 DEF ModelIInv, IntentKept, AfterReconcile, intentVars
<1> QED BY <1>1, <1>2, <1>3, <1>4, <1>5, <1>6 DEF ModelIInv, ReplayKept, RouterInStep

LEMMA PodsKeep ==
    ASSUME ModelIInv, PodsReplaced
    PROVE  ModelIInv'
<1>1. /\ Up /\ Rolled
      /\ UNCHANGED <<routes, secretKey, hostKey, portUp, modelRec, primary, intentVars, modelCmd, modelCounts, replayedUp>>
  BY DEF PodsReplaced
<1>2. ValuesOK'
  <2>1. routerKey' \in {0} \cup Keys
    BY <1>1 DEF Rolled, ModelIInv, ValuesOK
  <2> QED BY <1>1, <2>1 DEF ModelIInv, ValuesOK, intentVars, modelCounts
<1>3. ListsOK' /\ (Up' <=> Up)
  BY <1>1, ListsSame DEF ModelIInv
<1>4. CommandOK'
  BY <1>1, <1>3 DEF ModelIInv, CommandOK, Lists, intentVars
<1>5. IntentKept'
  BY <1>1, IntentSame DEF ModelIInv
<1>6. ReplayKept'
  BY <1>1, <1>3 DEF ModelIInv, ReplayKept, intentVars
<1>7. RouterInStep'
  <2>1. SameNames' /\ SameKey'
    BY <1>1, RolledInStep
  <2>2. EntryNames(routes)' = EntryNames(routes) /\ RouterNames' = EntryNames(routes)
    <3>1. EntryNames(routes)' = EntryNames(routes)
      BY <1>1 DEF EntryNames
    <3> QED BY <2>1, <3>1 DEF SameNames
  <2>3. modelCmd.pc = "hotadd" => modelCmd.entry.name \in EntryNames(routes)
    BY DEF ModelIInv, CommandOK, Lists, EntryNames
  <2>4. modelCmd.pc = "hotdelete" => modelCmd.name \notin EntryNames(routes)
    BY DEF ModelIInv, CommandOK, Lists, EntryNames
  <2> QED BY <1>1, <2>1, <2>2, <2>3, <2>4 DEF RouterInStep, InStepAt
<1> QED BY <1>2, <1>3, <1>4, <1>5, <1>6, <1>7 DEF ModelIInv

LEMMA PurchaseRoutesKeep ==
    ASSUME ModelAssumption, ModelIInv, PurchaseRoutes
    PROVE  ModelIInv'
<1> DEFINE e == Entry(PaidModel, Detected)
           there == Lists(routes, PaidModel)
<1>1. /\ Up /\ modelCmd = ModelIdle /\ modelCmds' = modelCmds + 1
      /\ routes' = IF there THEN Without(routes, PaidModel) ELSE Append(routes, e)
      /\ \/ /\ router' = IF there THEN HotDeleteLiteLLMModel(PaidModel) ELSE HotAddLiteLLMModel(e)
            /\ UNCHANGED modelFaults
         \/ ModelFault /\ UNCHANGED router
      /\ replayedUp' = FALSE
      /\ UNCHANGED <<secretKey, routerKey, hostKey, portUp, modelRec, primary, intentVars, modelCmd>>
  BY DEF PurchaseRoutes
<1>2. /\ modelCmd.pc = "idle" /\ modelCmd' = modelCmd /\ RecordedList' = RecordedList
      /\ intent' = intent /\ head' = head /\ unsaved' = unsaved
  BY <1>1 DEF ModelIdle, RecordedList, intentVars
<1>3. /\ RouteList(routes) /\ HasIntent(routes, intent, head) /\ head \in OperatorModels \cup {NoRoutes}
      /\ modelFaults \in Nat
  BY <1>1, <1>2 DEF ModelIInv, ListsOK, ValuesOK, IntentKept, BeforeReconcile
<1>4. /\ RouteList(routes') /\ Up' /\ HasIntent(routes, intent, head)'
      /\ EntryNames(routes)' = IF there THEN EntryNames(routes) \ {PaidModel} ELSE EntryNames(routes) \cup {PaidModel}
  <2>1. CASE there
    <3>1. routes' = Leaving(routes, {PaidModel})
      BY <1>1, <2>1 DEF Without
    <3>2. \A n \in OperatorModels : intent'[n] # 0 => n \notin {PaidModel} /\ intent'[n] = intent[n]
      BY <1>2 DEF ModelAssumption
    <3>3. head' # NoRoutes => head' \notin {PaidModel} /\ head' = head
      BY <1>2, <1>3 DEF ModelAssumption
    <3> QED BY <1>3, <2>1, <3>1, <3>2, <3>3, LeavingHasIntent
  <2>2. CASE ~there
    <3> DEFINE new == PatchLiteLLMConfig(routes, e)
    <3>1. e \in ModelEntries /\ e.name = PaidModel
      BY DEF Entry, ModelEntries, Detected
    <3>2. routes' = new
      BY <1>1, <2>2, <3>1 DEF PatchLiteLLMConfig
    <3>3. /\ RouteList(new) /\ EntryNames(new) = EntryNames(routes) \cup {PaidModel}
          /\ \A i \in 1..Len(routes) : routes[i].name # PaidModel => \E k \in 1..Len(new) : new[k] = routes[i]
          /\ \A n, skip : Leads(routes, n, skip) => Leads(new, n, skip)
      <4> HIDE DEF e
      <4>1. /\ RouteList(new) /\ EntryNames(new) = EntryNames(routes) \cup {e.name}
            /\ \A i \in 1..Len(routes) : routes[i].name # e.name => \E k \in 1..Len(new) : new[k] = routes[i]
            /\ \A n, skip : Leads(routes, n, skip) => Leads(new, n, skip)
        <5>1. RouteList(routes) /\ e \in ModelEntries
          BY <1>3, <3>1
        <5> QED BY <5>1, PatchKeeps, Zenon
      <4> HIDE DEF new
      <4> QED BY <3>1, <4>1
    <3> HIDE DEF new
    <3>4. Up'
      BY <3>2, <3>3 DEF Up, RouteList, ModelAssumption
    <3>5. HasSetUp(new, intent)
      <4> SUFFICES ASSUME NEW n \in OperatorModels, intent[n] # 0
                   PROVE  \E i \in 1..Len(new) : new[i] = Entry(n, intent[n])
        BY DEF HasSetUp
      <4>1. PICK i \in 1..Len(routes) : routes[i] = Entry(n, intent[n])
        BY <1>3 DEF HasIntent, HasSetUp
      <4>2. routes[i].name = n /\ n # PaidModel
        BY <4>1 DEF Entry, ModelAssumption
      <4> QED BY <3>3, <4>1, <4>2
    <3>6. head # NoRoutes => Leads(new, head, Unrecorded)
      BY <1>3, <3>3 DEF HasIntent
    <3>7. HasIntent(routes, intent, head)'
      BY <1>2, <3>2, <3>5, <3>6 DEF HasIntent, HasSetUp, Leads, Unrecorded
    <3>8. EntryNames(routes)' = EntryNames(new)
      BY <3>2 DEF EntryNames
    <3> QED BY <2>2, <3>2, <3>3, <3>4, <3>7, <3>8
  <2> QED BY <2>1, <2>2
<1>5. ListsOK'
  BY <1>1, <1>2, <1>4 DEF ModelIInv, ListsOK, RouteList, NamedOnce
<1>6. CommandOK'
  BY <1>2, <1>4 DEF ModelIInv, CommandOK, BeforeReconcile, AfterReconcile
<1>7. IntentKept'
  <2>1. HasIntent(RecordedList, intent, head)' = HasIntent(RecordedList, intent, head)
    BY <1>2 DEF HasIntent, HasSetUp, Leads
  <2> QED BY <1>2, <1>4, <2>1 DEF ModelIInv, IntentKept, AfterReconcile
<1>8. RouterInStep' /\ modelFaults' \in Nat
  <2>1. CASE ModelFault
    BY <1>3, <2>1, FaultTold
  <2>2. CASE /\ router' = IF there THEN HotDeleteLiteLLMModel(PaidModel) ELSE HotAddLiteLLMModel(e)
             /\ UNCHANGED modelFaults
    <3>1. modelFaults = 0 => SameNames /\ SameKey
      BY <1>1, <1>2 DEF ModelIInv, RouterInStep, InStepAt
    <3>2. RouterNames' = IF there THEN RouterNames \ {PaidModel} ELSE RouterNames \cup {PaidModel}
      <4>1. e.name = PaidModel
        BY DEF Entry
      <4>2. CASE there
        <5>1. router' = {x \in router : x.name # PaidModel}
          BY <2>2, <4>2 DEF HotDeleteLiteLLMModel, LiteLLMModelsByName
        <5> QED BY <4>2, <5>1 DEF RouterNames
      <4>3. CASE ~there
        <5>1. router' = router \cup {e}
          BY <2>2, <4>3 DEF HotAddLiteLLMModel
        <5> HIDE DEF e, there
        <5> QED BY <4>1, <4>3, <5>1 DEF RouterNames
      <4> QED BY <4>2, <4>3
    <3>3. SameKey' <=> SameKey
      BY <1>1 DEF SameKey
    <3> HIDE DEF there
    <3> QED BY <1>2, <1>3, <1>4, <2>2, <3>1, <3>2, <3>3 DEF RouterInStep, InStepAt, SameNames
  <2> QED BY <1>1, <2>1, <2>2
<1>9. ValuesOK'
  <2>1. modelCmds' \in Nat
    BY <1>1 DEF ModelIInv, ValuesOK
  <2> QED BY <1>1, <1>8, <2>1 DEF ModelIInv, ValuesOK, intentVars
<1>10. ReplayKept'
  BY <1>1 DEF ReplayKept
<1> QED BY <1>5, <1>6, <1>7, <1>8, <1>9, <1>10 DEF ModelIInv

LEMMA HostChangesKeep ==
    ASSUME ModelIInv, HostChanges
    PROVE  ModelIInv'
<1>1. /\ modelCmd = ModelIdle /\ modelCmds' = modelCmds + 1
      /\ hostKey' \in {0} \cup Keys /\ portUp' \in BOOLEAN
      /\ replayedUp' = FALSE
      /\ UNCHANGED <<clusterVars, modelRec, primary, intentVars, modelCmd, modelFaults>>
  BY DEF HostChanges, ModelIInv, ValuesOK
<1>2. modelCmd.pc = "idle" /\ modelCmd' = modelCmd
  BY <1>1 DEF ModelIdle
<1>3. ValuesOK'
  <2>1. modelCmds' \in Nat
    BY <1>1 DEF ModelIInv, ValuesOK
  <2> QED BY <1>1, <2>1 DEF ModelIInv, ValuesOK, intentVars, clusterVars
<1>4. ListsOK' /\ (Up' <=> Up)
  BY <1>1, ListsSame DEF ModelIInv, clusterVars
<1>5. CommandOK'
  BY <1>2, <1>4 DEF ModelIInv, CommandOK, BeforeReconcile, AfterReconcile
<1>6. IntentKept'
  BY <1>1, <1>2, IntentSame DEF ModelIInv, clusterVars
<1>7. ReplayKept'
  BY <1>1 DEF ReplayKept
<1>8. RouterInStep'
  <2>1. modelFaults = 0 /\ Up => SameNames /\ SameKey
    BY <1>2 DEF ModelIInv, RouterInStep, InStepAt
  <2>2. UNCHANGED <<SameNames, SameKey>>
    BY <1>1 DEF clusterVars, SameNames, SameKey, RouterNames, EntryNames
  <2> QED BY <1>1, <1>2, <1>4, <2>1, <2>2 DEF RouterInStep, InStepAt
<1> QED BY <1>3, <1>4, <1>5, <1>6, <1>7, <1>8 DEF ModelIInv

LEMMA ModelStutter ==
    ASSUME ModelIInv, UNCHANGED modelVars
    PROVE  ModelIInv'
<1>1. /\ UNCHANGED <<routes, secretKey, router, routerKey, hostKey, portUp, modelRec, primary, intent, head, unsaved>>
      /\ UNCHANGED <<modelCmd, modelFaults, modelCmds, replayedUp>>
  BY DEF modelVars, clusterVars, modelCounts, intentVars
<1>2. ListsOK' /\ (Up' <=> Up)
  BY <1>1, ListsSame DEF ModelIInv
<1>3. IntentKept'
  BY <1>1, IntentSame DEF ModelIInv, intentVars
<1>4. ValuesOK' /\ CommandOK' /\ ReplayKept'
  BY <1>1, <1>2 DEF ModelIInv, ValuesOK, CommandOK, ReplayKept, Lists
<1>5. RouterInStep'
  <2>1. UNCHANGED <<RouterNames, SameNames, SameKey>> /\ EntryNames(routes)' = EntryNames(routes)
    BY <1>1 DEF SameNames, SameKey, RouterNames, EntryNames
  <2> QED BY <1>1, <1>2, <2>1 DEF ModelIInv, RouterInStep, InStepAt
<1> QED BY <1>2, <1>3, <1>4, <1>5 DEF ModelIInv

LEMMA ModelInitOK ==
    ASSUME ModelAssumption, ModelInit
    PROVE  ModelIInv
<1>1. /\ routes = Chart /\ router = RouteEntries(Chart) /\ secretKey = 0 /\ routerKey = 0
      /\ hostKey \in {0, 1} /\ portUp \in BOOLEAN
      /\ modelRec = NoRoutes /\ primary = NoRoutes /\ head = NoRoutes
      /\ intent = [n \in OperatorModels |-> 0]
      /\ modelCmd = ModelIdle /\ modelFaults = 0 /\ modelCmds = 0 /\ unsaved = FALSE /\ replayedUp = FALSE
  BY DEF ModelInit
<1>2. Up /\ RouteList(routes) /\ RouterNames = EntryNames(routes)
  BY <1>1, ChartIs DEF Up, RouterNames
<1>3. RecordedList = <<>> /\ Len(RecordedList) = 0
  BY <1>1 DEF RecordedList
<1>4. modelCmd.pc = "idle" /\ modelCmd \in UpCommands
  BY <1>1 DEF ModelIdle, UpCommands
<1>5. ValuesOK
  <2>1. hostKey \in {0} \cup Keys /\ 0 \in {0} \cup Keys /\ 0 \in Nat
    BY <1>1 DEF Keys
  <2>2. intent \in [OperatorModels -> 0..3] /\ head \in OperatorModels \cup {NoRoutes}
    BY <1>1
  <2>3. unsaved \in BOOLEAN /\ replayedUp \in BOOLEAN
    BY <1>1
  <2> QED BY <1>1, <2>1, <2>2, <2>3 DEF ValuesOK
<1>6. ListsOK
  <2>1. RouteList(RecordedList)
    BY <1>3 DEF RouteList, NamedOnce
  <2>2. \A i \in 1..Len(RecordedList) : RecordedList[i].name \in OperatorModels
    BY <1>3
  <2> QED BY <1>1, <1>2, <2>1, <2>2 DEF ListsOK
<1>7. CommandOK
  BY <1>2, <1>4 DEF CommandOK, ModelCommands, BeforeReconcile, AfterReconcile
<1>8. IntentKept
  <2>1. \A list : HasIntent(list, intent, head)
    BY <1>1 DEF HasIntent, HasSetUp
  <2> QED BY <1>1, <1>4, <2>1 DEF IntentKept, AfterReconcile
<1> QED BY <1>1, <1>2, <1>4, <1>5, <1>6, <1>7, <1>8
       DEF ModelIInv, ReplayKept, RouterInStep, InStepAt, SameNames, SameKey

LEMMA ModelStep ==
    ASSUME ModelAssumption, ModelIInv, [ModelNext]_modelVars
    PROVE  ModelIInv'
<1>1. CASE SetupCloudProvider \/ SetupOllama \/ AddCustomEndpoint
  BY <1>1, SetupsKeep
<1>2. CASE PatchSecret
  BY <1>2, PatchSecretKeeps
<1>3. CASE PatchEntries
  BY <1>3, PatchEntriesKeeps
<1>4. CASE HotAdd
  BY <1>4, HotAddKeeps
<1>5. CASE RestartLiteLLM
  BY <1>5, RestartKeeps
<1>6. CASE Promote
  BY <1>6, PromoteKeeps
<1>7. CASE PreferModels
  BY <1>7, PreferKeeps
<1>8. CASE RemoveModel
  BY <1>8, RemoveKeeps
<1>9. CASE HotDelete
  BY <1>9, HotDeleteKeeps
<1>10. CASE RecordState
  BY <1>10, RecordKeeps
<1>11. CASE SyncDefaultModels
  BY <1>11, SyncKeeps
<1>12. CASE ModelCut
  BY <1>12, CutKeeps
<1>13. CASE StackSync
  BY <1>13, StackSyncKeeps
<1>14. CASE AutoConfigureLLM
  BY <1>14, AutoConfigureKeeps
<1>15. CASE AutoRestart
  BY <1>15, UpRestartKeeps DEF AutoRestart, UpRestart
<1>16. CASE ReconcileRecorded
  BY <1>16, ReconcileKeeps
<1>17. CASE ApplyRecordedSecrets
  BY <1>17, KeysKeep
<1>18. CASE ReconcileRestart
  BY <1>18, UpRestartKeeps DEF ReconcileRestart, UpRestart
<1>19. CASE SetupDefault
  BY <1>19, SetupDefaultKeeps
<1>20. CASE ModelClusterGone
  BY <1>20, ClusterGoneKeeps
<1>21. CASE PodsReplaced
  BY <1>21, PodsKeep
<1>22. CASE PurchaseRoutes
  BY <1>22, PurchaseRoutesKeep
<1>23. CASE HostChanges
  BY <1>23, HostChangesKeep
<1>24. CASE UNCHANGED modelVars
  BY <1>24, ModelStutter
<1> QED BY <1>1, <1>2, <1>3, <1>4, <1>5, <1>6, <1>7, <1>8, <1>9, <1>10, <1>11, <1>12, <1>13, <1>14,
           <1>15, <1>16, <1>17, <1>18, <1>19, <1>20, <1>21, <1>22, <1>23, <1>24 DEF ModelNext

LEMMA ModelInvFollows ==
    ASSUME ModelIInv
    PROVE  ModelInv
<1>1. ModelTypeOK
  BY DEF ModelIInv, ModelTypeOK, ValuesOK, ListsOK, RouteList, NamedOnce, ModelRecords
<1>2. RecordedIntentWins
  <2> SUFFICES ASSUME replayedUp
               PROVE  /\ \A n \in OperatorModels :
                            intent[n] # 0 => Lists(routes, n) /\ Named(routes, n).at = intent[n]
                      /\ head # NoRoutes => primary = head
    BY DEF RecordedIntentWins
  <2>1. modelCmd.pc = "idle" /\ Up /\ (head # NoRoutes => primary = head)
    BY DEF ModelIInv, ReplayKept, ModelIdle
  <2>2. RouteList(routes) /\ HasIntent(routes, intent, head)
    BY <2>1 DEF ModelIInv, ListsOK, IntentKept, BeforeReconcile
  <2>3. ASSUME NEW n \in OperatorModels, intent[n] # 0
        PROVE  Lists(routes, n) /\ Named(routes, n).at = intent[n]
    <3>1. PICK i \in 1..Len(routes) : routes[i] = Entry(n, intent[n])
      BY <2>2, <2>3 DEF HasIntent, HasSetUp
    <3>2. routes[i].name = n /\ routes[i].at = intent[n]
      BY <3>1 DEF Entry
    <3> QED BY <2>2, <3>2, NamedIs
  <2> QED BY <2>1, <2>3
<1>3. RouterFollowsList
  <2> SUFFICES ASSUME Undisturbed, Up
               PROVE  {e.name : e \in router} = EntryNames(routes) /\ routerKey = secretKey
    BY DEF RouterFollowsList
  <2>1. modelFaults = 0 /\ modelCmd.pc = "idle"
    BY DEF Undisturbed, ModelIdle
  <2>2. SameNames /\ SameKey
    BY <2>1 DEF ModelIInv, RouterInStep, InStepAt
  <2> QED BY <2>2 DEF SameNames, SameKey, RouterNames
<1> QED BY <1>1, <1>2, <1>3 DEF ModelInv

\* What the operator set up is in the list and the agent's after every stack up
\* that ran through, whatever commands, cuts, failed calls and lost clusters came
\* before, and without a failed call the router serves the list with the key of
\* the Secret (record.go ReconcileRecorded, model.go, drift.go).
THEOREM ModelHolds == ModelSpec => []ModelInv
<1>1. ModelInit => ModelIInv
  BY ModelInitOK, ModelAssumption
<1>2. ModelIInv /\ [ModelNext]_modelVars => ModelIInv'
  BY ModelStep, ModelAssumption
<1>3. ModelIInv => ModelInv
  BY ModelInvFollows
<1> QED BY <1>1, <1>2, <1>3, PTL DEF ModelSpec
=============================================================================
