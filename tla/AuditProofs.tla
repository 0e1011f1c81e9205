---------------------------- MODULE AuditProofs ----------------------------
(***************************************************************************)
(* Proofs about the audit trail and the correlation ids: every step of it  *)
(* is a step of the engine, from tables that a migration may have found    *)
(* filled; a row carries the id of the request that opened its case; and   *)
(* the rows tell what became of every case and payment.                    *)
(***************************************************************************)
EXTENDS AuditTrail, RecoveryEngineProofs

-----------------------------------------------------------------------------
(* The steps of the engine under the rows they write. *)

LEMMA RequestsAreSteps ==
  ASSUME NEW id, UNCHANGED <<store, workerVars>>,
         \/ \E e \in Events : WebhookRequest(e, id)
         \/ \E c \in CaseIds : AdminRequest(c, id)
  PROVE  [Next]_vars
<1>1. ASSUME NEW e \in Events, WebhookRequest(e, id)
      PROVE  Webhook \/ UNCHANGED vars
  BY <1>1 DEF WebhookRequest, RejectDuplicate, Webhook, ProcessWebhook, vars
<1>2. ASSUME NEW c \in CaseIds, AdminRequest(c, id)
      PROVE  Admin \/ UNCHANGED vars
  BY <1>2 DEF AdminRequest, RefuseRetry, Admin, StopCase, RetryCase, vars
<1>3. QED
  BY <1>1, <1>2 DEF Next

LEMMA AuditIsStep == [AuditNext]_auditVars => [Next]_vars
<1> SUFFICES ASSUME [AuditNext]_auditVars PROVE [Next]_vars
  OBVIOUS
<1>1. CASE UNCHANGED auditVars
  BY <1>1 DEF auditVars
<1>2. ASSUME NEW w \in Workers,
             \/ \E j \in JobIds : ClaimJob(w, j) \/ ClaimRollsBack(w, j)
             \/ VerifyPayment(w) \/ Charge(w)
             \/ FinishEvaluation(w) \/ FinishCharge(w) \/ RollBack(w) \/ Restart(w)
      PROVE  [Next]_vars
  <2>1. CASE \E j \in JobIds : ClaimJob(w, j) \/ ClaimRollsBack(w, j)
    BY <2>1 DEF ClaimJob, ClaimRollsBack, Next, WorkerStep, Claim
  <2>2. CASE FinishEvaluation(w)
    BY <2>2 DEF FinishEvaluation, Next, WorkerStep, FinalizeEvaluation
  <2>3. CASE FinishCharge(w)
    BY <2>3 DEF FinishCharge, Next, WorkerStep, FinalizeJob
  <2>4. CASE VerifyPayment(w) \/ Charge(w) \/ RollBack(w) \/ Restart(w)
    BY <2>4 DEF RollBack, Restart, Next, WorkerStep
  <2>5. QED
    BY <1>2, <2>1, <2>2, <2>3, <2>4
<1>3. CASE AuditNext
  BY <1>2, <1>3, RequestsAreSteps DEF AuditNext, Next
<1>4. QED
  BY <1>1, <1>3

(* The audit trail observes: with its rows left out, every step of it is a *)
(* step of the engine, or changes nothing.                                 *)
THEOREM AuditObserves == AuditSpec => [][Next]_vars
BY AuditIsStep, PTL DEF AuditSpec

-----------------------------------------------------------------------------
(* What a migration finds. *)

LEMMA LegacyRows ==
  ASSUME NEW x, NEW field \in {"job", "case", "payment"}, LegacyOf(x, field) # {},
         NEW l, l = CHOOSE m \in LegacyOf(x, field) : TRUE
  PROVE  /\ l \in LegacyJobs /\ l[field] = x
         /\ l.job \in JobIds /\ l.case \in CaseIds
         /\ l.payment \in PaymentIds /\ l.terms \in Terms
<1>1. l \in LegacyOf(x, field)
  OBVIOUS
<1>2. QED
  BY <1>1, TracesAssumption DEF LegacyOf

LEMMA InitAuditRows == AuditInit => RowsAndWorkers /\ OwnersRun
<1> SUFFICES ASSUME AuditInit PROVE RowsAndWorkers /\ OwnersRun
  OBVIOUS
<1>1. ASSUME NEW p \in PaymentIds
      PROVE  payments[p] \in PaymentRow
  <2>1. CASE LegacyOf(p, "payment") = {}
    BY <2>1 DEF AuditInit, PaymentRow, NoPayment
  <2>2. ASSUME LegacyOf(p, "payment") # {},
               NEW l, l = CHOOSE m \in LegacyOf(p, "payment") : TRUE
        PROVE  payments[p] \in PaymentRow
    <3>1. l.terms \in Terms
      BY <2>2, LegacyRows
    <3>2. payments[p] = [status |-> "FAILED", terms |-> l.terms]
      BY <2>2 DEF AuditInit
    <3>3. QED
      BY <3>1, <3>2 DEF PaymentRow, PaymentState
  <2>3. QED
    BY <2>1, <2>2
<1>2. ASSUME NEW c \in CaseIds
      PROVE  /\ cases[c] \in CaseRow
             /\ LegacyOf(c, "case") # {} => CaseExists(c)
             /\ CaseExists(c) => cases[c].payment \in PaymentIds
             /\ cases[c].status \in {"ABSENT", "OPEN"}
  <2>1. CASE LegacyOf(c, "case") = {}
    BY <2>1 DEF AuditInit, CaseRow, NoCase, CaseExists
  <2>2. ASSUME LegacyOf(c, "case") # {},
               NEW l, l = CHOOSE m \in LegacyOf(c, "case") : TRUE
        PROVE  /\ cases[c] \in CaseRow /\ CaseExists(c)
               /\ cases[c].payment \in PaymentIds /\ cases[c].status \in {"ABSENT", "OPEN"}
    <3>1. l.payment \in PaymentIds
      BY <2>2, LegacyRows
    <3>2. cases[c] = [status |-> "OPEN", payment |-> l.payment]
      BY <2>2 DEF AuditInit
    <3>3. QED
      BY <3>1, <3>2 DEF CaseRow, RecoveryState, CaseExists
  <2>3. QED
    BY <2>1, <2>2
<1>3. ASSUME NEW j \in JobIds
      PROVE  /\ jobs[j] \in JobRow
             /\ LegacyOf(j, "job") = {} => ~JobExists(j)
             /\ JobExists(j) =>
                   /\ jobs[j].case \in CaseIds /\ CaseExists(jobs[j].case)
                   /\ jobs[j].attempt = 0 /\ jobs[j].count = 0
  <2>1. CASE LegacyOf(j, "job") = {}
    <3>1. jobs[j] = NoJob
      BY <2>1 DEF AuditInit
    <3>2. QED
      BY <3>1 DEF JobRow, JobType, NoJob, NewJob, JobExists
  <2>2. ASSUME LegacyOf(j, "job") # {},
               NEW l, l = CHOOSE m \in LegacyOf(j, "job") : TRUE
        PROVE  /\ jobs[j] \in JobRow /\ jobs[j].case \in CaseIds /\ CaseExists(jobs[j].case)
               /\ jobs[j].attempt = 0 /\ jobs[j].count = 0
    <3>1. l \in LegacyJobs /\ l.case \in CaseIds
      BY <2>2, LegacyRows
    <3>2. l \in LegacyOf(l.case, "case")
      BY <3>1 DEF LegacyOf
    <3>3. jobs[j] = NewJob(l.case, "EVALUATE_RECOVERY", 0)
      BY <2>2 DEF AuditInit
    <3>4. QED
      BY <1>2, <3>1, <3>2, <3>3 DEF JobRow, JobState, JobType, NewJob
  <2>3. QED
    BY <2>1, <2>2
<1>4. DbTypeOK
  BY <1>1, <1>2, <1>3 DEF AuditInit, DbTypeOK
<1>5. GatewayTypeOK /\ WorkerTypeOK
  BY WorkerAssumption DEF AuditInit, GatewayTypeOK, GatewayInit, WorkerTypeOK, WorkerInit,
                          Idle, WorkerState, WorkerPc
<1>6. RowsRefer
  BY <1>2, <1>3 DEF RowsRefer, AuditInit
<1>7. JobsAreSound
  BY <1>3, MaxAttemptsAssumption DEF JobsAreSound, NextNumber
<1>8. WorkersAreSound /\ OwnersRun
  BY DEF AuditInit, WorkersAreSound, WorkerInit, Idle, OwnersRun
<1>9. WriteAhead
  BY DEF AuditInit, WriteAhead, GatewayInit
<1>10. QED
  BY <1>4, <1>5, <1>6, <1>7, <1>8, <1>9 DEF RowsAndWorkers, TypeOK

-----------------------------------------------------------------------------
(* Rows are added at the end. *)

Entities == PaymentIds \cup CaseIds \cup EventIds

Ids == Traces \cup {Generated}

AuditEvents == WorkerEvents \cup
    {"WEBHOOK_PROCESSED", "WEBHOOK_TERMINAL_DOMINANCE_ENFORCED",
     "WEBHOOK_DUPLICATE_REJECTED", "ADMIN_STOP_REJECTED", "ADMIN_RETRY_REJECTED",
     "ADMIN_STOP_CASE", "ADMIN_RETRY_CASE"}

AuditData == SupportedTypes \cup
    {"other", "none", "PAYMENT_SUCCEEDED", "ACTIVE_JOBS_EXIST", "ABORT", "CHARGE", "DELAY"}

AuditRows == [event : AuditEvents, of : Entities, data : AuditData, id : Ids]

Told(event, of, data, id) == [event |-> event, of |-> of, data |-> data, id |-> id]

LEMMA AppendedOne ==
  ASSUME NEW S, NEW s \in Seq(S), NEW x \in S
  PROVE  s \o <<x>> = Append(s, x)
OBVIOUS

LEMMA AppendedTwo ==
  ASSUME NEW S, NEW s \in Seq(S), NEW x \in S, NEW y \in S
  PROVE  s \o <<x, y>> = Append(Append(s, x), y)
OBVIOUS

LEMMA WriteOne ==
  ASSUME audit \in Seq(AuditRows), NEW event \in AuditEvents, NEW of \in Entities,
         NEW data \in AuditData, NEW id \in Ids, Write(<<Row(event, of, data)>>, id)
  PROVE  /\ audit' = Append(audit, Told(event, of, data, id))
         /\ Told(event, of, data, id) \in AuditRows
<1> DEFINE r == Told(event, of, data, id)
           rows == <<Row(event, of, data)>>
           more == [i \in DOMAIN rows |->
                       [event |-> rows[i].event, of |-> rows[i].of,
                        data |-> rows[i].data, id |-> id]]
<1>1. r \in AuditRows
  BY DEF Told, AuditRows
<1>2. more = <<r>>
  <2>1. DOMAIN rows = 1 .. 1 /\ rows[1] = Row(event, of, data)
    OBVIOUS
  <2>2. \A i \in DOMAIN rows : [event |-> rows[i].event, of |-> rows[i].of,
                               data |-> rows[i].data, id |-> id] = r
    BY <2>1 DEF Row, Told
  <2>3. more = [i \in 1 .. 1 |-> r]
    BY <2>1, <2>2
  <2> HIDE DEF r, more
  <2>4. QED
    BY <2>3
<1>3. audit' = audit \o <<r>>
  BY <1>2 DEF Write
<1>4. audit \o <<r>> = Append(audit, r)
  BY <1>1, AppendedOne
<1>5. QED
  BY <1>1, <1>3, <1>4

LEMMA WriteTwo ==
  ASSUME audit \in Seq(AuditRows), NEW e \in AuditEvents, NEW f \in AuditEvents, NEW of \in Entities,
         NEW data \in AuditData, NEW id \in Ids,
         Write(<<Row(e, of, data), Row(f, of, data)>>, id)
  PROVE  /\ audit' = Append(Append(audit, Told(e, of, data, id)), Told(f, of, data, id))
         /\ Told(e, of, data, id) \in AuditRows /\ Told(f, of, data, id) \in AuditRows
<1> DEFINE q == Told(e, of, data, id)
           r == Told(f, of, data, id)
           rows == <<Row(e, of, data), Row(f, of, data)>>
           more == [i \in DOMAIN rows |->
                       [event |-> rows[i].event, of |-> rows[i].of,
                        data |-> rows[i].data, id |-> id]]
<1>1. q \in AuditRows /\ r \in AuditRows
  BY DEF Told, AuditRows
<1>2. more = <<q, r>>
  <2>1. DOMAIN rows = 1 .. 2 /\ rows[1] = Row(e, of, data) /\ rows[2] = Row(f, of, data)
    OBVIOUS
  <2>2. more[1] = q /\ more[2] = r /\ DOMAIN more = 1 .. 2
    BY <2>1 DEF Row, Told
  <2>3. more = [i \in 1 .. 2 |-> more[i]]
    BY <2>1
  <2> HIDE DEF q, r, more
  <2>4. QED
    BY <2>2, <2>3
<1>3. audit' = audit \o <<q, r>>
  BY <1>2 DEF Write
<1>4. audit \o <<q, r>> = Append(Append(audit, q), r)
  <2> HIDE DEF q, r
  <2>1. QED
    BY <1>1, AppendedTwo
<1>5. QED
  BY <1>1, <1>3, <1>4

-----------------------------------------------------------------------------
(* Ids go from requests to jobs, and with the jobs to the workers.         *)

(* The worker's context is the id of its job, if that has one; and a job   *)
(* that can still be claimed has the id of whoever opened its case last.   *)
ContextOfJob == \A w \in Workers :
    worker[w].pc # "idle" => carried[Job(w)] \in {NULL, current[w]}

JobOfOpener == \A j \in JobIds :
    LiveJob(j) => opener[jobs[j].case] \in {NULL, carried[j]}

TraceTypes == /\ carried \in [JobIds -> Trace]
              /\ current \in [Workers -> Ids]
              /\ opener \in [CaseIds -> Traces \cup {NULL}]
              /\ audit \in Seq(AuditRows)

QueuedWithId == \A j \in JobIds :
    JobExists(j) /\ LegacyOf(j, "job") = {} => carried[j] # NULL

TraceInv == /\ RowsAndWorkers /\ OwnersRun
            /\ TraceTypes /\ QueuedWithId
            /\ ContextOfJob /\ JobOfOpener

(* What every step leaves of it. *)
TraceStep ==
    /\ carried' \in [JobIds -> Trace]
    /\ current' \in [Workers -> Ids]
    /\ opener' \in [CaseIds -> Traces \cup {NULL}]
    /\ \A w \in Workers : worker'[w].pc # "idle" =>
          \/ /\ worker[w].pc # "idle" /\ worker'[w].job = worker[w].job
             /\ current'[w] = current[w]
          \/ \E j \in JobIds :
                /\ JobExists(j) /\ worker'[w].job = j
                /\ carried[j] \in {NULL, current'[w]}
    /\ \A j \in JobIds : /\ JobExists(j) => carried'[j] = carried[j]
                         /\ JobExists(j)' => JobExists(j) \/ carried'[j] # NULL
    /\ \A j \in JobIds : LiveJob(j)' =>
          \/ /\ LiveJob(j) /\ jobs'[j].case = jobs[j].case
             /\ opener'[jobs[j].case] = opener[jobs[j].case]
          \/ opener'[jobs'[j].case] \in {NULL, carried'[j]}

(* A row a worker writes has the id of the request that opened its case.   *)
Traced(r) == r.event \in WorkerEvents => opener[r.of] \in {NULL, r.id}

RowsAdded ==
    \/ audit' = audit
    \/ \E r \in AuditRows : audit' = Append(audit, r) /\ Traced(r)
    \/ \E q \in AuditRows, r \in AuditRows :
          audit' = Append(Append(audit, q), r) /\ Traced(q) /\ Traced(r)

LEMMA TraceStepKeeps ==
  ASSUME TraceInv, [Next]_vars, TraceStep, RowsAdded
  PROVE  TraceInv'
<1>1. RowsAndWorkers' /\ OwnersRun'
  BY StepKeepsRowsAndWorkers, StepKeepsExclusive DEF TraceInv
<1>2. TraceTypes'
  <2>1. audit' \in Seq(AuditRows)
    BY SMTT(30) DEF RowsAdded, TraceInv, TraceTypes
  <2>2. QED
    BY <2>1 DEF TraceStep, TraceTypes
<1>3. QueuedWithId'
  BY DEF TraceStep, TraceInv, QueuedWithId, LegacyOf
<1>4. ContextOfJob'
  <2> SUFFICES ASSUME NEW w \in Workers, worker'[w].pc # "idle"
               PROVE  carried'[worker'[w].job] \in {NULL, current'[w]}
    BY DEF ContextOfJob, Job
  <2>1. CASE worker[w].pc # "idle" /\ worker'[w].job = worker[w].job /\ current'[w] = current[w]
    <3>1. JobExists(Job(w)) /\ Job(w) \in JobIds
      BY <2>1, JobInHand DEF TraceInv
    <3>2. QED
      BY <2>1, <3>1 DEF TraceStep, TraceInv, ContextOfJob, Job
  <2>2. QED
    BY <2>1 DEF TraceStep
<1>5. JobOfOpener'
  <2> SUFFICES ASSUME NEW j \in JobIds, LiveJob(j)'
               PROVE  opener'[jobs'[j].case] \in {NULL, carried'[j]}
    BY DEF JobOfOpener
  <2>1. CASE /\ LiveJob(j) /\ jobs'[j].case = jobs[j].case
             /\ opener'[jobs[j].case] = opener[jobs[j].case]
    BY <2>1 DEF TraceStep, TraceInv, JobOfOpener, LiveJob, JobExists
  <2>2. QED
    BY <2>1 DEF TraceStep
<1>6. QED
  BY <1>1, <1>2, <1>3, <1>4, <1>5 DEF TraceInv

LEMMA QuietTraces ==
  ASSUME TraceInv, UNCHANGED <<carried, current, opener>>,
         \A w \in Workers : worker'[w].pc # "idle" =>
            worker[w].pc # "idle" /\ worker'[w].job = worker[w].job,
         \A j \in JobIds : /\ JobExists(j)' => JobExists(j)
                           /\ LiveJob(j)' => LiveJob(j) /\ jobs'[j].case = jobs[j].case
  PROVE  TraceStep
BY DEF TraceInv, TraceTypes, TraceStep

LEMMA BeginsTraces ==
  ASSUME TraceInv, NEW id \in Traces, NEW c \in CaseIds, NEW j \in JobIds, Begins(id, c, j),
         ~JobExists(j), NoLiveJob(c), UNCHANGED worker,
         jobs' = [jobs EXCEPT ![j] = NewJob(c, "EVALUATE_RECOVERY", 0)]
  PROVE  TraceStep
<1>1. /\ jobs \in [JobIds -> JobRow] /\ TraceTypes
      /\ id # NULL /\ id \in Trace /\ NULL \in Trace
  BY TracesAssumption DEF TraceInv, RowsAndWorkers, TypeOK, DbTypeOK, Trace
<1>2. /\ carried' = [carried EXCEPT ![j] = id] /\ opener' = [opener EXCEPT ![c] = id]
      /\ current' = current
  BY DEF Begins
<1>3. /\ carried' \in [JobIds -> Trace] /\ carried'[j] = id
      /\ \A i \in JobIds \ {j} : carried'[i] = carried[i]
      /\ opener' \in [CaseIds -> Traces \cup {NULL}] /\ opener'[c] = id
      /\ \A d \in CaseIds \ {c} : opener'[d] = opener[d]
      /\ current' \in [Workers -> Ids]
  BY <1>1, <1>2 DEF TraceTypes
<1>4. /\ \A i \in JobIds \ {j} : jobs'[i] = jobs[i]
      /\ jobs'[j].case = c
  BY <1>1 DEF NewJob
<1>5. \A w \in Workers : worker'[w].pc # "idle" =>
         /\ worker[w].pc # "idle" /\ worker'[w].job = worker[w].job
         /\ current'[w] = current[w]
  BY <1>2
<1>6. \A i \in JobIds : /\ JobExists(i) => carried'[i] = carried[i]
                        /\ JobExists(i)' => JobExists(i) \/ carried'[i] # NULL
  BY <1>1, <1>3, <1>4 DEF JobExists
<1>7. ASSUME NEW i \in JobIds, LiveJob(i)'
      PROVE  \/ /\ LiveJob(i) /\ jobs'[i].case = jobs[i].case
                /\ opener'[jobs[i].case] = opener[jobs[i].case]
             \/ opener'[jobs'[i].case] \in {NULL, carried'[i]}
  <2>1. CASE i = j
    BY <1>3, <1>4, <2>1
  <2>2. CASE i # j
    <3>1. LiveJob(i) /\ JobExists(i) /\ jobs'[i] = jobs[i]
      BY <1>4, <1>7, <2>2 DEF LiveJob, JobExists
    <3>2. jobs[i].case # c /\ jobs[i].case \in CaseIds
      BY <3>1 DEF NoLiveJob, TraceInv, RowsAndWorkers, RowsRefer
    <3>3. QED
      BY <1>3, <3>1, <3>2
  <2>3. QED
    BY <2>1, <2>2
<1>8. QED
  BY <1>3, <1>5, <1>6, <1>7 DEF TraceStep

LEMMA RequestTraces ==
  ASSUME TraceInv, NEW id \in Traces, UNCHANGED workerVars,
         \/ \E e \in Events : WebhookRequest(e, id)
         \/ \E c \in CaseIds : AdminRequest(c, id)
  PROVE  TraceStep
<1>1. jobs \in [JobIds -> JobRow] /\ worker' = worker
  BY DEF TraceInv, RowsAndWorkers, TypeOK, DbTypeOK, workerVars
<1>2. ASSUME UNCHANGED <<carried, current, opener>>,
             UNCHANGED jobs \/ \E closed : jobs' = CancelPending(closed)
      PROVE  TraceStep
  <2>1. \A j \in JobIds : /\ JobExists(j)' => JobExists(j)
                          /\ LiveJob(j)' => LiveJob(j) /\ jobs'[j].case = jobs[j].case
    <3>1. CASE UNCHANGED jobs
      BY <3>1 DEF JobExists, LiveJob
    <3>2. ASSUME NEW closed, jobs' = CancelPending(closed)
          PROVE  \A j \in JobIds : /\ JobExists(j)' => JobExists(j)
                                   /\ LiveJob(j)' => LiveJob(j) /\ jobs'[j].case = jobs[j].case
      BY <1>1, <3>2 DEF CancelPending, JobExists, LiveJob, JobRow
    <3>3. QED
      BY <1>2, <3>1, <3>2
  <2>2. QED
    BY <1>1, <1>2, <2>1, QuietTraces
<1>3. ASSUME NEW e \in Events, WebhookRequest(e, id)
      PROVE  TraceStep
  <2>1. CASE AcknowledgeTerminal(e) /\ UNCHANGED <<carried, current, opener>>
    BY <1>2, <2>1 DEF AcknowledgeTerminal
  <2>2. CASE RejectDuplicate(e, id)
    BY <1>2, <2>2 DEF RejectDuplicate, dbVars
  <2>3. CASE /\ RecordRepeatedFailure(e) \/ RecordSuccess(e)
             /\ UNCHANGED <<carried, current, opener>>
    BY <1>2, <2>3 DEF RecordRepeatedFailure, RecordSuccess
  <2>4. ASSUME NEW c \in CaseIds, NEW j \in JobIds, OpenCase(e, c, j), Begins(id, c, j)
        PROVE  TraceStep
    <3>1. NoLiveJob(c)
      BY <2>4 DEF OpenCase, NoLiveJob, LiveJob, JobExists, TraceInv, RowsAndWorkers, RowsRefer
    <3>2. QED
      BY <1>1, <2>4, <3>1, BeginsTraces DEF OpenCase
  <2>5. QED
    BY <1>3, <2>1, <2>2, <2>3, <2>4 DEF WebhookRequest
<1>4. ASSUME NEW c \in CaseIds, AdminRequest(c, id)
      PROVE  TraceStep
  <2>1. CASE RejectForPaid(c) /\ UNCHANGED <<carried, current, opener>>
    BY <1>2, <2>1 DEF RejectForPaid
  <2>2. CASE RefuseRetry(c) /\ UNCHANGED <<carried, current, opener>>
    BY <1>2, <2>2 DEF RefuseRetry, dbVars
  <2>3. CASE CloseCase(c) /\ UNCHANGED <<carried, current, opener>>
    BY <1>2, <2>3 DEF CloseCase
  <2>4. ASSUME NEW j \in JobIds, ReopenCase(c, j), Begins(id, c, j)
        PROVE  TraceStep
    BY <1>1, <2>4, BeginsTraces DEF ReopenCase
  <2>5. QED
    BY <1>4, <2>1, <2>2, <2>3, <2>4 DEF AdminRequest
<1>5. QED
  BY <1>3, <1>4

LEMMA RequestRows ==
  ASSUME TraceInv, NEW id \in Traces,
         \/ \E e \in Events : WebhookRequest(e, id)
         \/ \E c \in CaseIds : AdminRequest(c, id)
  PROVE  RowsAdded
<1>1. audit \in Seq(AuditRows) /\ id \in Ids
  BY DEF TraceInv, TraceTypes, Ids
<1>2. ASSUME NEW event \in AuditEvents, event \notin WorkerEvents, NEW of \in Entities,
             NEW data \in AuditData, Write(<<Row(event, of, data)>>, id)
      PROVE  RowsAdded
  <2>1. /\ audit' = Append(audit, Told(event, of, data, id))
        /\ Told(event, of, data, id) \in AuditRows
    BY <1>1, <1>2, WriteOne
  <2>2. Traced(Told(event, of, data, id))
    BY <1>2 DEF Traced, Told
  <2>3. QED
    BY <2>1, <2>2 DEF RowsAdded
<1>3. ASSUME NEW e \in Events, WebhookRequest(e, id)
      PROVE  RowsAdded
  <2>1. e \in WebhookEvent
    BY EventsAssumption
  <2>2. e.payment \in Entities /\ e.id \in Entities /\ e.type \in AuditData
    BY <2>1 DEF WebhookEvent, Entities, AuditData
  <2>3. \A event \in {"WEBHOOK_PROCESSED", "WEBHOOK_TERMINAL_DOMINANCE_ENFORCED",
                      "WEBHOOK_DUPLICATE_REJECTED"} :
           event \in AuditEvents /\ event \notin WorkerEvents
    BY DEF AuditEvents, WorkerEvents
  <2>4. CASE \/ Write(<<Row("WEBHOOK_PROCESSED", e.payment, e.type)>>, id)
             \/ Write(<<Row("WEBHOOK_TERMINAL_DOMINANCE_ENFORCED", e.payment, e.type)>>, id)
             \/ Write(<<Row("WEBHOOK_DUPLICATE_REJECTED", e.id, e.type)>>, id)
    BY <1>2, <2>2, <2>3, <2>4
  <2>5. CASE UNCHANGED audit
    BY <2>5 DEF RowsAdded
  <2>6. QED
    BY <1>3, <2>4, <2>5 DEF WebhookRequest, RejectDuplicate, Processed
<1>4. ASSUME NEW c \in CaseIds, AdminRequest(c, id)
      PROVE  RowsAdded
  <2>1. PICK event \in {"ADMIN_STOP_REJECTED", "ADMIN_RETRY_REJECTED", "ADMIN_STOP_CASE",
                        "ADMIN_RETRY_CASE"},
             data \in {"PAYMENT_SUCCEEDED", "ACTIVE_JOBS_EXIST", "none"} :
                Write(<<Row(event, c, data)>>, id)
    BY <1>4 DEF AdminRequest
  <2>2. /\ event \in AuditEvents /\ data \in AuditData
        /\ c \in Entities /\ event \notin WorkerEvents
    BY <2>1 DEF Entities, AuditEvents, AuditData, WorkerEvents
  <2>3. QED
    BY <1>2, <2>1, <2>2
<1>5. QED
  BY <1>3, <1>4

LEMMA ClaimTraces ==
  ASSUME TraceInv, NEW w \in Workers, NEW j \in JobIds, ClaimsJob(w, j), Restore(w, j),
         UNCHANGED <<carried, opener>>
  PROVE  /\ TraceStep
         /\ current'[w] \in Ids /\ carried[j] \in {NULL, current'[w]}
         /\ LiveJob(j) /\ JobExists(j) /\ jobs[j].case \in CaseIds
<1>1. TraceTypes
  BY DEF TraceInv
<1>2. /\ current' \in [Workers -> Ids]
      /\ carried[j] \in {NULL, current'[w]}
      /\ \A v \in Workers \ {w} : current'[v] = current[v]
  <2>1. carried[j] # NULL => carried[j] \in Ids
    BY <1>1 DEF TraceTypes, Trace, Ids
  <2>2. QED
    BY <1>1, <2>1 DEF Restore, TraceTypes
<1>3. LiveJob(j) /\ JobExists(j) /\ jobs[j].case \in CaseIds
  <2>1. LiveJob(j) /\ JobExists(j)
    BY DEF ClaimsJob, Claimable, LiveJob, JobExists
  <2>2. QED
    BY <2>1 DEF TraceInv, RowsAndWorkers, RowsRefer
<1>4. ASSUME NEW v \in Workers, worker'[v].pc # "idle"
      PROVE  \/ /\ worker[v].pc # "idle" /\ worker'[v].job = worker[v].job
                /\ current'[v] = current[v]
             \/ \E i \in JobIds : /\ JobExists(i) /\ worker'[v].job = i
                                  /\ carried[i] \in {NULL, current'[v]}
  <2>1. CASE v = w
    BY <1>2, <1>3, <1>4, <2>1 DEF ClaimsJob
  <2>2. CASE v # w
    BY <1>2, <1>4, <2>2 DEF ClaimsJob
  <2>3. QED
    BY <2>1, <2>2
<1>5. \A i \in JobIds : /\ JobExists(i)' => JobExists(i)
                        /\ LiveJob(i)' => LiveJob(i) /\ jobs'[i].case = jobs[i].case
  <2>1. jobs'[j].case = jobs[j].case /\ \A i \in JobIds \ {j} : jobs'[i] = jobs[i]
    BY DEF ClaimsJob
  <2>2. QED
    BY <1>3, <2>1 DEF JobExists, LiveJob
<1>6. QED
  BY <1>1, <1>2, <1>3, <1>4, <1>5 DEF TraceTypes, TraceStep

(* The process that ends a job has the id of the request that opened its   *)
(* case last, because the job is still RUNNING.                            *)
LEMMA ContextIsOpeners ==
  ASSUME TraceInv, NEW w \in Workers, Ends(w)
  PROVE  /\ Job(w) \in JobIds /\ jobs[Job(w)].status = "RUNNING"
         /\ jobs[Job(w)].case \in CaseIds
         /\ current[w] \in Ids
         /\ opener[jobs[Job(w)].case] \in {NULL, current[w]}
<1>1. /\ worker[w].pc # "idle"
      /\ Job(w) \in JobIds /\ jobs[Job(w)].status = "RUNNING"
  BY EndedJobIsRunning DEF Ends, TraceInv
<1>2. jobs[Job(w)].case \in CaseIds
  BY <1>1, JobInHand DEF TraceInv
<1>3. carried[Job(w)] \in {NULL, current[w]}
  BY <1>1 DEF TraceInv, ContextOfJob
<1>4. opener[jobs[Job(w)].case] \in {NULL, carried[Job(w)]}
  BY <1>1 DEF TraceInv, JobOfOpener, LiveJob
<1>5. QED
  BY <1>1, <1>2, <1>3, <1>4 DEF TraceInv, TraceTypes

LEMMA EndTraces ==
  ASSUME TraceInv, NEW w \in Workers, Ends(w), UNCHANGED <<current, opener>>,
         \/ UNCHANGED carried /\ \E s : EndJob(Job(w), s)
         \/ \E k \in JobIds, s \in {"SUCCEEDED", "FAILED"} : \E type :
               EndJobAndQueue(Job(w), s, k, type) /\ Carry(w, k)
  PROVE  TraceStep
<1> DEFINE j == Job(w)
           c == jobs[j].case
<1>1. /\ j \in JobIds /\ LiveJob(j) /\ JobExists(j) /\ c \in CaseIds
      /\ current[w] \in Ids /\ opener[c] \in {NULL, current[w]}
  BY ContextIsOpeners DEF LiveJob, JobExists
<1>2. jobs \in [JobIds -> JobRow] /\ worker \in [Workers -> WorkerState] /\ TraceTypes
  BY DEF TraceInv, RowsAndWorkers, TypeOK, DbTypeOK, WorkerTypeOK
<1>3. \A v \in Workers : worker'[v].pc # "idle" =>
         worker[v].pc # "idle" /\ worker'[v].job = worker[v].job
  BY <1>2 DEF Ends, Release, Idle
<1> HIDE DEF j
<1>4. CASE UNCHANGED carried /\ \E s : EndJob(j, s)
  <2>1. \A i \in JobIds : /\ JobExists(i)' => JobExists(i)
                          /\ LiveJob(i)' => LiveJob(i) /\ jobs'[i].case = jobs[i].case
    <3>1. jobs'[j].case = c /\ \A i \in JobIds \ {j} : jobs'[i] = jobs[i]
      BY <1>1, <1>2, <1>4 DEF EndJob, Ended, JobRow
    <3>2. QED
      BY <1>1, <3>1 DEF JobExists, LiveJob
  <2>2. QED
    BY <1>3, <1>4, <2>1, QuietTraces
<1>5. ASSUME NEW k \in JobIds, NEW s \in {"SUCCEEDED", "FAILED"}, NEW type,
             EndJobAndQueue(j, s, k, type), Carry(w, k)
      PROVE  TraceStep
  <2>1. k # j /\ ~JobExists(k)
    BY <1>1, <1>5 DEF EndJobAndQueue
  <2>2. /\ \A i \in JobIds \ {j, k} : jobs'[i] = jobs[i]
        /\ jobs'[k].case = c
        /\ jobs'[j].status \notin {"PENDING", "RUNNING"}
    BY <1>1, <1>2, <1>5, <2>1 DEF EndJobAndQueue, Ended, NewJob, JobRow
  <2>3. /\ carried' \in [JobIds -> Trace] /\ carried'[k] = current[w]
        /\ \A i \in JobIds \ {k} : carried'[i] = carried[i]
        /\ current[w] # NULL
    BY <1>1, <1>2, <1>5, TracesAssumption DEF Carry, TraceTypes, Trace, Ids
  <2>4. \A i \in JobIds : /\ JobExists(i) => carried'[i] = carried[i]
                          /\ JobExists(i)' => JobExists(i) \/ carried'[i] # NULL
    BY <1>1, <2>1, <2>2, <2>3 DEF JobExists
  <2>5. ASSUME NEW i \in JobIds, LiveJob(i)'
        PROVE  \/ /\ LiveJob(i) /\ jobs'[i].case = jobs[i].case
                  /\ opener'[jobs[i].case] = opener[jobs[i].case]
               \/ opener'[jobs'[i].case] \in {NULL, carried'[i]}
    <3>1. CASE i = k
      BY <1>1, <2>2, <2>3, <3>1
    <3>2. CASE i # k
      BY <2>2, <2>5, <3>2 DEF LiveJob
    <3>3. QED
      BY <3>1, <3>2
  <2>6. QED
    BY <1>2, <1>3, <2>3, <2>4, <2>5 DEF TraceTypes, TraceStep
<1>6. QED
  BY <1>4, <1>5 DEF j

(* A row about the job in hand. *)
LEMMA ToldRow ==
  ASSUME TraceInv, NEW w \in Workers, Ends(w), NEW event \in AuditEvents,
         NEW data \in AuditData, Tell(w, event, data)
  PROVE  \E r \in AuditRows :
            /\ audit' = Append(audit, r) /\ Traced(r)
            /\ r.event = event /\ r.of = jobs[Job(w)].case /\ r.data = data
<1> DEFINE c == jobs[Job(w)].case
           r == Told(event, c, data, current[w])
<1>1. /\ audit \in Seq(AuditRows) /\ c \in Entities /\ current[w] \in Ids
      /\ opener[c] \in {NULL, current[w]}
  BY ContextIsOpeners DEF Entities, TraceInv, TraceTypes
<1>2. audit' = Append(audit, r) /\ r \in AuditRows
  BY <1>1, WriteOne DEF Tell
<1>3. r.event = event /\ r.of = c /\ r.data = data /\ Traced(r)
  BY <1>1 DEF Told, Traced
<1> HIDE DEF r
<1>4. QED
  BY <1>2, <1>3

LEMMA ExhaustedRows ==
  ASSUME TraceInv, NEW w \in Workers, Ends(w), TellExhausted(w)
  PROVE  \E q \in AuditRows, r \in AuditRows :
            /\ audit' = Append(Append(audit, q), r) /\ Traced(q) /\ Traced(r)
            /\ q.event = "CHARGE_EXECUTION_FAILED" /\ r.event = "CHARGE_EXHAUSTED"
            /\ q.of = jobs[Job(w)].case /\ r.of = jobs[Job(w)].case
            /\ q.data = "none" /\ r.data = "none"
<1> DEFINE c == jobs[Job(w)].case
           q == Told("CHARGE_EXECUTION_FAILED", c, "none", current[w])
           r == Told("CHARGE_EXHAUSTED", c, "none", current[w])
<1>1. /\ audit \in Seq(AuditRows) /\ c \in Entities /\ current[w] \in Ids
      /\ opener[c] \in {NULL, current[w]}
  BY ContextIsOpeners DEF Entities, TraceInv, TraceTypes
<1>2. /\ "CHARGE_EXECUTION_FAILED" \in AuditEvents /\ "CHARGE_EXHAUSTED" \in AuditEvents
      /\ "none" \in AuditData
  BY DEF AuditEvents, AuditData, WorkerEvents
<1>3. audit' = Append(Append(audit, q), r) /\ q \in AuditRows /\ r \in AuditRows
  BY <1>1, <1>2, WriteTwo DEF TellExhausted
<1>4. /\ q.event = "CHARGE_EXECUTION_FAILED" /\ r.event = "CHARGE_EXHAUSTED"
      /\ q.of = c /\ r.of = c /\ q.data = "none" /\ r.data = "none"
      /\ Traced(q) /\ Traced(r)
  BY <1>1 DEF Told, Traced
<1> HIDE DEF q, r
<1>5. QED
  BY <1>3, <1>4

LEMMA FinishTraces ==
  ASSUME TraceInv, NEW w \in Workers, FinishEvaluation(w) \/ FinishCharge(w)
  PROVE  TraceStep /\ RowsAdded
<1>1. Ends(w)
  BY FinalizeOnJobs DEF FinishEvaluation, FinishCharge, FinalizeEvaluation, FinalizeJob
<1>2. UNCHANGED <<current, opener>>
  BY DEF FinishEvaluation, FinishCharge
<1>3. ASSUME NEW event \in {"JOB_CANCELLED", "AI_EVALUATION_COMPLETED", "AI_EVALUATION_FAILED",
                            "CHARGE_EXECUTION_COMPLETED", "CHARGE_EXECUTION_FAILED"},
             NEW data \in {"none", "ABORT", "CHARGE", "DELAY"}, Tell(w, event, data)
      PROVE  RowsAdded
  <2>1. event \in AuditEvents /\ data \in AuditData
    BY DEF AuditEvents, AuditData, WorkerEvents
  <2>2. QED
    BY <1>1, <1>3, <2>1, ToldRow DEF RowsAdded
<1>4. ASSUME UNCHANGED carried, NEW s, EndJob(Job(w), s)
      PROVE  TraceStep
  BY <1>1, <1>2, <1>4, EndTraces
<1>5. ASSUME NEW k \in JobIds, NEW s \in {"SUCCEEDED", "FAILED"}, NEW type,
             EndJobAndQueue(Job(w), s, k, type), Carry(w, k)
      PROVE  TraceStep
  BY <1>1, <1>2, <1>5, EndTraces
<1>6. ASSUME UNCHANGED audit PROVE RowsAdded
  BY <1>6 DEF RowsAdded
<1>7. CASE FinishEvaluation(w)
  <2>1. CASE DecisionTooLate(w) /\ Tell(w, "JOB_CANCELLED", "none") /\ UNCHANGED carried
    BY <1>3, <1>4, <2>1 DEF DecisionTooLate
  <2>2. CASE DecideAbort(w) /\ Tell(w, "AI_EVALUATION_COMPLETED", "ABORT") /\ UNCHANGED carried
    BY <1>3, <1>4, <2>2 DEF DecideAbort
  <2>3. ASSUME NEW k \in JobIds, Carry(w, k),
               \/ DecideCharge(w, k) /\ Tell(w, "AI_EVALUATION_COMPLETED", "CHARGE")
               \/ DecideDelay(w, k) /\ Tell(w, "AI_EVALUATION_COMPLETED", "DELAY")
        PROVE  TraceStep /\ RowsAdded
    BY <1>3, <1>5, <2>3 DEF DecideCharge, DecideDelay
  <2>4. ASSUME NEW k \in JobIds, EvaluationFails(w, k),
               AttemptsLeft(Job(w)), Carry(w, k), UNCHANGED audit
        PROVE  TraceStep /\ RowsAdded
    BY <1>5, <1>6, <2>4 DEF EvaluationFails
  <2>5. ASSUME NEW k \in JobIds, EvaluationFails(w, k), ~AttemptsLeft(Job(w)),
               Tell(w, "AI_EVALUATION_FAILED", "none"), UNCHANGED carried
        PROVE  TraceStep /\ RowsAdded
    BY <1>3, <1>4, <2>5 DEF EvaluationFails
  <2>6. QED
    BY <1>7, <2>1, <2>2, <2>3, <2>4, <2>5 DEF FinishEvaluation
<1>8. CASE FinishCharge(w)
  <2>1. CASE /\ FinalizeSuccess(w) /\ Tell(w, "CHARGE_EXECUTION_COMPLETED", "none")
             /\ UNCHANGED carried
    BY <1>3, <1>4, <2>1 DEF FinalizeSuccess
  <2>2. CASE FinalizeExhausted(w) /\ TellExhausted(w) /\ UNCHANGED carried
    <3>1. RowsAdded
      BY <1>1, <2>2, ExhaustedRows DEF RowsAdded
    <3>2. QED
      BY <1>4, <2>2, <3>1 DEF FinalizeExhausted
  <2>3. CASE FinalizeAmbiguous(w) /\ UNCHANGED <<audit, carried>>
    BY <1>4, <1>6, <2>3 DEF FinalizeAmbiguous
  <2>4. ASSUME NEW k \in JobIds, FinalizeFailure(w, k), Carry(w, k),
               Tell(w, "CHARGE_EXECUTION_FAILED", "none")
        PROVE  TraceStep /\ RowsAdded
    BY <1>3, <1>5, <2>4 DEF FinalizeFailure
  <2>5. QED
    BY <1>8, <2>1, <2>2, <2>3, <2>4 DEF FinishCharge
<1>9. QED
  BY <1>7, <1>8

LEMMA ClaimingTraces ==
  ASSUME TraceInv, NEW w \in Workers, NEW j \in JobIds, ClaimJob(w, j)
  PROVE  TraceStep /\ RowsAdded
<1>1. ClaimsJob(w, j) /\ Restore(w, j) /\ UNCHANGED <<carried, opener>>
  BY ClaimOfJob DEF ClaimJob, TraceInv, RowsAndWorkers
<1>2. /\ TraceStep
      /\ current'[w] \in Ids /\ carried[j] \in {NULL, current'[w]}
      /\ LiveJob(j) /\ jobs[j].case \in CaseIds
  BY <1>1, ClaimTraces
<1>3. CASE UNCHANGED audit
  BY <1>2, <1>3 DEF RowsAdded
<1>4. CASE Write(<<Row("JOB_CANCELLED", jobs[j].case, "none")>>, current'[w])
  <2> DEFINE c == jobs[j].case
             id == current'[w]
             r == Told("JOB_CANCELLED", c, "none", id)
  <2>1. /\ audit \in Seq(AuditRows) /\ c \in Entities
        /\ "JOB_CANCELLED" \in AuditEvents /\ "none" \in AuditData
    BY <1>2 DEF Entities, AuditEvents, AuditData, WorkerEvents, TraceInv, TraceTypes
  <2>2. audit' = Append(audit, r) /\ r \in AuditRows
    <3> HIDE DEF c, id
    <3>1. id \in Ids /\ Write(<<Row("JOB_CANCELLED", c, "none")>>, id)
      BY <1>2, <1>4 DEF c, id
    <3>2. QED
      BY <2>1, <3>1, WriteOne
  <2>3. opener[c] \in {NULL, id}
    BY <1>2 DEF TraceInv, JobOfOpener
  <2>4. Traced(r)
    BY <2>3 DEF Told, Traced
  <2>5. QED
    BY <1>2, <2>2, <2>4 DEF RowsAdded
<1>5. QED
  BY <1>3, <1>4 DEF ClaimJob

LEMMA RollingBackTraces ==
  ASSUME TraceInv, NEW w \in Workers, NEW j \in JobIds, ClaimRollsBack(w, j)
  PROVE  TraceStep /\ RowsAdded
<1>1. /\ TraceTypes /\ UNCHANGED <<carried, opener, audit, jobs, worker>>
      /\ worker[w].pc = "idle"
  BY DEF ClaimRollsBack, TraceInv, vars, dbVars, workerVars
<1>2. /\ current' \in [Workers -> Ids]
      /\ \A v \in Workers \ {w} : current'[v] = current[v]
  <2>1. carried[j] # NULL => carried[j] \in Ids
    BY <1>1 DEF TraceTypes, Trace, Ids
  <2>2. QED
    BY <1>1, <2>1 DEF ClaimRollsBack, Restore, TraceTypes
<1>3. TraceStep
  BY <1>1, <1>2 DEF TraceStep, TraceTypes, JobExists, LiveJob
<1>4. QED
  BY <1>1, <1>3 DEF RowsAdded

LEMMA KeepingTraces ==
  ASSUME TraceInv, KeepsJobs, UNCHANGED <<carried, current, opener, audit>>
  PROVE  TraceStep /\ RowsAdded
BY QuietTraces DEF KeepsJobs, RowsAdded, JobExists, LiveJob

LEMMA RestartTraces ==
  ASSUME TraceInv, NEW w \in Workers, Restart(w)
  PROVE  TraceStep /\ RowsAdded
<1>1. /\ TraceTypes /\ worker \in [Workers -> WorkerState]
      /\ UNCHANGED <<carried, opener, audit, jobs>>
      /\ worker' = [worker EXCEPT ![w] = Idle]
      /\ current' = [current EXCEPT ![w] = Generated]
  BY DEF Restart, Crash, Release, TraceInv, RowsAndWorkers, TypeOK, WorkerTypeOK, dbVars
<1>2. /\ current' \in [Workers -> Ids]
      /\ \A v \in Workers : worker'[v].pc # "idle" =>
            v # w /\ worker'[v] = worker[v] /\ current'[v] = current[v]
  BY <1>1 DEF TraceTypes, Ids, Idle
<1>3. TraceStep
  BY <1>1, <1>2 DEF TraceStep, TraceTypes, JobExists, LiveJob
<1>4. QED
  BY <1>1, <1>3 DEF RowsAdded

LEMMA ExpiringTraces ==
  ASSUME TraceInv, NEW j \in JobIds, LeaseExpires(j), UNCHANGED traceVars
  PROVE  TraceStep /\ RowsAdded
<1>1. /\ jobs \in [JobIds -> JobRow] /\ UNCHANGED <<worker, carried, current, opener, audit>>
      /\ jobs' = [jobs EXCEPT ![j].expired = TRUE]
  BY DEF LeaseExpires, workerVars, traceVars, TraceInv, RowsAndWorkers, TypeOK, DbTypeOK
<1>2. \A i \in JobIds : jobs'[i].case = jobs[i].case /\ jobs'[i].status = jobs[i].status
  BY <1>1 DEF JobRow
<1>3. \A i \in JobIds : /\ JobExists(i)' => JobExists(i)
                        /\ LiveJob(i)' => LiveJob(i) /\ jobs'[i].case = jobs[i].case
  BY <1>2 DEF JobExists, LiveJob
<1>4. QED
  BY <1>1, <1>3, QuietTraces DEF RowsAdded

LEMMA StepTraces ==
  ASSUME TraceInv, [AuditNext]_auditVars
  PROVE  TraceStep /\ RowsAdded
<1>1. CASE UNCHANGED auditVars
  BY <1>1, KeepingTraces DEF auditVars, vars, dbVars, workerVars, traceVars, KeepsJobs
<1>2. ASSUME NEW id \in Traces, UNCHANGED <<store, workerVars>>,
             \/ \E e \in Events : WebhookRequest(e, id)
             \/ \E c \in CaseIds : AdminRequest(c, id)
      PROVE  TraceStep /\ RowsAdded
  BY <1>2, RequestTraces, RequestRows
<1>3. ASSUME NEW w \in Workers, VerifyPayment(w) \/ Charge(w), UNCHANGED traceVars
      PROVE  TraceStep /\ RowsAdded
  BY <1>3, OthersKeepJobs, KeepingTraces DEF traceVars, TraceInv, RowsAndWorkers
<1>4. ASSUME NEW w \in Workers, RollBack(w)
      PROVE  TraceStep /\ RowsAdded
  BY <1>4, OthersKeepJobs, KeepingTraces
     DEF RollBack, RowsAreDropped, TraceInv, RowsAndWorkers
<1>5. ASSUME NEW w \in Workers,
             \/ \E j \in JobIds : ClaimJob(w, j) \/ ClaimRollsBack(w, j)
             \/ VerifyPayment(w) /\ UNCHANGED traceVars
             \/ Charge(w) /\ UNCHANGED traceVars
             \/ FinishEvaluation(w) \/ FinishCharge(w) \/ RollBack(w) \/ Restart(w)
      PROVE  TraceStep /\ RowsAdded
  BY <1>3, <1>4, <1>5, ClaimingTraces, RollingBackTraces, FinishTraces, RestartTraces
<1>6. CASE AuditNext
  BY <1>2, <1>5, <1>6, ExpiringTraces DEF AuditNext
<1>7. QED
  BY <1>1, <1>6

-----------------------------------------------------------------------------
(* The invariant. *)

LEMMA InitTraces == AuditInit => TraceInv
<1> SUFFICES ASSUME AuditInit PROVE TraceInv
  OBVIOUS
<1>1. RowsAndWorkers /\ OwnersRun
  BY InitAuditRows
<1>2. TraceTypes
  BY DEF AuditInit, TraceTypes, Trace, Ids
<1>3. QueuedWithId
  <2>1. ASSUME NEW j \in JobIds, LegacyOf(j, "job") = {} PROVE ~JobExists(j)
    BY <2>1 DEF AuditInit, NoJob, NewJob, JobExists
  <2>2. QED
    BY <2>1 DEF QueuedWithId
<1>4. ContextOfJob
  BY DEF AuditInit, WorkerInit, Idle, ContextOfJob
<1>5. JobOfOpener
  <2>1. \A c \in CaseIds : opener[c] = NULL
    BY DEF AuditInit
  <2>2. \A j \in JobIds : LiveJob(j) => jobs[j].case \in CaseIds
    BY <1>1 DEF RowsAndWorkers, RowsRefer, LiveJob, JobExists
  <2>3. QED
    BY <2>1, <2>2 DEF JobOfOpener
<1>6. QED
  BY <1>1, <1>2, <1>3, <1>4, <1>5 DEF TraceInv

LEMMA TraceInvHolds == AuditSpec => []TraceInv
<1>1. TraceInv /\ [AuditNext]_auditVars => TraceInv'
  BY StepTraces, AuditIsStep, TraceStepKeeps
<1>2. QED
  BY InitTraces, <1>1, PTL DEF AuditSpec

(* Whatever rows a migration finds, the steps under which the audit rows   *)
(* are written keep the tables and the workers' jobs sound, as those of    *)
(* the engine do.                                                          *)
THEOREM AuditedRowsAreSound == AuditSpec => []RowsAndWorkers
<1>1. TraceInv => RowsAndWorkers
  BY DEF TraceInv
<1>2. QED
  BY <1>1, TraceInvHolds, PTL

(* Every row, every worker's context and every job this code queued has an *)
(* id: a restarted process, a payload without one and a claim that is      *)
(* rolled back leave none without.                                         *)
THEOREM AuditTypeOKHolds == AuditSpec => []AuditTypeOK
<1>1. TraceInv => AuditTypeOK
  <2> SUFFICES ASSUME TraceInv PROVE AuditTypeOK
    OBVIOUS
  <2>1. TraceTypes /\ QueuedWithId
    BY DEF TraceInv
  <2>2. \A i \in DOMAIN audit : audit[i].id \in Ids
    <3>1. \A i \in DOMAIN audit : audit[i] \in AuditRows
      BY <2>1 DEF TraceTypes
    <3>2. QED
      BY <3>1 DEF AuditRows
  <2>3. QED
    BY <2>1, <2>2 DEF TraceTypes, QueuedWithId, Ids, AuditTypeOK
<1>2. QED
  BY <1>1, TraceInvHolds, PTL

LEMMA AppendedIndices ==
  ASSUME NEW S, NEW s \in Seq(S), NEW x \in S
  PROVE  /\ Append(s, x) \in Seq(S)
         /\ DOMAIN Append(s, x) = DOMAIN s \cup {Len(s) + 1}
         /\ Append(s, x)[Len(s) + 1] = x
         /\ \A i \in DOMAIN s : Append(s, x)[i] = s[i]
         /\ Len(s) + 1 \notin DOMAIN s
OBVIOUS

(* The rows a worker adds about a case that a request opened have the id   *)
(* of the request that opened it last.                                     *)
THEOREM TraceIsRestoredHolds == AuditSpec => TraceIsRestored
<1>1. ASSUME TraceInv, [AuditNext]_auditVars
      PROVE  \A i \in DOMAIN audit' \ DOMAIN audit : Traced(audit'[i])
  <2>1. audit \in Seq(AuditRows) /\ RowsAdded
    BY <1>1, StepTraces DEF TraceInv, TraceTypes
  <2>2. CASE audit' = audit
    BY <2>2
  <2>3. ASSUME NEW r \in AuditRows, audit' = Append(audit, r), Traced(r)
        PROVE  \A i \in DOMAIN audit' \ DOMAIN audit : Traced(audit'[i])
    BY <2>1, <2>3, AppendedIndices
  <2>4. ASSUME NEW q \in AuditRows, NEW r \in AuditRows,
               audit' = Append(Append(audit, q), r), Traced(q), Traced(r)
        PROVE  \A i \in DOMAIN audit' \ DOMAIN audit : Traced(audit'[i])
    <3> DEFINE s == Append(audit, q)
    <3>1. /\ s \in Seq(AuditRows) /\ DOMAIN s = DOMAIN audit \cup {Len(audit) + 1}
          /\ s[Len(audit) + 1] = q
      BY <2>1, AppendedIndices
    <3> HIDE DEF s
    <3>2. /\ DOMAIN Append(s, r) = DOMAIN s \cup {Len(s) + 1}
          /\ Append(s, r)[Len(s) + 1] = r
          /\ \A i \in DOMAIN s : Append(s, r)[i] = s[i]
      BY <3>1, AppendedIndices
    <3>3. audit' = Append(s, r)
      BY <2>4 DEF s
    <3>4. QED
      BY <2>4, <3>1, <3>2, <3>3
  <2>5. QED
    BY <2>1, <2>2, <2>3, <2>4 DEF RowsAdded
<1>2. TraceInv /\ [AuditNext]_auditVars =>
         [\A i \in DOMAIN audit' \ DOMAIN audit :
             audit'[i].event \in WorkerEvents =>
                opener[audit'[i].of] \in {NULL, audit'[i].id}]_auditVars
  BY <1>1 DEF Traced
<1>3. QED
  BY <1>2, TraceInvHolds, PTL DEF AuditSpec, TraceIsRestored

-----------------------------------------------------------------------------
(* What the rows tell.  Sets of rows, and what a row at the end of the     *)
(* trail changes about them.                                               *)

StopRows    == {r \in AuditRows : Stops(r)}
RecoverRows == {r \in AuditRows : Recovers(r)}
ReopenRows  == {r \in AuditRows : Reopens(r)}
ExhaustRows == {r \in AuditRows : Exhausts(r)}
TellingRows == StopRows \cup RecoverRows \cup ReopenRows

SuccessRows(p) == {r \in AuditRows : /\ r.event = "WEBHOOK_PROCESSED"
                                     /\ r.of = p
                                     /\ r.data = "payment.succeeded"}

CompletedRows(c) == {r \in AuditRows : /\ r.event = "CHARGE_EXECUTION_COMPLETED"
                                       /\ r.of = c}

LEMMA ExhaustRowsStop == ExhaustRows \subseteq StopRows
BY DEF ExhaustRows, StopRows, Exhausts, Stops

Has(s, R) == \E i \in DOMAIN s : s[i] \in R

(* The last telling row about c is one of R. *)
LastIn(s, c, R) ==
    \E i \in DOMAIN s :
        /\ s[i].of = c /\ s[i] \in R
        /\ \A k \in i + 1 .. Len(s) : s[k].of = c => s[k] \notin TellingRows

LEMMA HasAppended ==
  ASSUME NEW s \in Seq(AuditRows), NEW r \in AuditRows, NEW R
  PROVE  Has(Append(s, r), R) <=> Has(s, R) \/ r \in R
<1> DEFINE t == Append(s, r)
<1>1. /\ DOMAIN t = DOMAIN s \cup {Len(s) + 1}
      /\ t[Len(s) + 1] = r
      /\ \A i \in DOMAIN s : t[i] = s[i]
  BY AppendedIndices
<1> HIDE DEF t
<1>2. Has(t, R) <=> Has(s, R) \/ r \in R
  BY <1>1 DEF Has
<1>3. QED
  BY <1>2 DEF t

LEMMA LastAppended ==
  ASSUME NEW s \in Seq(AuditRows), NEW r \in AuditRows, NEW c,
         NEW R \in SUBSET TellingRows
  PROVE  /\ r.of = c /\ r \in TellingRows => (LastIn(Append(s, r), c, R) <=> r \in R)
         /\ ~(r.of = c /\ r \in TellingRows) =>
               (LastIn(Append(s, r), c, R) <=> LastIn(s, c, R))
<1> DEFINE t == Append(s, r)
           n == Len(s) + 1
<1>1. /\ Len(s) \in Nat /\ n \in Nat /\ Len(t) = n
      /\ DOMAIN s = 1 .. Len(s) /\ DOMAIN t = 1 .. n
      /\ t[n] = r /\ \A i \in 1 .. Len(s) : t[i] = s[i]
  OBVIOUS
<1> HIDE DEF t
<1>2. ASSUME r.of = c, r \in TellingRows
      PROVE  LastIn(t, c, R) <=> r \in R
  <2>1. ASSUME LastIn(t, c, R) PROVE r \in R
    <3>1. PICK i \in 1 .. n :
             /\ t[i] \in R
             /\ \A k \in i + 1 .. n : t[k].of = c => t[k] \notin TellingRows
      BY <1>1, <2>1 DEF LastIn
    <3>2. i = n
      BY <1>1, <1>2, <3>1
    <3>3. QED
      BY <1>1, <3>1, <3>2
  <2>2. ASSUME r \in R PROVE LastIn(t, c, R)
    <3>1. n \in DOMAIN t /\ t[n].of = c /\ t[n] \in R /\ n + 1 .. Len(t) = {}
      BY <1>1, <1>2, <2>2
    <3>2. QED
      BY <3>1 DEF LastIn
  <2>3. QED
    BY <2>1, <2>2
<1>3. ASSUME ~(r.of = c /\ r \in TellingRows)
      PROVE  LastIn(t, c, R) <=> LastIn(s, c, R)
  <2>1. ASSUME LastIn(t, c, R) PROVE LastIn(s, c, R)
    <3>1. PICK i \in 1 .. n :
             /\ t[i].of = c /\ t[i] \in R
             /\ \A k \in i + 1 .. n : t[k].of = c => t[k] \notin TellingRows
      BY <1>1, <2>1 DEF LastIn
    <3>2. i \in 1 .. Len(s)
      BY <1>1, <1>3, <3>1
    <3>3. \A k \in i + 1 .. Len(s) : k \in i + 1 .. n /\ t[k] = s[k]
      BY <1>1, <3>2
    <3>4. QED
      BY <1>1, <3>1, <3>2, <3>3 DEF LastIn
  <2>2. ASSUME LastIn(s, c, R) PROVE LastIn(t, c, R)
    <3>1. PICK i \in 1 .. Len(s) :
             /\ s[i].of = c /\ s[i] \in R
             /\ \A k \in i + 1 .. Len(s) : s[k].of = c => s[k] \notin TellingRows
      BY <1>1, <2>2 DEF LastIn
    <3>2. \A k \in i + 1 .. n : t[k].of = c => t[k] \notin TellingRows
      <4> SUFFICES ASSUME NEW k \in i + 1 .. n PROVE t[k].of = c => t[k] \notin TellingRows
        OBVIOUS
      <4>1. CASE k = n
        BY <1>1, <1>3, <4>1
      <4>2. CASE k # n
        <5>1. k \in i + 1 .. Len(s) /\ k \in 1 .. Len(s)
          BY <1>1, <3>1, <4>2
        <5>2. QED
          BY <1>1, <3>1, <5>1
      <4>3. QED
        BY <4>1, <4>2
    <3>3. i \in 1 .. n /\ t[i] = s[i]
      BY <1>1, <3>1
    <3>4. QED
      BY <1>1, <3>1, <3>2, <3>3 DEF LastIn
  <2>3. QED
    BY <2>1, <2>2
<1>4. QED
  BY <1>2, <1>3 DEF t

(* Rows that say nothing about the status of a case or a payment. *)
Silent(r) == /\ r \notin TellingRows
             /\ ~(r.event = "WEBHOOK_PROCESSED" /\ r.data = "payment.succeeded")

Follows(b) == \/ b = audit
              \/ \E q \in AuditRows : Silent(q) /\ b = Append(audit, q)

LEMMA SilentSays ==
  ASSUME NEW q \in AuditRows, Silent(q)
  PROVE  /\ q \notin TellingRows
         /\ \A p : q \notin SuccessRows(p)
         /\ \A c : q \notin CompletedRows(c)
<1>1. \A c : CompletedRows(c) \subseteq TellingRows
  BY DEF CompletedRows, TellingRows, RecoverRows, Recovers
<1>2. QED
  BY <1>1 DEF Silent, SuccessRows

LEMMA FollowingTells ==
  ASSUME audit \in Seq(AuditRows), NEW b, Follows(b)
  PROVE  /\ b \in Seq(AuditRows)
         /\ \A c : LastIn(b, c, StopRows) <=> LastIn(audit, c, StopRows)
         /\ \A c : LastIn(b, c, RecoverRows) <=> LastIn(audit, c, RecoverRows)
         /\ \A c : LastIn(b, c, ExhaustRows) <=> LastIn(audit, c, ExhaustRows)
         /\ \A p : Has(b, SuccessRows(p)) <=> Has(audit, SuccessRows(p))
         /\ \A c : Has(b, CompletedRows(c)) <=> Has(audit, CompletedRows(c))
<1>1. CASE b = audit
  BY <1>1
<1>2. ASSUME NEW q \in AuditRows, Silent(q), b = Append(audit, q)
      PROVE  /\ b \in Seq(AuditRows)
             /\ \A c : LastIn(b, c, StopRows) <=> LastIn(audit, c, StopRows)
             /\ \A c : LastIn(b, c, RecoverRows) <=> LastIn(audit, c, RecoverRows)
             /\ \A c : LastIn(b, c, ExhaustRows) <=> LastIn(audit, c, ExhaustRows)
             /\ \A p : Has(b, SuccessRows(p)) <=> Has(audit, SuccessRows(p))
             /\ \A c : Has(b, CompletedRows(c)) <=> Has(audit, CompletedRows(c))
  <2>1. /\ StopRows \in SUBSET TellingRows /\ RecoverRows \in SUBSET TellingRows
        /\ ExhaustRows \in SUBSET TellingRows
    BY ExhaustRowsStop DEF TellingRows
  <2>2. b \in Seq(AuditRows)
    BY <1>2
  <2>3. QED
    BY <1>2, <2>1, <2>2, SilentSays, HasAppended, LastAppended
<1>3. QED
  BY <1>1, <1>2 DEF Follows

-----------------------------------------------------------------------------
(* The tables as the rows tell them.                                       *)

CaseTold(c) ==
    /\ cases[c].status = "STOPPED" => LastIn(audit, c, StopRows)
    /\ LastIn(audit, c, StopRows) =>
          \/ cases[c].status = "STOPPED"
          \/ cases[c].status = "RECOVERED" /\ LastIn(audit, c, ExhaustRows)
    /\ cases[c].status = "RECOVERED" =>
          \/ LastIn(audit, c, RecoverRows)
          \/ Has(audit, SuccessRows(cases[c].payment))
          \/ LastIn(audit, c, ExhaustRows)

CompletedFor(p) == \E c \in CaseIds : Has(audit, CompletedRows(c)) /\ cases[c].payment = p

PaymentTold(p) == Paid(p) <=> Has(audit, SuccessRows(p)) \/ CompletedFor(p)

(* A completed charge is told of a case that exists, whose payment never   *)
(* changes.                                                                *)
CompletedExist == \A c \in Entities :
    Has(audit, CompletedRows(c)) => c \in CaseIds /\ CaseExists(c)

StatusInv == /\ TraceInv /\ CompletedExist
             /\ \A c \in CaseIds : CaseTold(c)
             /\ \A p \in PaymentIds : PaymentTold(p)

(* What a step writes: nothing about the status of a case or a payment,    *)
(* the success of a payment with its effect on the active cases, or the    *)
(* new status of one case.                                                 *)
WritesNothing ==
    /\ Follows(audit')
    /\ \A c \in CaseIds : \/ cases'[c] = cases[c]
                          \/ ~CaseExists(c) /\ cases'[c].status = "OPEN"
    /\ \A p \in PaymentIds : Paid(p)' <=> Paid(p)

WritesSuccess ==
    \E p \in PaymentIds : \E r \in SuccessRows(p) :
        /\ audit' = Append(audit, r)
        /\ \A q \in PaymentIds : Paid(q)' <=> Paid(q) \/ q = p
        /\ \A c \in CaseIds :
              \/ cases'[c] = cases[c]
              \/ /\ ActiveCase(c) /\ cases'[c].status = "RECOVERED"
                 /\ cases'[c].payment = p

WritesStatus ==
    \E b : \E c \in CaseIds, r \in AuditRows :
        /\ Follows(b) /\ audit' = Append(b, r)
        /\ r.of = c /\ r \in TellingRows /\ CaseExists(c)
        /\ \A p : r \notin SuccessRows(p)
        /\ \A d \in CaseIds \ {c} : cases'[d] = cases[d]
        /\ cases'[c].status = "STOPPED" => r \in StopRows
        /\ r \in StopRows => \/ cases'[c].status = "STOPPED"
                             \/ cases'[c].status = "RECOVERED" /\ r \in ExhaustRows
        /\ cases'[c].status = "RECOVERED" => r \in RecoverRows \/ r \in ExhaustRows
        /\ \A p \in PaymentIds :
              Paid(p)' <=> Paid(p) \/ (r \in CompletedRows(c) /\ cases[c].payment = p)

LEMMA StepKeepsCases ==
  ASSUME RowsAndWorkers, [Next]_vars
  PROVE  CasesKept
<1>1. CASE UNCHANGED cases
  BY <1>1 DEF CasesKept, CaseExists, RowsAndWorkers, RowsRefer
<1>2. ASSUME NEW w \in Workers, NEW j \in JobIds, StartAttempt(w, j)
      PROVE  UNCHANGED cases
  BY <1>2 DEF StartAttempt
<1>3. ASSUME NEW w \in Workers, Charge(w)
      PROVE  UNCHANGED cases
  BY <1>3 DEF Charge, dbVars
<1>4. CASE Quiet
  BY <1>4 DEF Quiet
<1>5. QED
  BY <1>1, <1>2, <1>3, <1>4, StepKinds

(* Cases that were completed keep their payment. *)
LEMMA CompletedStay ==
  ASSUME StatusInv, CasesKept, NEW c \in CaseIds, Has(audit, CompletedRows(c))
  PROVE  CaseExists(c) /\ CaseExists(c)' /\ cases'[c].payment = cases[c].payment
BY DEF StatusInv, CompletedExist, Entities, CasesKept

LEMMA NothingKeepsStatus ==
  ASSUME StatusInv, CasesKept, WritesNothing
  PROVE  /\ CompletedExist'
         /\ \A c \in CaseIds : CaseTold(c)'
         /\ \A p \in PaymentIds : PaymentTold(p)'
<1>1. /\ \A c : LastIn(audit', c, StopRows) <=> LastIn(audit, c, StopRows)
      /\ \A c : LastIn(audit', c, RecoverRows) <=> LastIn(audit, c, RecoverRows)
      /\ \A c : LastIn(audit', c, ExhaustRows) <=> LastIn(audit, c, ExhaustRows)
      /\ \A p : Has(audit', SuccessRows(p)) <=> Has(audit, SuccessRows(p))
      /\ \A c : Has(audit', CompletedRows(c)) <=> Has(audit, CompletedRows(c))
  BY FollowingTells DEF WritesNothing, StatusInv, TraceInv, TraceTypes
<1>2. CompletedExist'
  BY <1>1, CompletedStay DEF CompletedExist, StatusInv
<1>3. ASSUME NEW c \in CaseIds
      PROVE  CaseTold(c)'
  <2>1. CaseTold(c)
    BY DEF StatusInv
  <2>2. CASE cases'[c] = cases[c]
    BY <1>1, <2>1, <2>2 DEF CaseTold
  <2>3. CASE ~CaseExists(c) /\ cases'[c].status = "OPEN"
    BY <1>1, <2>1, <2>3 DEF CaseTold, CaseExists
  <2>4. QED
    BY <2>2, <2>3 DEF WritesNothing
<1>4. ASSUME NEW p \in PaymentIds
      PROVE  PaymentTold(p)'
  <2>1. CompletedFor(p)' <=> CompletedFor(p)
    BY <1>1, CompletedStay DEF CompletedFor
  <2>2. PaymentTold(p) /\ (Paid(p)' <=> Paid(p))
    BY DEF StatusInv, WritesNothing
  <2>3. Has(audit', SuccessRows(p)) <=> Has(audit, SuccessRows(p))
    BY <1>1
  <2>4. QED
    BY <2>1, <2>2, <2>3 DEF PaymentTold
<1>5. QED
  BY <1>2, <1>3, <1>4

LEMMA SuccessSays ==
  ASSUME NEW p, NEW r \in SuccessRows(p)
  PROVE  /\ r \in AuditRows /\ r \notin TellingRows
         /\ \A c : r \notin CompletedRows(c)
         /\ \A q : r \in SuccessRows(q) <=> q = p
BY DEF SuccessRows, TellingRows, StopRows, RecoverRows, ReopenRows, Stops, Recovers, Reopens,
       CompletedRows

LEMMA SuccessKeepsStatus ==
  ASSUME StatusInv, CasesKept, WritesSuccess
  PROVE  /\ CompletedExist'
         /\ \A c \in CaseIds : CaseTold(c)'
         /\ \A p \in PaymentIds : PaymentTold(p)'
<1>0. PICK p \in PaymentIds : \E r \in SuccessRows(p) :
         /\ audit' = Append(audit, r)
         /\ \A q \in PaymentIds : Paid(q)' <=> Paid(q) \/ q = p
         /\ \A c \in CaseIds :
               \/ cases'[c] = cases[c]
               \/ /\ ActiveCase(c) /\ cases'[c].status = "RECOVERED"
                  /\ cases'[c].payment = p
  BY DEF WritesSuccess
<1>1. PICK r \in SuccessRows(p) :
         /\ audit' = Append(audit, r)
         /\ \A q \in PaymentIds : Paid(q)' <=> Paid(q) \/ q = p
         /\ \A c \in CaseIds :
               \/ cases'[c] = cases[c]
               \/ /\ ActiveCase(c) /\ cases'[c].status = "RECOVERED"
                  /\ cases'[c].payment = p
  BY <1>0
<1>2. audit \in Seq(AuditRows) /\ r \in AuditRows
  BY SuccessSays DEF StatusInv, TraceInv, TraceTypes
<1>3. /\ \A c : LastIn(audit', c, StopRows) <=> LastIn(audit, c, StopRows)
      /\ \A c : LastIn(audit', c, RecoverRows) <=> LastIn(audit, c, RecoverRows)
      /\ \A c : LastIn(audit', c, ExhaustRows) <=> LastIn(audit, c, ExhaustRows)
      /\ \A q : Has(audit', SuccessRows(q)) <=> Has(audit, SuccessRows(q)) \/ q = p
      /\ \A c : Has(audit', CompletedRows(c)) <=> Has(audit, CompletedRows(c))
  <2>1. /\ StopRows \in SUBSET TellingRows /\ RecoverRows \in SUBSET TellingRows
        /\ ExhaustRows \in SUBSET TellingRows
    BY ExhaustRowsStop DEF TellingRows
  <2>2. QED
    BY <1>1, <1>2, <2>1, SuccessSays, HasAppended, LastAppended
<1>4. CompletedExist'
  BY <1>3, CompletedStay DEF CompletedExist, StatusInv
<1>5. ASSUME NEW c \in CaseIds
      PROVE  CaseTold(c)'
  <2>1. CaseTold(c)
    BY DEF StatusInv
  <2>2. CASE cases'[c] = cases[c]
    BY <1>3, <2>1, <2>2 DEF CaseTold
  <2>3. CASE ActiveCase(c) /\ cases'[c].status = "RECOVERED" /\ cases'[c].payment = p
    <3>1. cases[c].status # "STOPPED"
      BY <2>3 DEF ActiveCase, TerminalCaseStates
    <3>2. QED
      BY <1>3, <2>1, <2>3, <3>1 DEF CaseTold
  <2>4. QED
    BY <1>1, <2>2, <2>3
<1>6. ASSUME NEW q \in PaymentIds
      PROVE  PaymentTold(q)'
  <2>1. CompletedFor(q)' <=> CompletedFor(q)
    BY <1>3, CompletedStay DEF CompletedFor
  <2>2. PaymentTold(q) /\ (Paid(q)' <=> Paid(q) \/ q = p)
    BY <1>1 DEF StatusInv
  <2>3. Has(audit', SuccessRows(q)) <=> Has(audit, SuccessRows(q)) \/ q = p
    BY <1>3
  <2>4. QED
    BY <2>1, <2>2, <2>3 DEF PaymentTold
<1>7. QED
  BY <1>4, <1>5, <1>6

LEMMA StatusKeepsStatus ==
  ASSUME StatusInv, CasesKept, WritesStatus
  PROVE  /\ CompletedExist'
         /\ \A c \in CaseIds : CaseTold(c)'
         /\ \A p \in PaymentIds : PaymentTold(p)'
<1>0. PICK b : \E c \in CaseIds, r \in AuditRows :
        /\ Follows(b) /\ audit' = Append(b, r)
        /\ r.of = c /\ r \in TellingRows /\ CaseExists(c)
        /\ \A p : r \notin SuccessRows(p)
        /\ \A d \in CaseIds \ {c} : cases'[d] = cases[d]
        /\ cases'[c].status = "STOPPED" => r \in StopRows
        /\ r \in StopRows => \/ cases'[c].status = "STOPPED"
                             \/ cases'[c].status = "RECOVERED" /\ r \in ExhaustRows
        /\ cases'[c].status = "RECOVERED" => r \in RecoverRows \/ r \in ExhaustRows
        /\ \A p \in PaymentIds :
              Paid(p)' <=> Paid(p) \/ (r \in CompletedRows(c) /\ cases[c].payment = p)
  BY DEF WritesStatus
<1>1. PICK c \in CaseIds, r \in AuditRows :
        /\ Follows(b) /\ audit' = Append(b, r)
        /\ r.of = c /\ r \in TellingRows /\ CaseExists(c)
        /\ \A p : r \notin SuccessRows(p)
        /\ \A d \in CaseIds \ {c} : cases'[d] = cases[d]
        /\ cases'[c].status = "STOPPED" => r \in StopRows
        /\ r \in StopRows => \/ cases'[c].status = "STOPPED"
                             \/ cases'[c].status = "RECOVERED" /\ r \in ExhaustRows
        /\ cases'[c].status = "RECOVERED" => r \in RecoverRows \/ r \in ExhaustRows
        /\ \A p \in PaymentIds :
              Paid(p)' <=> Paid(p) \/ (r \in CompletedRows(c) /\ cases[c].payment = p)
  BY <1>0
<1>2. /\ b \in Seq(AuditRows)
      /\ \A d : LastIn(b, d, StopRows) <=> LastIn(audit, d, StopRows)
      /\ \A d : LastIn(b, d, RecoverRows) <=> LastIn(audit, d, RecoverRows)
      /\ \A d : LastIn(b, d, ExhaustRows) <=> LastIn(audit, d, ExhaustRows)
      /\ \A p : Has(b, SuccessRows(p)) <=> Has(audit, SuccessRows(p))
      /\ \A d : Has(b, CompletedRows(d)) <=> Has(audit, CompletedRows(d))
  BY <1>1, FollowingTells DEF StatusInv, TraceInv, TraceTypes
<1>3. /\ LastIn(audit', c, StopRows) <=> r \in StopRows
      /\ LastIn(audit', c, RecoverRows) <=> r \in RecoverRows
      /\ LastIn(audit', c, ExhaustRows) <=> r \in ExhaustRows
      /\ \A d : d # c => /\ LastIn(audit', d, StopRows) <=> LastIn(audit, d, StopRows)
                         /\ LastIn(audit', d, RecoverRows) <=> LastIn(audit, d, RecoverRows)
                         /\ LastIn(audit', d, ExhaustRows) <=> LastIn(audit, d, ExhaustRows)
  <2>1. /\ StopRows \in SUBSET TellingRows /\ RecoverRows \in SUBSET TellingRows
        /\ ExhaustRows \in SUBSET TellingRows
    BY ExhaustRowsStop DEF TellingRows
  <2>2. QED
    BY <1>1, <1>2, <2>1, LastAppended
<1>4. /\ \A q : Has(audit', SuccessRows(q)) <=> Has(audit, SuccessRows(q))
      /\ \A d : Has(audit', CompletedRows(d)) <=>
                   Has(audit, CompletedRows(d)) \/ r \in CompletedRows(d)
  BY <1>1, <1>2, HasAppended
<1>5. \A d : r \in CompletedRows(d) => d = c
  BY <1>1 DEF CompletedRows
<1>6. CaseExists(c) /\ CaseExists(c)' /\ cases'[c].payment = cases[c].payment
  BY <1>1 DEF CasesKept
<1>7. CompletedExist'
  BY <1>4, <1>5, <1>6, CompletedStay DEF CompletedExist, StatusInv
<1>8. ASSUME NEW d \in CaseIds
      PROVE  CaseTold(d)'
  <2>1. CaseTold(d)
    BY DEF StatusInv
  <2>2. CASE d = c
    BY <1>1, <1>3, <2>2 DEF CaseTold
  <2>3. CASE d # c
    BY <1>1, <1>3, <1>4, <2>1, <2>3 DEF CaseTold
  <2>4. QED
    BY <2>2, <2>3
<1>9. ASSUME NEW p \in PaymentIds
      PROVE  PaymentTold(p)'
  <2>1. CompletedFor(p)' <=>
           CompletedFor(p) \/ (r \in CompletedRows(c) /\ cases[c].payment = p)
    BY <1>4, <1>5, <1>6, CompletedStay DEF CompletedFor
  <2>2. /\ PaymentTold(p)
        /\ Paid(p)' <=> Paid(p) \/ (r \in CompletedRows(c) /\ cases[c].payment = p)
    BY <1>1 DEF StatusInv
  <2>3. Has(audit', SuccessRows(p)) <=> Has(audit, SuccessRows(p))
    BY <1>4
  <2>4. QED
    BY <2>1, <2>2, <2>3 DEF PaymentTold
<1>10. QED
  BY <1>7, <1>8, <1>9

-----------------------------------------------------------------------------
(* Every step of the trail is one of the three. *)

LEMMA OneSilentRow ==
  ASSUME audit \in Seq(AuditRows), NEW r \in AuditRows, audit' = Append(audit, r),
         ~Stops(r), ~Recovers(r), ~Reopens(r),
         ~(r.event = "WEBHOOK_PROCESSED" /\ r.data = "payment.succeeded")
  PROVE  Follows(audit')
BY DEF Follows, Silent, TellingRows, StopRows, RecoverRows, ReopenRows

LEMMA OneStatusRow ==
  ASSUME TraceInv, NEW c \in CaseIds, CaseExists(c), NEW r \in AuditRows, r.of = c,
         r.event # "WEBHOOK_PROCESSED",
         NEW b, Follows(b), audit' = Append(b, r),
         NEW s, cases' = [cases EXCEPT ![c].status = s],
         \/ s = "STOPPED" /\ Stops(r)
         \/ s = "RECOVERED" /\ ~Stops(r) /\ Recovers(r)
         \/ s = "RECOVERED" /\ Exhausts(r)
         \/ s = "OPEN" /\ ~Stops(r) /\ Reopens(r),
         \/ r.event # "CHARGE_EXECUTION_COMPLETED" /\ UNCHANGED payments
         \/ /\ r.event = "CHARGE_EXECUTION_COMPLETED"
            /\ payments' = [payments EXCEPT ![cases[c].payment].status = "SUCCEEDED"]
  PROVE  WritesStatus
<1>1. /\ cases \in [CaseIds -> CaseRow] /\ payments \in [PaymentIds -> PaymentRow]
      /\ cases[c].payment \in PaymentIds
  BY DEF TraceInv, RowsAndWorkers, TypeOK, DbTypeOK, RowsRefer
<1>2. cases'[c].status = s /\ \A d \in CaseIds \ {c} : cases'[d] = cases[d]
  BY <1>1 DEF CaseRow
<1>3. r \in TellingRows /\ \A p : r \notin SuccessRows(p)
  BY DEF TellingRows, StopRows, RecoverRows, ReopenRows, SuccessRows, Exhausts, Stops
<1>4. /\ cases'[c].status = "STOPPED" => r \in StopRows
      /\ r \in StopRows => \/ cases'[c].status = "STOPPED"
                           \/ cases'[c].status = "RECOVERED" /\ r \in ExhaustRows
      /\ cases'[c].status = "RECOVERED" => r \in RecoverRows \/ r \in ExhaustRows
  BY <1>2 DEF StopRows, RecoverRows, ExhaustRows
<1>5. ASSUME NEW p \in PaymentIds
      PROVE  Paid(p)' <=> Paid(p) \/ (r \in CompletedRows(c) /\ cases[c].payment = p)
  <2>1. CASE r.event # "CHARGE_EXECUTION_COMPLETED" /\ UNCHANGED payments
    BY <2>1 DEF Paid, CompletedRows
  <2>2. CASE /\ r.event = "CHARGE_EXECUTION_COMPLETED"
             /\ payments' = [payments EXCEPT ![cases[c].payment].status = "SUCCEEDED"]
    <3>1. /\ payments'[cases[c].payment].status = "SUCCEEDED"
          /\ p # cases[c].payment => payments'[p] = payments[p]
      BY <1>1, <2>2 DEF PaymentRow
    <3>2. r \in CompletedRows(c)
      BY <2>2 DEF CompletedRows
    <3>3. QED
      BY <3>1, <3>2 DEF Paid
  <2>3. QED
    BY <2>1, <2>2
<1>6. /\ Follows(b) /\ audit' = Append(b, r)
      /\ r.of = c /\ r \in TellingRows /\ CaseExists(c)
      /\ \A p : r \notin SuccessRows(p)
      /\ \A d \in CaseIds \ {c} : cases'[d] = cases[d]
  BY <1>2, <1>3
<1>7. QED
  BY <1>4, <1>5, <1>6, Zenon DEF WritesStatus

LEMMA QuietWritesNothing ==
  ASSUME UNCHANGED <<cases, payments>>, Follows(audit')
  PROVE  WritesNothing
BY DEF WritesNothing, Paid

LEMMA WebhookWrites ==
  ASSUME TraceInv, NEW id \in Traces, NEW e \in Events, WebhookRequest(e, id)
  PROVE  WritesNothing \/ WritesSuccess
<1>1. /\ audit \in Seq(AuditRows) /\ id \in Ids
      /\ payments \in [PaymentIds -> PaymentRow] /\ cases \in [CaseIds -> CaseRow]
  BY DEF TraceInv, TraceTypes, Ids, RowsAndWorkers, TypeOK, DbTypeOK
<1>2. e \in WebhookEvent
  BY EventsAssumption
<1>3. /\ e.payment \in PaymentIds /\ e.payment \in Entities /\ e.id \in Entities
      /\ e.type \in AuditData /\ e.type # "PAYMENT_SUCCEEDED" /\ e.type # "ABORT"
  BY <1>2 DEF WebhookEvent, Entities, AuditData, SupportedTypes
<1>4. ASSUME NEW event \in {"WEBHOOK_PROCESSED", "WEBHOOK_TERMINAL_DOMINANCE_ENFORCED",
                            "WEBHOOK_DUPLICATE_REJECTED"},
             NEW of \in Entities, Write(<<Row(event, of, e.type)>>, id)
      PROVE  \E r \in AuditRows :
                /\ audit' = Append(audit, r)
                /\ r.event = event /\ r.of = of /\ r.data = e.type
                /\ ~Stops(r) /\ ~Recovers(r) /\ ~Reopens(r)
  <2> DEFINE r == Told(event, of, e.type, id)
  <2>1. event \in AuditEvents
    BY DEF AuditEvents
  <2>2. audit' = Append(audit, r) /\ r \in AuditRows
    BY <1>1, <1>3, <1>4, <2>1, WriteOne
  <2>3. r.event = event /\ r.of = of /\ r.data = e.type
    BY DEF Told
  <2> HIDE DEF r
  <2>4. ~Stops(r) /\ ~Recovers(r) /\ ~Reopens(r)
    BY <1>3, <2>3 DEF Stops, Recovers, Reopens
  <2>5. QED
    BY <2>2, <2>3, <2>4
<1>5. ASSUME NEW event \in {"WEBHOOK_PROCESSED", "WEBHOOK_TERMINAL_DOMINANCE_ENFORCED",
                            "WEBHOOK_DUPLICATE_REJECTED"},
             NEW of \in Entities, Write(<<Row(event, of, e.type)>>, id),
             event = "WEBHOOK_PROCESSED" => e.type # "payment.succeeded"
      PROVE  Follows(audit')
  BY <1>1, <1>4, <1>5, OneSilentRow
<1>6. ASSUME PutPayment(e, "FAILED"), ~Terminal(e.payment)
      PROVE  \A p \in PaymentIds : Paid(p)' <=> Paid(p)
  BY <1>1, <1>6 DEF PutPayment, Paid, Terminal
<1>7. CASE AcknowledgeTerminal(e) /\ Write(<<Row("WEBHOOK_TERMINAL_DOMINANCE_ENFORCED", e.payment, e.type)>>, id)
  BY <1>3, <1>5, <1>7, QuietWritesNothing DEF AcknowledgeTerminal
<1>8. CASE RejectDuplicate(e, id)
  <2>1. CASE Write(<<Row("WEBHOOK_DUPLICATE_REJECTED", e.id, e.type)>>, id)
    BY <1>3, <1>5, <1>8, <2>1, QuietWritesNothing DEF RejectDuplicate, dbVars
  <2>2. CASE UNCHANGED audit
    BY <1>8, <2>2, QuietWritesNothing DEF RejectDuplicate, dbVars, Follows
  <2>3. QED
    BY <1>8, <2>1, <2>2 DEF RejectDuplicate
<1>9. CASE RecordRepeatedFailure(e) /\ Processed(e, id)
  <2>1. Follows(audit')
    BY <1>3, <1>5, <1>9 DEF RecordRepeatedFailure, Processed
  <2>2. QED
    BY <1>6, <1>9, <2>1 DEF RecordRepeatedFailure, WritesNothing
<1>10. ASSUME NEW c \in CaseIds, NEW j \in JobIds, OpenCase(e, c, j), Processed(e, id)
       PROVE  WritesNothing
  <2>1. Follows(audit')
    BY <1>3, <1>5, <1>10 DEF OpenCase, Processed
  <2>2. \A d \in CaseIds : \/ cases'[d] = cases[d]
                           \/ ~CaseExists(d) /\ cases'[d].status = "OPEN"
    BY <1>1, <1>10 DEF OpenCase
  <2>3. QED
    BY <1>6, <1>10, <2>1, <2>2 DEF OpenCase, WritesNothing
<1>11. CASE RecordSuccess(e) /\ Processed(e, id)
  <2>1. PICK r \in AuditRows :
           /\ audit' = Append(audit, r)
           /\ r.event = "WEBHOOK_PROCESSED" /\ r.of = e.payment /\ r.data = e.type
    BY <1>3, <1>4, <1>11 DEF Processed
  <2>2. r \in SuccessRows(e.payment)
    BY <1>11, <2>1 DEF SuccessRows, RecordSuccess
  <2>3. \A q \in PaymentIds : Paid(q)' <=> Paid(q) \/ q = e.payment
    BY <1>1, <1>3, <1>11 DEF RecordSuccess, PutPayment, Paid
  <2>4. ASSUME NEW c \in CaseIds
        PROVE  \/ cases'[c] = cases[c]
               \/ /\ ActiveCase(c) /\ cases'[c].status = "RECOVERED"
                  /\ cases'[c].payment = e.payment
    <3>1. cases'[c] = IF c \in ActiveCases(e.payment)
                      THEN [cases[c] EXCEPT !.status = "RECOVERED"] ELSE cases[c]
      BY <1>11 DEF RecordSuccess
    <3>2. QED
      BY <1>1, <3>1 DEF ActiveCases, CaseRow
  <2>5. QED
    BY <1>3, <2>1, <2>2, <2>3, <2>4 DEF WritesSuccess
<1>12. QED
  BY <1>7, <1>8, <1>9, <1>10, <1>11 DEF WebhookRequest

LEMMA AdminWrites ==
  ASSUME TraceInv, NEW id \in Traces, NEW c \in CaseIds, AdminRequest(c, id)
  PROVE  WritesNothing \/ WritesStatus
<1>1. audit \in Seq(AuditRows) /\ id \in Ids /\ c \in Entities /\ Follows(audit)
  BY DEF TraceInv, TraceTypes, Ids, Entities, Follows
<1>2. ASSUME NEW event \in {"ADMIN_STOP_REJECTED", "ADMIN_RETRY_REJECTED",
                            "ADMIN_STOP_CASE", "ADMIN_RETRY_CASE"},
             NEW data \in {"PAYMENT_SUCCEEDED", "ACTIVE_JOBS_EXIST", "none"},
             Write(<<Row(event, c, data)>>, id)
      PROVE  \E r \in AuditRows :
                /\ audit' = Append(audit, r)
                /\ r.event = event /\ r.of = c /\ r.data = data
  <2> DEFINE r == Told(event, c, data, id)
  <2>1. event \in AuditEvents /\ data \in AuditData
    BY DEF AuditEvents, AuditData
  <2>2. audit' = Append(audit, r) /\ r \in AuditRows
    BY <1>1, <1>2, <2>1, WriteOne
  <2>3. r.event = event /\ r.of = c /\ r.data = data
    BY DEF Told
  <2> HIDE DEF r
  <2>4. QED
    BY <2>2, <2>3
<1>3. CASE /\ RejectForPaid(c)
           /\ \E event \in {"ADMIN_STOP_REJECTED", "ADMIN_RETRY_REJECTED"} :
                 Write(<<Row(event, c, "PAYMENT_SUCCEEDED")>>, id)
  <2>1. PICK r \in AuditRows :
           /\ audit' = Append(audit, r) /\ r.of = c /\ r.data = "PAYMENT_SUCCEEDED"
           /\ r.event \in {"ADMIN_STOP_REJECTED", "ADMIN_RETRY_REJECTED"}
    BY <1>2, <1>3
  <2>2. /\ ~Stops(r) /\ Recovers(r) /\ r.event # "WEBHOOK_PROCESSED"
        /\ r.event # "CHARGE_EXECUTION_COMPLETED"
    BY <2>1 DEF Stops, Recovers
  <2>3. QED
    BY <1>1, <1>3, <2>1, <2>2, OneStatusRow DEF RejectForPaid
<1>4. CASE RefuseRetry(c) /\ Write(<<Row("ADMIN_RETRY_REJECTED", c, "ACTIVE_JOBS_EXIST")>>, id)
  <2>1. PICK r \in AuditRows :
           /\ audit' = Append(audit, r) /\ r.data = "ACTIVE_JOBS_EXIST"
           /\ r.event = "ADMIN_RETRY_REJECTED"
    BY <1>2, <1>4
  <2>2. ~Stops(r) /\ ~Recovers(r) /\ ~Reopens(r)
    BY <2>1 DEF Stops, Recovers, Reopens
  <2>3. Follows(audit')
    BY <1>1, <2>1, <2>2, OneSilentRow
  <2>4. QED
    BY <1>4, <2>3, QuietWritesNothing DEF RefuseRetry, dbVars
<1>5. CASE CloseCase(c) /\ Write(<<Row("ADMIN_STOP_CASE", c, "none")>>, id)
  <2>1. PICK r \in AuditRows :
           audit' = Append(audit, r) /\ r.of = c /\ r.event = "ADMIN_STOP_CASE"
    BY <1>2, <1>5
  <2>2. Stops(r)
    BY <2>1 DEF Stops
  <2>3. QED
    BY <1>1, <1>5, <2>1, <2>2, OneStatusRow DEF CloseCase, ActiveCase
<1>6. ASSUME NEW j \in JobIds, ReopenCase(c, j),
             Write(<<Row("ADMIN_RETRY_CASE", c, "none")>>, id)
      PROVE  WritesStatus
  <2>1. PICK r \in AuditRows :
           audit' = Append(audit, r) /\ r.of = c /\ r.event = "ADMIN_RETRY_CASE"
    BY <1>2, <1>6
  <2>2. ~Stops(r) /\ Reopens(r)
    BY <2>1 DEF Stops, Reopens
  <2>3. QED
    BY <1>1, <1>6, <2>1, <2>2, OneStatusRow DEF ReopenCase
<1>7. QED
  BY <1>3, <1>4, <1>5, <1>6 DEF AdminRequest

LEMMA FinishWrites ==
  ASSUME TraceInv, NEW w \in Workers, FinishEvaluation(w) \/ FinishCharge(w)
  PROVE  WritesNothing \/ WritesStatus
<1> DEFINE c == jobs[Job(w)].case
<1>1. Ends(w)
  BY FinalizeOnJobs DEF FinishEvaluation, FinishCharge, FinalizeEvaluation, FinalizeJob
<1>2. /\ c \in CaseIds /\ CaseExists(c)
      /\ audit \in Seq(AuditRows) /\ Follows(audit)
  BY <1>1, JobInHand DEF Ends, TraceInv, TraceTypes, Follows
<1>3. ASSUME NEW event \in {"JOB_CANCELLED", "AI_EVALUATION_COMPLETED", "AI_EVALUATION_FAILED",
                            "CHARGE_EXECUTION_COMPLETED", "CHARGE_EXECUTION_FAILED"},
             NEW data \in {"none", "ABORT", "CHARGE", "DELAY"}, Tell(w, event, data)
      PROVE  \E r \in AuditRows :
                /\ audit' = Append(audit, r)
                /\ r.event = event /\ r.of = c /\ r.data = data
  <2>1. event \in AuditEvents /\ data \in AuditData
    BY DEF AuditEvents, AuditData, WorkerEvents
  <2>2. QED
    BY <1>1, <1>3, <2>1, ToldRow
<1>4. ASSUME NEW event \in {"JOB_CANCELLED", "AI_EVALUATION_COMPLETED", "CHARGE_EXECUTION_FAILED"},
             NEW data \in {"none", "CHARGE", "DELAY"}, Tell(w, event, data),
             UNCHANGED <<cases, payments>>
      PROVE  WritesNothing
  <2>1. PICK r \in AuditRows :
           audit' = Append(audit, r) /\ r.event = event /\ r.data = data
    BY <1>3, <1>4
  <2>2. ~Stops(r) /\ ~Recovers(r) /\ ~Reopens(r) /\ r.event # "WEBHOOK_PROCESSED"
    BY <2>1 DEF Stops, Recovers, Reopens
  <2>3. Follows(audit')
    BY <1>2, <2>1, <2>2, OneSilentRow
  <2>4. QED
    BY <1>4, <2>3, QuietWritesNothing
<1>5. ASSUME NEW event, NEW data, Tell(w, event, data),
             \/ event = "AI_EVALUATION_COMPLETED" /\ data = "ABORT"
             \/ event = "AI_EVALUATION_FAILED" /\ data = "none",
             SetCase(c, "STOPPED"), UNCHANGED payments
      PROVE  WritesStatus
  <2>1. PICK r \in AuditRows :
           audit' = Append(audit, r) /\ r.event = event /\ r.of = c /\ r.data = data
    BY <1>3, <1>5
  <2>2. /\ Stops(r) /\ r.event # "WEBHOOK_PROCESSED"
        /\ r.event # "CHARGE_EXECUTION_COMPLETED"
    BY <1>5, <2>1 DEF Stops
  <2>3. cases' = [cases EXCEPT ![c].status = "STOPPED"]
    BY <1>5 DEF SetCase
  <2> HIDE DEF c
  <2>4. QED
    BY <1>2, <1>5, <2>1, <2>2, <2>3, OneStatusRow
<1>6. ASSUME UNCHANGED <<cases, payments, audit>>
      PROVE  WritesNothing
  BY <1>2, <1>6, QuietWritesNothing
<1>7. CASE FinishEvaluation(w)
  <2>1. CASE DecisionTooLate(w) /\ Tell(w, "JOB_CANCELLED", "none")
    BY <1>4, <2>1 DEF DecisionTooLate
  <2>2. CASE DecideAbort(w) /\ Tell(w, "AI_EVALUATION_COMPLETED", "ABORT")
    BY <1>5, <2>2 DEF DecideAbort
  <2>3. ASSUME NEW k \in JobIds,
               \/ DecideCharge(w, k) /\ Tell(w, "AI_EVALUATION_COMPLETED", "CHARGE")
               \/ DecideDelay(w, k) /\ Tell(w, "AI_EVALUATION_COMPLETED", "DELAY")
        PROVE  WritesNothing
    BY <1>4, <2>3 DEF DecideCharge, DecideDelay
  <2>4. ASSUME NEW k \in JobIds, EvaluationFails(w, k), AttemptsLeft(Job(w)), UNCHANGED audit
        PROVE  WritesNothing
    BY <1>6, <2>4 DEF EvaluationFails
  <2>5. ASSUME NEW k \in JobIds, EvaluationFails(w, k), ~AttemptsLeft(Job(w)),
               Tell(w, "AI_EVALUATION_FAILED", "none")
        PROVE  WritesStatus
    BY <1>5, <2>5 DEF EvaluationFails
  <2>6. QED
    BY <1>7, <2>1, <2>2, <2>3, <2>4, <2>5 DEF FinishEvaluation
<1>8. CASE FinalizeSuccess(w) /\ Tell(w, "CHARGE_EXECUTION_COMPLETED", "none")
  <2>1. PICK r \in AuditRows :
           /\ audit' = Append(audit, r) /\ r.of = c
           /\ r.event = "CHARGE_EXECUTION_COMPLETED" /\ r.data = "none"
    BY <1>3, <1>8
  <2>2. ~Stops(r) /\ Recovers(r)
    BY <2>1 DEF Stops, Recovers
  <2>3. /\ cases' = [cases EXCEPT ![c].status = "RECOVERED"]
        /\ payments' = [payments EXCEPT ![cases[c].payment].status = "SUCCEEDED"]
    BY <1>8 DEF FinalizeSuccess, SetCase, PaymentOf
  <2> HIDE DEF c
  <2>4. QED
    BY <1>2, <2>1, <2>2, <2>3, OneStatusRow
<1>9. CASE FinalizeExhausted(w) /\ TellExhausted(w)
  <2>1. PICK q \in AuditRows, r \in AuditRows :
           /\ audit' = Append(Append(audit, q), r)
           /\ q.event = "CHARGE_EXECUTION_FAILED" /\ q.data = "none"
           /\ r.event = "CHARGE_EXHAUSTED" /\ r.of = c
    BY <1>1, <1>9, ExhaustedRows
  <2> DEFINE b == Append(audit, q)
  <2>2. ~Stops(q) /\ ~Recovers(q) /\ ~Reopens(q) /\ q.event # "WEBHOOK_PROCESSED"
    BY <2>1 DEF Stops, Recovers, Reopens
  <2>3. Follows(b)
    BY <2>2 DEF Follows, Silent, TellingRows, StopRows, RecoverRows, ReopenRows
  <2>4. /\ Stops(r) /\ Exhausts(r) /\ r.event # "WEBHOOK_PROCESSED"
        /\ r.event # "CHARGE_EXECUTION_COMPLETED"
    BY <2>1 DEF Stops, Exhausts
  <2>5. /\ \E s \in {"STOPPED", "RECOVERED"} : cases' = [cases EXCEPT ![c].status = s]
        /\ UNCHANGED payments
    <3>1. cases \in [CaseIds -> CaseRow]
      BY DEF TraceInv, RowsAndWorkers, TypeOK, DbTypeOK
    <3>2. cases[c].status = "RECOVERED" => cases = [cases EXCEPT ![c].status = "RECOVERED"]
      BY <1>2, <3>1 DEF CaseRow
    <3>3. QED
      BY <1>9, <3>2 DEF FinalizeExhausted, SetCase
  <2>6. audit' = Append(b, r)
    BY <2>1
  <2> HIDE DEF b, c
  <2>7. QED
    BY <1>2, <2>1, <2>3, <2>4, <2>5, <2>6, OneStatusRow
<1>10. CASE FinishCharge(w)
  <2>1. CASE FinalizeAmbiguous(w) /\ UNCHANGED audit
    BY <1>6, <2>1 DEF FinalizeAmbiguous
  <2>2. ASSUME NEW k \in JobIds, FinalizeFailure(w, k),
               Tell(w, "CHARGE_EXECUTION_FAILED", "none")
        PROVE  WritesNothing
    BY <1>4, <2>2 DEF FinalizeFailure
  <2>3. QED
    BY <1>8, <1>9, <1>10, <2>1, <2>2 DEF FinishCharge
<1>11. QED
  BY <1>7, <1>10

LEMMA ClaimWrites ==
  ASSUME TraceInv, NEW w \in Workers, NEW j \in JobIds, ClaimJob(w, j)
  PROVE  WritesNothing
<1>1. UNCHANGED <<cases, payments>>
  BY DEF ClaimJob, ClaimForPaid, BeginEvaluation, StartAttempt, ResumeAttempt
<1>2. CASE UNCHANGED audit
  BY <1>1, <1>2, QuietWritesNothing DEF Follows
<1>3. CASE Write(<<Row("JOB_CANCELLED", jobs[j].case, "none")>>, current'[w])
  <2> DEFINE c == jobs[j].case
             id == current'[w]
             r == Told("JOB_CANCELLED", c, "none", id)
  <2>1. ClaimsJob(w, j) /\ Restore(w, j) /\ UNCHANGED <<carried, opener>>
    BY ClaimOfJob DEF ClaimJob, TraceInv, RowsAndWorkers
  <2>2. /\ audit \in Seq(AuditRows) /\ c \in Entities /\ id \in Ids
        /\ "JOB_CANCELLED" \in AuditEvents /\ "none" \in AuditData
    BY <2>1, ClaimTraces
       DEF Entities, AuditEvents, AuditData, WorkerEvents, TraceInv, TraceTypes
  <2>3. Write(<<Row("JOB_CANCELLED", c, "none")>>, id)
    BY <1>3
  <2> HIDE DEF c, id
  <2>4. audit' = Append(audit, r) /\ r \in AuditRows
    BY <2>2, <2>3, WriteOne
  <2>5. ~Stops(r) /\ ~Recovers(r) /\ ~Reopens(r) /\ r.event # "WEBHOOK_PROCESSED"
    BY DEF Told, Stops, Recovers, Reopens
  <2> HIDE DEF r
  <2>6. QED
    BY <1>1, <2>2, <2>4, <2>5, OneSilentRow, QuietWritesNothing
<1>4. QED
  BY <1>2, <1>3 DEF ClaimJob

LEMMA StepWritesStatus ==
  ASSUME TraceInv, [AuditNext]_auditVars
  PROVE  WritesNothing \/ WritesSuccess \/ WritesStatus
<1>1. ASSUME UNCHANGED <<cases, payments, audit>>
      PROVE  WritesNothing
  BY <1>1, QuietWritesNothing DEF Follows
<1>2. CASE UNCHANGED auditVars
  BY <1>1, <1>2 DEF auditVars, vars, dbVars, traceVars
<1>3. ASSUME NEW w \in Workers,
             \/ \E j \in JobIds : ClaimRollsBack(w, j)
             \/ VerifyPayment(w) /\ UNCHANGED traceVars
             \/ Charge(w) /\ UNCHANGED traceVars
             \/ RollBack(w) \/ Restart(w)
      PROVE  WritesNothing
  BY <1>1, <1>3 DEF ClaimRollsBack, VerifyPayment, Charge, RollBack, FinalizeRaises,
                    RowsAreDropped, Restart, Crash, vars, dbVars, traceVars
<1>4. ASSUME NEW j \in JobIds, LeaseExpires(j) /\ UNCHANGED traceVars
      PROVE  WritesNothing
  BY <1>1, <1>4 DEF LeaseExpires, traceVars
<1>5. CASE AuditNext
  BY <1>3, <1>4, <1>5, WebhookWrites, AdminWrites, ClaimWrites, FinishWrites DEF AuditNext
<1>6. QED
  BY <1>2, <1>5

LEMMA InitStatus == AuditInit => StatusInv
<1> SUFFICES ASSUME AuditInit PROVE StatusInv
  OBVIOUS
<1>1. TraceInv /\ audit = <<>>
  BY InitTraces DEF AuditInit
<1>2. /\ \A R : ~Has(audit, R)
      /\ \A c, R : ~LastIn(audit, c, R)
  BY <1>1 DEF Has, LastIn
<1>3. ASSUME NEW c \in CaseIds PROVE cases[c].status \in {"ABSENT", "OPEN"}
  BY DEF AuditInit, NoCase
<1>4. ASSUME NEW p \in PaymentIds PROVE ~Paid(p)
  BY DEF AuditInit, NoPayment, Paid
<1>5. QED
  BY <1>1, <1>2, <1>3, <1>4 DEF StatusInv, CompletedExist, CaseTold, PaymentTold, CompletedFor

LEMMA StatusInvHolds == AuditSpec => []StatusInv
<1>1. StatusInv /\ [AuditNext]_auditVars => StatusInv'
  <2> SUFFICES ASSUME StatusInv, [AuditNext]_auditVars PROVE StatusInv'
    OBVIOUS
  <2>1. TraceInv /\ [Next]_vars
    BY AuditIsStep DEF StatusInv
  <2>2. TraceInv'
    BY <2>1, StepTraces, TraceStepKeeps
  <2>3. CasesKept
    BY <2>1, StepKeepsCases DEF TraceInv
  <2>4. /\ CompletedExist'
        /\ \A c \in CaseIds : CaseTold(c)'
        /\ \A p \in PaymentIds : PaymentTold(p)'
    BY <2>1, <2>3, StepWritesStatus, NothingKeepsStatus, SuccessKeepsStatus,
       StatusKeepsStatus
  <2>5. QED
    BY <2>2, <2>4 DEF StatusInv
<1>2. QED
  BY InitStatus, <1>1, PTL DEF AuditSpec

LEMMA RowsOfTheTrail ==
  ASSUME audit \in Seq(AuditRows)
  PROVE  /\ \A c : LastTells(c, Stops) <=> LastIn(audit, c, StopRows)
         /\ \A c : LastTells(c, Recovers) <=> LastIn(audit, c, RecoverRows)
         /\ \A c : LastTells(c, Exhausts) <=> LastIn(audit, c, ExhaustRows)
         /\ \A p : Succeeded(p) <=> Has(audit, SuccessRows(p))
<1>1. /\ \A i \in DOMAIN audit : audit[i] \in AuditRows
      /\ \A i \in DOMAIN audit : \A k \in i + 1 .. Len(audit) : k \in DOMAIN audit
  OBVIOUS
<1>2. \A i \in DOMAIN audit :
         /\ audit[i] \in StopRows <=> Stops(audit[i])
         /\ audit[i] \in RecoverRows <=> Recovers(audit[i])
         /\ audit[i] \in ExhaustRows <=> Exhausts(audit[i])
         /\ audit[i] \in TellingRows <=>
               (Stops(audit[i]) \/ Recovers(audit[i]) \/ Reopens(audit[i]))
  BY <1>1 DEF StopRows, RecoverRows, ReopenRows, ExhaustRows, TellingRows
<1>3. \A c : LastTells(c, Stops) <=> LastIn(audit, c, StopRows)
  BY <1>1, <1>2 DEF LastTells, LastIn
<1>4. \A c : LastTells(c, Recovers) <=> LastIn(audit, c, RecoverRows)
  BY <1>1, <1>2 DEF LastTells, LastIn
<1>5. \A c : LastTells(c, Exhausts) <=> LastIn(audit, c, ExhaustRows)
  BY <1>1, <1>2 DEF LastTells, LastIn
<1>6. \A p : Succeeded(p) <=> Has(audit, SuccessRows(p))
  BY <1>1 DEF Succeeded, Has, SuccessRows
<1>7. QED
  BY <1>3, <1>4, <1>5, <1>6

(* The audit rows tell the status of every case and payment: the last      *)
(* telling row about a case is a closure exactly when it is STOPPED, a     *)
(* recovered case has its row or its payment's, and a payment is SUCCEEDED *)
(* exactly when a row says so, through every crash, rollback, lost lease   *)
(* and reopened case; but for CHARGE_EXHAUSTED, which may follow what made *)
(* its case RECOVERED.                                                     *)
THEOREM AuditTellsStatusHolds == AuditSpec => []AuditTellsStatus
<1>1. StatusInv => AuditTellsStatus
  <2> SUFFICES ASSUME StatusInv PROVE AuditTellsStatus
    OBVIOUS
  <2>1. /\ \A c : LastTells(c, Stops) <=> LastIn(audit, c, StopRows)
        /\ \A c : LastTells(c, Recovers) <=> LastIn(audit, c, RecoverRows)
        /\ \A c : LastTells(c, Exhausts) <=> LastIn(audit, c, ExhaustRows)
        /\ \A p : Succeeded(p) <=> Has(audit, SuccessRows(p))
    BY RowsOfTheTrail DEF StatusInv, TraceInv, TraceTypes
  <2>2. ASSUME NEW c \in CaseIds
        PROVE  /\ cases[c].status = "STOPPED" => LastTells(c, Stops)
               /\ LastTells(c, Stops) =>
                     \/ cases[c].status = "STOPPED"
                     \/ cases[c].status = "RECOVERED" /\ LastTells(c, Exhausts)
               /\ cases[c].status = "RECOVERED" =>
                     \/ LastTells(c, Recovers)
                     \/ Succeeded(cases[c].payment)
                     \/ LastTells(c, Exhausts)
    BY <2>1 DEF StatusInv, CaseTold
  <2>3. ASSUME NEW p \in PaymentIds
        PROVE  CompletedFor(p) <=>
                  \E i \in DOMAIN audit : /\ audit[i].event = "CHARGE_EXECUTION_COMPLETED"
                                          /\ cases[audit[i].of].payment = p
    <3>1. \A i \in DOMAIN audit : audit[i] \in AuditRows /\ audit[i].of \in Entities
      <4>1. \A i \in DOMAIN audit : audit[i] \in AuditRows
        BY DEF StatusInv, TraceInv, TraceTypes
      <4>2. QED
        BY <4>1 DEF AuditRows
    <3>2. \A i \in DOMAIN audit : audit[i].event = "CHARGE_EXECUTION_COMPLETED" =>
             audit[i] \in CompletedRows(audit[i].of)
      BY <3>1 DEF CompletedRows
    <3>3. \A i \in DOMAIN audit : audit[i].event = "CHARGE_EXECUTION_COMPLETED" =>
             audit[i].of \in CaseIds /\ Has(audit, CompletedRows(audit[i].of))
      BY <3>1, <3>2 DEF Has, StatusInv, CompletedExist
    <3>4. \A c : Has(audit, CompletedRows(c)) =>
             \E i \in DOMAIN audit : /\ audit[i].event = "CHARGE_EXECUTION_COMPLETED"
                                     /\ audit[i].of = c
      BY DEF Has, CompletedRows
    <3>5. QED
      BY <3>3, <3>4 DEF CompletedFor
  <2>4. ASSUME NEW p \in PaymentIds
        PROVE  Paid(p) <=>
                  \/ Succeeded(p)
                  \/ \E i \in DOMAIN audit : /\ audit[i].event = "CHARGE_EXECUTION_COMPLETED"
                                             /\ cases[audit[i].of].payment = p
    BY <2>1, <2>3 DEF StatusInv, PaymentTold
  <2>5. QED
    BY <2>2, <2>4 DEF AuditTellsStatus
<1>2. QED
  BY <1>1, StatusInvHolds, PTL
=============================================================================
