--------------------------- MODULE AtomicityProofs ---------------------------
(***************************************************************************)
(* As long as leases outlast the work of their holders, every transaction  *)
(* is the one step of RecoveryEngine it is taken for (TransactionsAre-     *)
(* Atomic), the engine's invariants hold of the statements, and            *)
(* transactions that lock in order never deadlock, for any number of       *)
(* workers, requests and rows.                                             *)
(***************************************************************************)
EXTENDS StatementProofs

(* What a statement may do to tables, store and workers. *)
EngineStep ==
    \/ Webhook \/ Admin
    \/ \E w \in Workers : WorkerStep(w) \/ Crash(w)
    \/ \E j \in JobIds : /\ LeaseExpires(j)
                         /\ ~\E w \in Workers : Job(w) = j /\ jobs[j].owner = w
    \/ UNCHANGED vars

LEMMA EngineSteps == EngineStep => [Next]_vars
BY DEF EngineStep, Next

-----------------------------------------------------------------------------
(* What holds after whole transactions. *)

(* No job is lost by a worker that is alive. *)
LEMMA StepKeepsLeases ==
  ASSUME RowsAndWorkers, LeasesKept, EngineStep
  PROVE  LeasesKept'
<1> jobs \in [JobIds -> JobRow] /\ worker \in [Workers -> WorkerState]
  BY DEF RowsAndWorkers, TypeOK, DbTypeOK, WorkerTypeOK
<1>w. ASSUME NEW w \in Workers, worker[w].pc # "idle"
      PROVE  /\ Job(w) \in JobIds /\ jobs[Job(w)].owner = w
             /\ jobs[Job(w)].status = "RUNNING" /\ ~jobs[Job(w)].expired
  BY <1>w, JobInHand DEF LeasesKept
<1>1. CASE Cancels
  <2> PICK closed \in SUBSET CaseIds : jobs' = CancelPending(closed)
    BY <1>1 DEF Cancels
  <2>1. \A i \in JobIds : jobs[i].status = "RUNNING" => jobs'[i] = jobs[i]
    BY DEF CancelPending
  <2>2. QED
    BY <1>1, <1>w, <2>1 DEF Cancels, LeasesKept, Job
<1>2. CASE Adds
  <2> PICK k \in JobIds, c \in CaseIds :
         ~JobExists(k) /\ jobs' = [jobs EXCEPT ![k] = NewJob(c, "EVALUATE_RECOVERY", 0)]
    BY <1>2 DEF Adds
  <2>1. \A i \in JobIds : jobs[i].status = "RUNNING" => jobs'[i] = jobs[i]
    BY DEF JobExists
  <2>2. QED
    BY <1>2, <1>w, <2>1 DEF Adds, LeasesKept, Job
<1>3. CASE KeepsJobs
  BY <1>3, <1>w DEF KeepsJobs, LeasesKept, Job
<1>4. ASSUME NEW w \in Workers, NEW j \in JobIds, ClaimsJob(w, j)
      PROVE  LeasesKept'
  <2> SUFFICES ASSUME NEW v \in Workers, worker'[v].pc # "idle"
               PROVE  /\ jobs'[worker'[v].job].owner = v
                      /\ jobs'[worker'[v].job].status = "RUNNING"
                      /\ ~jobs'[worker'[v].job].expired
    BY DEF LeasesKept, Job
  <2>1. CASE v = w
    BY <1>4, <2>1 DEF ClaimsJob
  <2>2. CASE v # w
    <3>1. worker'[v] = worker[v]
      BY <1>4, <2>2 DEF ClaimsJob
    <3>2. Job(v) # j
      BY <1>4, <1>w, <3>1 DEF ClaimsJob, Claimable
    <3>3. QED
      BY <1>4, <1>w, <3>1, <3>2 DEF ClaimsJob, Job
  <2>3. QED
    BY <2>1, <2>2
<1>5. ASSUME NEW w \in Workers, Ends(w)
      PROVE  LeasesKept'
  <2> PICK j \in JobIds : j = Job(w)
    BY <1>5, <1>w DEF Ends
  <2>1. ASSUME NEW i \in JobIds, i # j, JobExists(i)
        PROVE  jobs'[i] = jobs[i]
    BY <1>5, <2>1 DEF Ends, JobGoesOn, EndJob, EndJobAndQueue, Ended, NewJob
  <2>2. SUFFICES ASSUME NEW v \in Workers, worker'[v].pc # "idle"
                 PROVE  /\ jobs'[worker'[v].job].owner = v
                        /\ jobs'[worker'[v].job].status = "RUNNING"
                        /\ ~jobs'[worker'[v].job].expired
    BY DEF LeasesKept, Job
  <2>3. v # w /\ worker'[v] = worker[v]
    BY <1>5, <2>2 DEF Ends, Release, Idle
  <2>4. Job(v) # j
    BY <1>5, <1>w, <2>3, <2>2 DEF Ends
  <2>5. QED
    BY <1>w, <2>1, <2>2, <2>3, <2>4 DEF JobExists, Job
<1>7. ASSUME NEW j \in JobIds, LeaseExpires(j),
             ~\E w \in Workers : Job(w) = j /\ jobs[j].owner = w
      PROVE  LeasesKept'
  <2>1. /\ worker' = worker
        /\ \A i \in JobIds \ {j} : jobs'[i] = jobs[i]
    BY <1>7 DEF LeaseExpires, workerVars
  <2>2. QED
    BY <1>7, <1>w, <2>1 DEF LeasesKept, Job
<1>8. CASE UNCHANGED vars
  BY <1>8, <1>w DEF vars, dbVars, workerVars, LeasesKept, Job
<1>9. CASE Webhook \/ Admin
  BY <1>1, <1>2, <1>3, <1>9, WebhookOnJobs, AdminOnJobs
<1>10. ASSUME NEW w \in Workers, WorkerStep(w) \/ Crash(w)
       PROVE  LeasesKept'
  <2>1. KeepsJobs \/ Ends(w) \/ \E j \in JobIds : ClaimsJob(w, j)
    BY <1>10, ClaimOnJobs, FinalizeOnJobs, OthersKeepJobs DEF WorkerStep, RowsAndWorkers
  <2>2. QED
    BY <1>3, <1>4, <1>5, <2>1
<1>11. QED
  BY <1>7, <1>8, <1>9, <1>10 DEF EngineStep

LEMMA LeasesAreExclusive ==
  ASSUME RowsAndWorkers, LeasesKept
  PROVE  OwnersRun
BY JobInHand DEF LeasesKept, OwnersRun

(* What a step leaves in the memory of worker w. *)
LEMMA StepKeepsMemories ==
  ASSUME RowsAndWorkers, MemoriesFit, EngineStep
  PROVE  MemoriesFit'
<1>0. worker \in [Workers -> WorkerState] /\ store \in [PaymentIds -> [AttemptNos -> GatewayResult \cup {"none"}]]
  BY DEF RowsAndWorkers, TypeOK, WorkerTypeOK, GatewayTypeOK
<1>1. CASE UNCHANGED worker
  BY <1>1 DEF MemoriesFit
<1>2. ASSUME NEW w \in Workers, Release(w)
      PROVE  MemoriesFit'
  <2>1. worker'[w] = Idle /\ \A v \in Workers \ {w} : worker'[v] = worker[v]
    BY <1>0, <1>2 DEF Release
  <2>2. worker'[w].pc = "idle"
    BY <2>1 DEF Idle
  <2>3. QED
    BY <2>1, <2>2 DEF MemoriesFit, FinalizePc
<1>3. ASSUME NEW w \in Workers, NEW j \in JobIds,
             BeginEvaluation(w, j) \/ StartAttempt(w, j) \/ ResumeAttempt(w, j)
      PROVE  MemoriesFit'
  <2>1. CASE BeginEvaluation(w, j)
    <3>1. \E me : /\ me.pc = "evaluating" /\ me.attempt = 0
                  /\ worker' = [worker EXCEPT ![w] = me]
      BY <2>1 DEF BeginEvaluation, Idle
    <3>2. /\ \A v \in Workers \ {w} : worker'[v] = worker[v]
          /\ worker'[w].pc = "evaluating" /\ worker'[w].attempt = 0
      BY <1>0, <3>1
    <3>3. QED
      BY <3>2 DEF MemoriesFit, FinalizePc
  <2>2. CASE StartAttempt(w, j) \/ ResumeAttempt(w, j)
    <3>1. \E n : \/ worker' = [worker EXCEPT ![w] =
                              [Idle EXCEPT !.pc = "verifying", !.job = j, !.attempt = n]]
                 \/ worker' = [worker EXCEPT ![w] =
                              [Idle EXCEPT !.pc = "charging", !.job = j, !.attempt = n]]
      <4>1. CASE StartAttempt(w, j)
        BY <4>1 DEF StartAttempt
      <4>2. CASE ResumeAttempt(w, j)
        <5>1. CASE attempts[jobs[j].case][jobs[j].attempt] \in {"AMBIGUOUS", "RUNNING"}
          BY <4>2, <5>1 DEF ResumeAttempt
        <5>2. CASE attempts[jobs[j].case][jobs[j].attempt] \notin {"AMBIGUOUS", "RUNNING"}
          BY <4>2, <5>2 DEF ResumeAttempt
        <5>3. QED
          BY <5>1, <5>2
      <4>3. QED
        BY <2>2, <4>1, <4>2
    <3>2. /\ \A v \in Workers \ {w} : worker'[v] = worker[v]
          /\ worker'[w].pc \in {"verifying", "charging"}
      BY <1>0, <3>1 DEF Idle
    <3>3. QED
      BY <3>2 DEF MemoriesFit, FinalizePc
  <2>3. QED
    BY <1>3, <2>1, <2>2
<1>4. ASSUME NEW w \in Workers, VerifyPayment(w)
      PROVE  MemoriesFit'
  <2>1. PaymentOf(Job(w)) \in PaymentIds /\ worker[w].attempt \in AttemptNos
    BY <1>4, KeyInHand DEF VerifyPayment, ChargePc
  <2>2. \/ worker' = [worker EXCEPT ![w].pc = "charging"]
        \/ \E r \in GatewayResult : worker' = [worker EXCEPT ![w].pc = "reconciled", ![w].result = r]
    BY <1>0, <1>4, <2>1 DEF VerifyPayment, VerifyPaymentStatus, Goto
  <2>3. QED
    BY <1>0, <2>2 DEF MemoriesFit, FinalizePc, WorkerState
<1>5. ASSUME NEW w \in Workers, Charge(w)
      PROVE  MemoriesFit'
  <2>2. \/ worker' = [worker EXCEPT ![w].pc = "ambiguous"]
        \/ \E r \in GatewayResult : worker' = [worker EXCEPT ![w].pc = "finalizing", ![w].result = r]
    BY <1>0, <1>5 DEF Charge, Goto
  <2>3. QED
    BY <1>0, <2>2 DEF MemoriesFit, FinalizePc, WorkerState
<1>6. ASSUME NEW w \in Workers, FinalizeRaises(w)
      PROVE  MemoriesFit'
  <2>1. CASE worker' = [worker EXCEPT ![w].pc = "refinalizing", ![w].result = "failed"]
    BY <1>0, <2>1 DEF MemoriesFit, FinalizePc, WorkerState, GatewayResult
  <2>2. QED
    BY <1>2, <1>6, <2>1 DEF FinalizeRaises
<1>7. ASSUME NEW w \in Workers, WorkerStep(w) \/ Crash(w)
      PROVE  MemoriesFit'
  <2>1. CASE Claim(w)
    BY <1>1, <1>3, <2>1 DEF Claim, ClaimForPaid, workerVars
  <2>2. CASE FinalizeEvaluation(w) \/ FinalizeJob(w)
    BY <1>2, <2>2, FinalizeOnJobs DEF Ends
  <2>3. QED
    BY <1>2, <1>4, <1>5, <1>6, <1>7, <2>1, <2>2 DEF WorkerStep, Crash
<1>8. QED
  BY <1>1, <1>2, <1>7 DEF EngineStep, Webhook, Admin, LeaseExpires, workerVars, vars

(* Two jobs of one case are not live, whichever of the steps it is. *)
LEMMA EngineKeepsOneLive ==
  ASSUME RowsAndWorkers, OneLiveJobPerCase, LeasesKept, EngineStep
  PROVE  OneLiveJobPerCase'
BY LeasesAreExclusive, StepKeepsJobsInv, EngineSteps DEF JobsInv

(* A case becomes active only where ix_active_recovery_case_per_payment    *)
(* lets it.                                                                *)
LEMMA HowCasesOpen ==
  ASSUME RowsAndWorkers, EngineStep, NEW c \in CaseIds, ActiveCase(c)'
  PROVE  \/ ActiveCase(c) /\ cases'[c].payment = cases[c].payment
         \/ /\ \A d \in CaseIds \ {c} : cases'[d] = cases[d]
            /\ ActiveCaseAllowed(c, cases'[c].payment)
<1> cases \in [CaseIds -> CaseRow] /\ jobs \in [JobIds -> JobRow]
  BY DEF RowsAndWorkers, TypeOK, DbTypeOK
<1> DEFINE Stays == ActiveCase(c) /\ cases'[c].payment = cases[c].payment
<1>1. CASE cases'[c] = cases[c]
  BY <1>1 DEF ActiveCase, CaseExists
<1>2. ASSUME Webhook, cases'[c] # cases[c]
      PROVE  /\ \A d \in CaseIds \ {c} : cases'[d] = cases[d]
             /\ ActiveCaseAllowed(c, cases'[c].payment)
  <2> PICK e \in Events : ProcessWebhook(e)
    BY <1>2 DEF Webhook
  <2>1. CASE AcknowledgeTerminal(e) \/ RecordRepeatedFailure(e)
    BY <1>2, <2>1 DEF AcknowledgeTerminal, RecordRepeatedFailure
  <2>2. ASSUME NEW d \in CaseIds, NEW j \in JobIds, OpenCase(e, d, j)
        PROVE  /\ \A b \in CaseIds \ {c} : cases'[b] = cases[b]
               /\ ActiveCaseAllowed(c, cases'[c].payment)
    BY <1>2, <2>2 DEF OpenCase, ActiveCaseAllowed, ActiveCases
  <2>3. CASE RecordSuccess(e)
    <3>1. cases'[c] = [cases[c] EXCEPT !.status = "RECOVERED"]
      BY <1>2, <2>3 DEF RecordSuccess
    <3>2. QED
      BY <3>1 DEF ActiveCase, TerminalCaseStates, CaseRow
  <2>4. QED
    BY <2>1, <2>2, <2>3 DEF ProcessWebhook
<1>3. ASSUME Admin, cases'[c] # cases[c]
      PROVE  /\ \A d \in CaseIds \ {c} : cases'[d] = cases[d]
             /\ ActiveCaseAllowed(c, cases'[c].payment)
  <2> PICK d \in CaseIds : StopCase(d) \/ RetryCase(d)
    BY <1>3 DEF Admin
  <2>1. CASE RejectForPaid(d) \/ CloseCase(d)
    BY <1>3, <2>1 DEF RejectForPaid, CloseCase, ActiveCase, TerminalCaseStates, CaseRow
  <2>2. ASSUME NEW j \in JobIds, ReopenCase(d, j)
        PROVE  /\ \A b \in CaseIds \ {c} : cases'[b] = cases[b]
               /\ ActiveCaseAllowed(c, cases'[c].payment)
    BY <1>3, <2>2 DEF ReopenCase, CaseRow
  <2>3. QED
    BY <2>1, <2>2 DEF StopCase, RetryCase
<1>4. ASSUME cases'[c] # cases[c], NEW w \in Workers, FinalizeEvaluation(w) \/ FinalizeJob(w)
      PROVE  FALSE
  <2>1. RecoversCase(c) \/ StopsCase(c)
    BY <1>4, FinalizeOnCases
  <2>2. QED
    BY <2>1 DEF RecoversCase, StopsCase, ActiveCase, TerminalCaseStates, CaseRow
<1>5. ASSUME NEW w \in Workers, ~(FinalizeEvaluation(w) \/ FinalizeJob(w)),
             WorkerStep(w) \/ Crash(w)
      PROVE  UNCHANGED cases
  BY <1>5 DEF WorkerStep, Claim, ClaimForPaid, BeginEvaluation, StartAttempt, ResumeAttempt,
     VerifyPayment, Charge, FinalizeRaises, Crash, dbVars
<1>6. QED
  BY <1>1, <1>2, <1>3, <1>4, <1>5 DEF EngineStep, LeaseExpires, vars, dbVars

LEMMA EngineKeepsOneActive ==
  ASSUME RowsAndWorkers, OneActiveCase, EngineStep
  PROVE  OneActiveCase'
<1> SUFFICES ASSUME NEW c \in CaseIds, NEW d \in CaseIds, ActiveCase(c)', ActiveCase(d)',
                    cases'[c].payment = cases'[d].payment, c # d
             PROVE  FALSE
  BY DEF OneActiveCase
<1>1. ASSUME NEW a \in {c, d}, NEW b \in {c, d}, a # b, cases'[b] = cases[b],
             ActiveCaseAllowed(a, cases'[a].payment)
      PROVE  FALSE
  BY <1>1 DEF ActiveCaseAllowed, ActiveCase, CaseExists
<1>2. \/ ActiveCase(c) /\ cases'[c].payment = cases[c].payment
      \/ cases'[d] = cases[d] /\ ActiveCaseAllowed(c, cases'[c].payment)
  BY HowCasesOpen
<1>3. \/ ActiveCase(d) /\ cases'[d].payment = cases[d].payment
      \/ cases'[c] = cases[c] /\ ActiveCaseAllowed(d, cases'[d].payment)
  BY HowCasesOpen
<1>4. QED
  BY <1>1, <1>2, <1>3 DEF OneActiveCase

LEMMA EngineKeepsLive ==
  ASSUME LiveInv, EngineStep, RowsAndWorkers'
  PROVE  LiveInv'
BY StepKeepsLeases, StepKeepsMemories, EngineKeepsOneLive, EngineKeepsOneActive DEF LiveInv

-----------------------------------------------------------------------------
(* What is read without a lock. *)

(* A job changes hands, or a case gets one, under the lock of the case;    *)
(* only a RUNNING one is ended, or expires, without it.                    *)
JobsUnderCases(t) ==
    \A i \in JobIds : jobs'[i] # jobs[i] =>
        \/ jobs[i].status = "RUNNING"
        \/ ~CaseExists(jobs'[i].case)
        \/ Holds(t, "update", CaseRowOf(jobs'[i].case))
        \/ Holds(t, "refer", CaseRowOf(jobs'[i].case))

(* The row of t's attempt, or of a new one. *)
AttemptsOwn(t) ==
    \A c \in CaseIds, n \in AttemptNos : attempts'[c][n] # attempts[c][n] =>
        \/ attempts[c][n] = "ABSENT"
        \/ t \in Workers /\ worker[t].pc # "idle" /\ c = jobs[Job(t)].case

(* A closed case is RECOVERED, reopened if no worker is at it, or written  *)
(* by the worker that is.                                                  *)
CasesOwn(t) ==
    \A c \in CaseIds : CaseExists(c) /\ cases'[c] # cases[c] =>
        /\ Locked(t, CaseRowOf(c))
        /\ \/ ActiveCase(c)
           \/ cases'[c].status = "RECOVERED"
           \/ NoLiveJob(c)
           \/ t \in Workers /\ worker[t].pc # "idle" /\ c = jobs[Job(t)].case

Respects(t) ==
    /\ \A u \in Tx \ {t} : tx'[u] = tx[u]
    /\ \A v \in Workers \ {t} : worker'[v] = worker[v]
    /\ CasesKept
    /\ \A j \in JobIds : JobExists(j) => JobExists(j)' /\ SameReferences(j)
    /\ JobsUnderCases(t) /\ AttemptsOwn(t) /\ CasesOwn(t)

(* What the steps of others leave to u. *)
Leaves(u) ==
    /\ tx'[u] = tx[u]
    /\ u \in Workers => worker'[u] = worker[u]
    /\ RowsKept
    /\ \A c \in CaseIds : CaseExists(c) /\ Locked(u, CaseRowOf(c)) => cases'[c] = cases[c]
    /\ \A c \in CaseIds, i \in JobIds :
          /\ CaseExists(c) /\ Holds(u, "update", CaseRowOf(c))
          /\ jobs'[i].case = c /\ jobs'[i] # jobs[i]
          => jobs[i].status = "RUNNING"
    /\ u \in Workers /\ worker[u].pc # "idle" =>
          \A c \in CaseIds : c = jobs[Job(u)].case =>
              /\ \A n \in AttemptNos : attempts[c][n] # "ABSENT"
                                          => attempts'[c][n] = attempts[c][n]
              /\ cases'[c] = cases[c] \/ ActiveCase(c) \/ cases'[c].status = "RECOVERED"

(* Two workers that are alive have jobs of two cases in hand. *)
LEMMA WorkersApart ==
  ASSUME LiveInv, NEW v \in Workers, NEW w \in Workers, v # w,
         worker[v].pc # "idle", worker[w].pc # "idle"
  PROVE  jobs[Job(v)].case # jobs[Job(w)].case
<1>1. RowsAndWorkers
  BY DEF LiveInv
<1>2. Job(v) \in JobIds /\ Job(w) \in JobIds
  BY <1>1, JobInHand
<1>3. /\ jobs[Job(v)].owner = v /\ jobs[Job(v)].status = "RUNNING"
      /\ jobs[Job(w)].owner = w /\ jobs[Job(w)].status = "RUNNING"
  BY DEF LiveInv, LeasesKept
<1>4. QED
  BY <1>2, <1>3 DEF LiveInv, OneLiveJobPerCase, LiveJob

LEMMA RespectsLeaves ==
  ASSUME LiveInv, LocksExclude, NEW t \in Tx, Respects(t), NEW u \in Tx, u # t
  PROVE  Leaves(u)
<1>1. tx'[u] = tx[u] /\ (u \in Workers => worker'[u] = worker[u])
  BY DEF Respects
<1>2. RowsKept
  BY DEF Respects, CasesKept, RowsKept
<1>3. \A c \in CaseIds : CaseExists(c) /\ Locked(u, CaseRowOf(c)) => cases'[c] = cases[c]
  BY LockedByOne DEF Respects, CasesOwn
<1>4. ASSUME NEW c \in CaseIds, NEW i \in JobIds,
             CaseExists(c), Holds(u, "update", CaseRowOf(c)),
             jobs'[i].case = c, jobs'[i] # jobs[i]
      PROVE  jobs[i].status = "RUNNING"
  BY <1>4, LockedByOne DEF Respects, JobsUnderCases, Locked
<1>5. ASSUME u \in Workers, worker[u].pc # "idle", NEW c \in CaseIds, c = jobs[Job(u)].case
      PROVE  /\ \A n \in AttemptNos : attempts[c][n] # "ABSENT"
                                         => attempts'[c][n] = attempts[c][n]
             /\ cases'[c] = cases[c] \/ ActiveCase(c) \/ cases'[c].status = "RECOVERED"
  <2>1. ~(t \in Workers /\ worker[t].pc # "idle" /\ c = jobs[Job(t)].case)
    BY <1>5, WorkersApart
  <2>2. CaseExists(c) /\ ~NoLiveJob(c)
    BY <1>5, JobInHand DEF LiveInv, LeasesKept, NoLiveJob, LiveJob
  <2>3. QED
    BY <2>1, <2>2 DEF Respects, AttemptsOwn, CasesOwn
<1>6. QED
  BY <1>1, <1>2, <1>3, <1>4, <1>5 DEF Leaves

(* What u has locked is what u locked before. *)
LEMMA LocksLeft ==
  ASSUME NEW u \in Tx, Leaves(u),
         \A c \in CaseIds : Holds(u, "update", CaseRowOf(c)) => CaseExists(c)
  PROVE  OpenLocked(u)' = OpenLocked(u)
<1>1. ASSUME NEW c \in CaseIds
      PROVE  /\ Holds(u, "update", CaseRowOf(c))' <=> Holds(u, "update", CaseRowOf(c))
             /\ Holds(u, "update", CaseRowOf(c)) => (ActiveCase(c)' <=> ActiveCase(c))
  BY DEF Leaves, Holds, Locked, ActiveCase, CaseExists
<1>2. QED
  BY <1>1 DEF OpenLocked

(* A request that cancels jobs closes one case. *)
LEMMA ClosesOneCase ==
  ASSUME StatementInv, LiveInv, NEW u \in Tx, tx[u].op \in {"webhook", "stop"}
  PROVE  /\ \A c \in CaseIds : Holds(u, "update", CaseRowOf(c)) => CaseExists(c)
         /\ \A c, d \in OpenLocked(u) : c = d
<1>1. Stage(u)
  BY DEF StatementInv, Stages
<1>2. \A c \in CaseIds : Holds(u, "update", CaseRowOf(c)) => c \in CasesTaken(u)
  BY DEF Holds, CasesTaken, Takes, LockMode
<1>3. CASE tx[u].op = "webhook"
  <2> PICK p : p = tx[u].event.payment
    OBVIOUS
  <2>1. WebhookStage(u)
    BY <1>1, <1>3 DEF Stage
  <2>2. \A c \in CasesTaken(u) : CaseExists(c) /\ cases[c].payment = p
    BY <2>1 DEF WebhookStage
  <2>3. QED
    BY <1>2, <2>2 DEF OpenLocked, LiveInv, OneActiveCase
<1>4. CASE tx[u].op = "stop"
  <2>1. AdminStage(u)
    BY <1>1, <1>4 DEF Stage
  <2>2. CasesTaken(u) \subseteq {tx[u].case} /\ CaseExists(tx[u].case)
    BY <2>1 DEF AdminStage
  <2>3. QED
    BY <1>2, <2>2 DEF OpenLocked
<1>5. QED
  BY <1>3, <1>4

LEMMA PendingStaysFresh ==
  ASSUME StatementInv, LiveInv, NEW u \in Tx, Leaves(u), PendingFresh(u)
  PROVE  PendingFresh(u)'
<1> SUFFICES ASSUME tx[u].op \in {"webhook", "stop"}, tx[u].at = "save"
             PROVE  JobsTaken(u)' # {} /\ JobsTaken(u)' = PendingOf(OpenLocked(u))'
  BY DEF Leaves, PendingFresh
<1>1. JobsTaken(u)' = JobsTaken(u) /\ JobsTaken(u) # {}
      /\ JobsTaken(u) = PendingOf(OpenLocked(u))
  BY TakesKept DEF Leaves, PendingFresh
<1> PICK k \in JobsTaken(u) : TRUE
  BY <1>1
<1> DEFINE c == jobs[k].case
<1>2. k \in JobIds /\ jobs[k].status = "PENDING" /\ c \in OpenLocked(u)
  BY <1>1 DEF PendingOf
<1>3. OpenLocked(u) = {c}
  BY <1>2, ClosesOneCase
<1>4. OpenLocked(u)' = OpenLocked(u)
  BY LocksLeft, ClosesOneCase
<1>5. c \in CaseIds /\ CaseExists(c) /\ Holds(u, "update", CaseRowOf(c))
  BY <1>2 DEF OpenLocked, ActiveCase
<1>6. RowsRefer /\ RowsKept
  BY DEF LiveInv, RowsAndWorkers, Leaves
<1>7. ASSUME NEW i \in JobIds, jobs'[i].case = c, jobs'[i].status = "PENDING"
      PROVE  jobs[i].status = "PENDING" /\ jobs[i].case = c
  <2>1. CASE jobs'[i] = jobs[i]
    BY <1>7, <2>1
  <2>2. CASE jobs'[i] # jobs[i]
    <3>1. jobs[i].status = "RUNNING"
      BY <1>5, <1>7, <2>2 DEF Leaves
    <3>2. jobs[i].case = c
      BY <1>6, <1>7, <3>1 DEF RowsKept, SameReferences, JobExists
    <3>3. i # k /\ LiveJob(i) /\ LiveJob(k)
      BY <1>2, <3>1 DEF LiveJob
    <3>4. QED
      BY <1>2, <3>2, <3>3 DEF LiveInv, OneLiveJobPerCase
  <2>3. QED
    BY <2>1, <2>2
<1>8. ASSUME NEW i \in JobIds, jobs[i].case = c, jobs[i].status = "PENDING"
      PROVE  jobs'[i].status = "PENDING" /\ jobs'[i].case = c
  <2>1. jobs'[i].case = c
    BY <1>6, <1>8 DEF RowsKept, SameReferences, JobExists
  <2>2. QED
    BY <1>5, <1>8, <2>1 DEF Leaves
<1>9. PendingOf(OpenLocked(u))' = {i \in JobIds : jobs'[i].status = "PENDING"
                                                   /\ jobs'[i].case = c}
  BY <1>3, <1>4 DEF PendingOf
<1>10. PendingOf(OpenLocked(u)) = {i \in JobIds : jobs[i].status = "PENDING"
                                                   /\ jobs[i].case = c}
  BY <1>3 DEF PendingOf
<1>11. QED
  BY <1>1, <1>7, <1>8, <1>9, <1>10

LEMMA RetryStaysFresh ==
  ASSUME StatementInv, NEW u \in Tx, Leaves(u), RetryFresh(u)
  PROVE  RetryFresh(u)'
<1> PICK c : c = tx[u].case
  OBVIOUS
<1> SUFFICES ASSUME tx[u].op = "retry", tx[u].at = "insert"
             PROVE  NoLiveJob(c)'
  BY DEF Leaves, RetryFresh
<1>1. NoLiveJob(c)
  BY DEF RetryFresh
<1>2. c \in CaseIds /\ CaseExists(c) /\ Holds(u, "update", CaseRowOf(c))
  BY DEF StatementInv, Stages, Stage, AdminStage
<1>3. ASSUME NEW i \in JobIds, jobs'[i].case = c, LiveJob(i)'
      PROVE  FALSE
  <2>1. jobs'[i] # jobs[i]
    BY <1>1, <1>3 DEF NoLiveJob, LiveJob
  <2>2. jobs[i].status = "RUNNING"
    BY <1>2, <1>3, <2>1 DEF Leaves
  <2>3. jobs[i].case = c
    BY <1>3, <2>2 DEF Leaves, RowsKept, SameReferences, JobExists
  <2>4. QED
    BY <1>1, <2>2, <2>3 DEF NoLiveJob, LiveJob
<1>4. QED
  BY <1>3 DEF NoLiveJob

(* The number of its attempt, and why it gives a case up, a worker knows.  *)
LEMMA KnowsAttempt ==
  ASSUME LiveInv, NEW u \in Workers, worker[u].pc # "idle"
  PROVE  /\ worker[u].attempt # 0 =>
                /\ worker[u].pc \in ChargePc /\ worker[u].attempt \in AttemptNos
                /\ attempts[jobs[Job(u)].case][worker[u].attempt] # "ABSENT"
         /\ worker[u].attempt = 0 => worker[u].pc = "evaluating"
         /\ worker[u].pc = "evaluating" => worker[u].attempt = 0
<1>1. RowsAndWorkers
  BY DEF LiveInv
<1>2. worker[u] \in WorkerState
  BY <1>1 DEF RowsAndWorkers, TypeOK, WorkerTypeOK
<1>3. worker[u].pc \in ChargePc \/ worker[u].pc = "evaluating"
  BY <1>2 DEF WorkerState, WorkerPc
<1>4. CASE worker[u].pc \in ChargePc
  BY <1>1, <1>4, KeyInHand DEF RowsAndWorkers, WorkersAreSound, JobsAreSound, ChargePc,
     FinalizePc
<1>5. CASE worker[u].pc = "evaluating"
  BY <1>5 DEF LiveInv, MemoriesFit
<1>6. QED
  BY <1>3, <1>4, <1>5

LEMMA GivesUpByAbort ==
  ASSUME RowsAndWorkers, NEW u \in Workers, worker[u].pc = "evaluating", GivesUp(u)
  PROVE  tx[u].answer = "ABORT"
BY EvaluationLeavesBudget DEF GivesUp, AttemptOutcome

LEMMA FinalizeStaysFresh ==
  ASSUME StatementInv, LiveInv, NEW u \in Tx, Leaves(u), FinalizeFresh(u)
  PROVE  FinalizeFresh(u)'
<1> SUFFICES ASSUME tx[u].op = "finalize", tx[u].at = "save"
             PROVE  FinalizeFresh(u)'
  BY DEF Leaves, FinalizeFresh
<1>1. u \in Workers /\ FinalizeStage(u)
  BY DEF StatementInv, Stages, Stage, FinalizeStage
<1>2. tx[u].job = Job(u) /\ worker[u].pc # "idle" /\ Job(u) \in JobIds /\ JobExists(Job(u))
      /\ jobs[Job(u)].case \in CaseIds /\ CaseExists(jobs[Job(u)].case)
      /\ worker[u].attempt \in AttemptNos \cup {0}
  BY <1>1, FinalizeKnows
<1> PICK j \in JobIds : j = Job(u)
  BY <1>2
<1> PICK c \in CaseIds : c = jobs[j].case
  BY <1>2
<1> PICK n \in AttemptNos \cup {0} : n = worker[u].attempt
  BY <1>2
<1>3. tx'[u] = tx[u] /\ worker'[u] = worker[u]
      /\ jobs'[j].case = c /\ jobs'[j].count = jobs[j].count
  BY <1>1, <1>2, JobInHandKept DEF Leaves, LiveInv
<1>4. /\ JobOutcome(u)' = JobOutcome(u) /\ AttemptOutcome(u)' = AttemptOutcome(u)
      /\ CaseOutcome(u)' = CaseOutcome(u)
  BY <1>3, OutcomesKept
<1>5. \A m, r : Takes(u, m, r)' <=> Takes(u, m, r)
  BY <1>3, TakesKept
<1>6. /\ Takes(u, "change", JobRowOf(j))
      /\ n # 0 => \/ Takes(u, "change", AttemptRow(c, n))
                  \/ attempts[c][n] = AttemptOutcome(u)
      /\ CaseOutcome(u) # "none" =>
            \/ Takes(u, "change", CaseRowOf(c))
            \/ cases[c].status = CaseOutcome(u)
            \/ /\ CaseOutcome(u) = "STOPPED" /\ tx[u].answer = "none"
               /\ cases[c].status = "RECOVERED"
  BY <1>2 DEF FinalizeFresh
<1>7. /\ \A m \in AttemptNos : attempts[c][m] # "ABSENT" => attempts'[c][m] = attempts[c][m]
      /\ cases'[c] = cases[c] \/ ActiveCase(c) \/ cases'[c].status = "RECOVERED"
  BY <1>1, <1>2 DEF Leaves
<1>8. n # 0 => attempts[c][n] # "ABSENT"
  BY <1>1, <1>2, KnowsAttempt
<1>9. n # 0 => \/ Takes(u, "change", AttemptRow(c, n))'
               \/ attempts'[c][n] = AttemptOutcome(u)'
  BY <1>4, <1>5, <1>6, <1>7, <1>8
<1>10. ASSUME CaseOutcome(u) # "none", ~Takes(u, "change", CaseRowOf(c))
       PROVE  \/ cases'[c].status = CaseOutcome(u)
              \/ /\ CaseOutcome(u) = "STOPPED" /\ tx[u].answer = "none"
                 /\ cases'[c].status = "RECOVERED"
  <2>1. CASE cases'[c] = cases[c]
    BY <1>6, <1>10, <2>1
  <2>2. CASE cases'[c] # cases[c] /\ CaseOutcome(u) = "RECOVERED"
    <3>1. cases[c].status = "RECOVERED"
      BY <1>6, <1>10, <2>2
    <3>2. QED
      BY <1>7, <2>2, <3>1 DEF ActiveCase, TerminalCaseStates
  <2>3. CASE cases'[c] # cases[c] /\ CaseOutcome(u) # "RECOVERED"
    <3>1. CaseOutcome(u) = "STOPPED" /\ GivesUp(u)
      BY <1>10, <2>3 DEF CaseOutcome
    <3>2. cases[c].status \in {"STOPPED", "RECOVERED"}
      BY <1>6, <1>10, <3>1
    <3>3. cases'[c].status = "RECOVERED"
      BY <1>7, <2>3, <3>2 DEF ActiveCase, TerminalCaseStates
    <3>4. CASE worker[u].pc = "evaluating"
      <4>1. tx[u].answer = "ABORT"
        BY <1>1, <3>1, <3>4, GivesUpByAbort DEF LiveInv
      <4>2. Holds(u, "update", CaseRowOf(c))
        BY <1>1, <1>2, <4>1 DEF FinalizeStage, Decisions
      <4>3. QED
        BY <1>2, <2>3, <4>2 DEF Leaves, Locked
    <3>5. CASE worker[u].pc # "evaluating"
      BY <1>1, <3>1, <3>3, <3>5 DEF FinalizeStage
    <3>6. QED
      BY <3>4, <3>5
  <2>4. QED
    BY <2>1, <2>2, <2>3
<1>11. tx'[u].job = j /\ jobs'[tx'[u].job].case = c /\ worker'[u].attempt = n
  BY <1>2, <1>3
<1>12. QED
  BY <1>3, <1>4, <1>5, <1>6, <1>9, <1>10, <1>11 DEF FinalizeFresh

-----------------------------------------------------------------------------
(* Steps, one by one: each is a step of the engine, or none, and leaves    *)
(* what others have read as it is.                                         *)

Acts == EngineStep /\ FreshInv'

Fresh(t) == PendingFresh(t) /\ RetryFresh(t) /\ FinalizeFresh(t)

LEMMA FreshKept ==
  ASSUME FreshInv, NEW t \in Tx, Respects(t), EngineStep, StatementInv', Fresh(t)'
  PROVE  FreshInv'
<1>1. ASSUME NEW u \in Tx, u # t
      PROVE  Fresh(u)'
  <2>1. Leaves(u)
    BY <1>1, RespectsLeaves DEF FreshInv, StatementInv
  <2>2. PendingFresh(u) /\ RetryFresh(u) /\ FinalizeFresh(u)
    BY DEF FreshInv, ReadsFresh
  <2>3. QED
    BY <2>1, <2>2, PendingStaysFresh, RetryStaysFresh, FinalizeStaysFresh
       DEF FreshInv, Fresh
<1>2. Tx' = Tx
  BY DEF Tx
<1>3. ReadsFresh'
  BY <1>1, <1>2 DEF ReadsFresh, Fresh
<1>4. RowsAndWorkers'
  BY DEF StatementInv
<1>5. LiveInv'
  BY <1>4, EngineKeepsLive DEF FreshInv
<1>6. QED
  BY <1>3, <1>5 DEF FreshInv

(* A transaction that is not about to commit on what it has read.          *)
LEMMA NothingRead ==
  ASSUME NEW t, tx[t].at \notin {"save", "insert"}
  PROVE  Fresh(t)
BY DEF Fresh, PendingFresh, RetryFresh, FinalizeFresh

LEMMA ClosedIsFresh ==
  ASSUME FreshInv, NEW t \in Tx, Close(t)
  PROVE  Fresh(t)' /\ \A u \in Tx \ {t} : tx'[u] = tx[u]
<1>1. LocksTypeOK
  BY DEF FreshInv, StatementInv
<1>2. tx'[t] = NoTx /\ \A u \in Tx \ {t} : tx'[u] = tx[u]
  BY <1>1, CloseKeepsStage
<1>3. QED
  BY <1>2 DEF NoTx, Fresh, PendingFresh, RetryFresh, FinalizeFresh

(* A step that changes no row. *)
LEMMA SilentActs ==
  ASSUME FreshInv, NEW t \in Tx, UNCHANGED vars, \A u \in Tx \ {t} : tx'[u] = tx[u],
         StatementInv', Fresh(t)'
  PROVE  Acts
<1>1. /\ cases' = cases /\ jobs' = jobs /\ attempts' = attempts /\ worker' = worker
  BY DEF vars, dbVars, workerVars
<1>2. CasesKept /\ \A j \in JobIds : JobExists(j) => JobExists(j)' /\ SameReferences(j)
  BY <1>1 DEF FreshInv, LiveInv, RowsAndWorkers, RowsRefer, CasesKept, CaseExists,
     JobExists, SameReferences
<1>3. Respects(t)
  BY <1>1, <1>2 DEF Respects, JobsUnderCases, AttemptsOwn, CasesOwn
<1>4. EngineStep
  BY DEF EngineStep
<1>5. QED
  BY <1>3, <1>4, FreshKept DEF Acts

LEMMA SilentCloseActs ==
  ASSUME FreshInv, NEW t \in Tx, UNCHANGED vars, Close(t), StatementInv'
  PROVE  Acts
BY ClosedIsFresh, SilentActs

-----------------------------------------------------------------------------
(* Webhook deliveries. *)

(* Opening or going on to a statement that reads. *)
LEMMA ReadingActs ==
  ASSUME FreshInv, NEW t \in Tx, NEW fields, tx' = [tx EXCEPT ![t] = fields],
         fields.at \notin {"save", "insert"}, UNCHANGED vars, StatementInv'
  PROVE  Acts
<1>1. tx \in [Tx -> TxState]
  BY DEF FreshInv, StatementInv, LocksTypeOK
<1>2. tx'[t] = fields /\ \A u \in Tx \ {t} : tx'[u] = tx[u]
  BY <1>1
<1>3. Fresh(t)'
  BY <1>2 DEF Fresh, PendingFresh, RetryFresh, FinalizeFresh
<1>4. QED
  BY <1>2, <1>3, SilentActs

LEMMA AskingActs ==
  ASSUME FreshInv, NEW t \in Tx, NEW locks, NEW s, Ask(t, locks, s),
         s \notin {"save", "insert"}, UNCHANGED vars, StatementInv'
  PROVE  Acts
<1>1. tx \in [Tx -> TxState]
  BY DEF FreshInv, StatementInv, LocksTypeOK
<1>2. tx'[t].at = s /\ \A u \in Tx \ {t} : tx'[u] = tx[u]
  BY <1>1 DEF Ask, TxState
<1>3. Fresh(t)'
  BY <1>2 DEF Fresh, PendingFresh, RetryFresh, FinalizeFresh
<1>4. QED
  BY <1>2, <1>3, SilentActs

LEMMA DeliveryReadsActs ==
  ASSUME FreshInv, NEW r \in Requests,
         \/ Deliver(r) \/ Dedupe(r) \/ WebhookFails(r) \/ InsertFails(r) \/ ApplySuccess(r)
  PROVE  Acts
<1>0. StatementInv' /\ StatementInv /\ r \in Tx
  BY RequestKeepsStatementInv DEF FreshInv, RequestStatement, DeliveryStep, Tx
<1>1. CASE Deliver(r)
  <2>1. PICK fields : Open(r, fields) /\ fields.at = "dedupe" /\ UNCHANGED vars
    BY <1>1 DEF Deliver, NoTx
  <2>2. QED
    BY <1>0, <2>1, ReadingActs DEF Open
<1>2. CASE Dedupe(r)
  <2>1. UNCHANGED vars
    BY <1>2 DEF Dedupe
  <2>2. CASE Close(r)
    BY <1>0, <2>1, <2>2, SilentCloseActs
  <2>3. CASE ~Close(r)
    <3>1. tx \in [Tx -> TxState]
      BY <1>0 DEF StatementInv, LocksTypeOK
    <3>2. tx'[r].at = "apply" /\ \A u \in Tx \ {r} : tx'[u] = tx[u]
      BY <1>0, <1>2, <2>3, <3>1 DEF Dedupe, TxState
    <3>3. Fresh(r)'
      BY <3>2 DEF Fresh, PendingFresh, RetryFresh, FinalizeFresh
    <3>4. QED
      BY <1>0, <2>1, <3>2, <3>3, SilentActs
  <2>4. QED
    BY <2>2, <2>3
<1>3. CASE WebhookFails(r) \/ InsertFails(r)
  BY <1>0, <1>3, SilentCloseActs DEF WebhookFails, InsertFails
<1>4. CASE ApplySuccess(r)
  BY <1>0, <1>4, AskingActs DEF ApplySuccess
<1>5. QED
  BY <1>1, <1>2, <1>3, <1>4

(* A delivery that is applied is one the engine accepts. *)
LEMMA DeliveryAccepted ==
  ASSUME StatementInv, NEW r \in Requests, tx[r].op = "webhook",
         Applying(r) \/ tx[r].at \in {"insert", "cancel", "save"}
  PROVE  Accepted(tx[r].event) /\ r \in Tx
<1>1. WebhookStage(r) /\ r \in Tx
  BY WebhookKnows
<1>2. tx[r].at # "dedupe"
  BY DEF Applying, At
<1>3. Applying(r) => \/ payments[tx[r].event.payment].status = "ABSENT"
                     \/ payments[tx[r].event.payment].terms = tx[r].event.terms
  BY DEF Applying
<1>4. tx[r].at \in {"insert", "cancel", "save"} => Applicable(tx[r].event)
  BY <1>1 DEF WebhookStage
<1>5. QED
  BY <1>1, <1>2, <1>3, <1>4 DEF WebhookStage, Accepted, Applicable

(* A commit that writes no case, job, attempt or worker. *)
LEMMA PaymentCommitActs ==
  ASSUME FreshInv, NEW r \in Tx, Close(r), UNCHANGED <<cases, jobs, attempts, workerVars>>,
         EngineStep, StatementInv'
  PROVE  Acts
<1>1. /\ cases' = cases /\ jobs' = jobs /\ attempts' = attempts /\ worker' = worker
  BY DEF workerVars
<1>2. CasesKept /\ \A j \in JobIds : JobExists(j) => JobExists(j)' /\ SameReferences(j)
  BY <1>1 DEF FreshInv, LiveInv, RowsAndWorkers, RowsRefer, CasesKept, CaseExists,
     JobExists, SameReferences
<1>3. Fresh(r)' /\ \A u \in Tx \ {r} : tx'[u] = tx[u]
  BY ClosedIsFresh
<1>4. Respects(r)
  BY <1>1, <1>2, <1>3 DEF Respects, JobsUnderCases, AttemptsOwn, CasesOwn
<1>5. QED
  BY <1>3, <1>4, FreshKept DEF Acts

LEMMA RecordingActs ==
  ASSUME FreshInv, NEW r \in Requests, ApplyToTerminal(r) \/ ApplyFailure(r)
  PROVE  Acts
<1>0. StatementInv' /\ StatementInv /\ r \in Tx
  BY RequestKeepsStatementInv DEF FreshInv, RequestStatement, DeliveryStep, Tx
<1>1. Applying(r) /\ tx[r].op = "webhook"
  BY DEF ApplyToTerminal, ApplyFailure, Applying, At
<1> PICK e \in Events : e = tx[r].event
  BY <1>0, <1>1, WebhookKnows
<1>2. Accepted(e)
  BY <1>0, <1>1, DeliveryAccepted
<1>3. CASE ApplyToTerminal(r)
  <2>1. Close(r) /\ UNCHANGED <<cases, jobs, attempts, store, workerVars>>
    BY <1>3 DEF ApplyToTerminal, Commit200
  <2>2. AcknowledgeTerminal(e)
    BY <1>2, <1>3 DEF ApplyToTerminal, Commit200, AcknowledgeTerminal
  <2>3. EngineStep
    BY <2>1, <2>2 DEF EngineStep, Webhook, ProcessWebhook
  <2>4. QED
    BY <1>0, <2>1, <2>3, PaymentCommitActs
<1>4. CASE ApplyFailure(r) /\ ActiveCases(e.payment) # {}
  <2>1. Close(r) /\ UNCHANGED <<cases, jobs, attempts, store, workerVars>>
    BY <1>4 DEF ApplyFailure, Commit200
  <2>2. RecordRepeatedFailure(e)
    BY <1>2, <1>4 DEF ApplyFailure, Commit200, RecordRepeatedFailure
  <2>3. EngineStep
    BY <2>1, <2>2 DEF EngineStep, Webhook, ProcessWebhook
  <2>4. QED
    BY <1>0, <2>1, <2>3, PaymentCommitActs
<1>5. CASE ApplyFailure(r) /\ ActiveCases(e.payment) = {}
  <2>1. Ask(r, {}, "insert") /\ UNCHANGED vars
    BY <1>5 DEF ApplyFailure, vars, dbVars
  <2>2. tx \in [Tx -> TxState]
    BY <1>0 DEF StatementInv, LocksTypeOK
  <2>3. tx'[r].at = "insert" /\ tx'[r].op = "webhook" /\ \A u \in Tx \ {r} : tx'[u] = tx[u]
    BY <1>0, <1>1, <2>1, <2>2 DEF Ask, TxState
  <2>4. Fresh(r)'
    BY <2>3 DEF Fresh, PendingFresh, RetryFresh, FinalizeFresh
  <2>5. QED
    BY <1>0, <2>1, <2>3, <2>4, SilentActs
<1>6. QED
  BY <1>3, <1>4, <1>5

(* A request that commits. *)
LEMMA RequestCommitActs ==
  ASSUME FreshInv, NEW r \in Requests, Close(r), StatementInv',
         Webhook \/ Admin, UNCHANGED attempts, JobsUnderCases(r), CasesOwn(r)
  PROVE  Acts
<1>1. RowsAndWorkers /\ r \in Tx
  BY DEF FreshInv, LiveInv, Tx
<1>2. CasesKept /\ JobsKept
  BY <1>1, WebhookIsQuiet, AdminIsQuiet DEF Quiet
<1>3. worker' = worker
  BY DEF Webhook, Admin, workerVars
<1>4. Fresh(r)' /\ \A u \in Tx \ {r} : tx'[u] = tx[u]
  BY <1>1, ClosedIsFresh
<1>5. Respects(r)
  BY <1>2, <1>3, <1>4 DEF Respects, AttemptsOwn, JobsKept, SameJob, SameReferences
<1>6. EngineStep
  BY DEF EngineStep
<1>7. QED
  BY <1>1, <1>4, <1>5, <1>6, FreshKept DEF Acts

LEMMA InsertCaseActs ==
  ASSUME FreshInv, NEW r \in Requests, InsertCase(r)
  PROVE  Acts
<1>0. StatementInv' /\ StatementInv /\ r \in Tx
  BY RequestKeepsStatementInv DEF FreshInv, RequestStatement, DeliveryStep, Tx
<1>1. tx[r].at = "insert" /\ tx[r].op = "webhook"
  BY DEF InsertCase, At
<1> PICK e \in Events : e = tx[r].event
  BY <1>0, <1>1, WebhookKnows
<1>2. Accepted(e)
  BY <1>0, <1>1, DeliveryAccepted
<1>3. e.type = "payment.failed" /\ ActiveCases(e.payment) = {} /\ Applicable(e)
  BY <1>0, <1>1, WebhookKnows DEF WebhookStage
<1>4. PICK c \in CaseIds, j \in JobIds :
         /\ ~CaseExists(c) /\ ~JobExists(j)
         /\ PutPayment(e, "FAILED")
         /\ cases' = [cases EXCEPT ![c] = [status |-> "OPEN", payment |-> e.payment]]
         /\ jobs' = [jobs EXCEPT ![j] = NewJob(c, "EVALUATE_RECOVERY", 0)]
         /\ Commit200(r)
  BY <1>3 DEF InsertCase
<1>5. UNCHANGED <<attempts, store, workerVars>> /\ e.reason
  BY DEF InsertCase
<1>6. OpenCase(e, c, j)
  BY <1>2, <1>3, <1>4, <1>5 DEF OpenCase, Commit200, Applicable
<1>7. Webhook
  BY <1>5, <1>6 DEF Webhook, ProcessWebhook
<1>8. jobs \in [JobIds -> JobRow] /\ cases \in [CaseIds -> CaseRow]
  BY <1>0 DEF StatementInv, RowsAndWorkers, TypeOK, DbTypeOK
<1>9. JobsUnderCases(r)
  BY <1>4, <1>8 DEF JobsUnderCases, NewJob
<1>10. CasesOwn(r)
  BY <1>4, <1>8 DEF CasesOwn
<1>11. QED
  BY <1>0, <1>4, <1>5, <1>7, <1>9, <1>10, RequestCommitActs DEF Commit200

(* Jobs of the cases r has locked that are cancelled. *)
LEMMA ReadsPendingActs ==
  ASSUME FreshInv, NEW r \in Requests, CancelJobs(r) \/ StopReadsJobs(r)
  PROVE  Acts
<1>0. StatementInv' /\ StatementInv /\ r \in Tx
  BY RequestKeepsStatementInv
     DEF FreshInv, RequestStatement, DeliveryStep, AdminStep, Tx
<1>1. /\ tx[r].op \in {"webhook", "stop"} /\ tx[r].want = {} /\ tx[r].at # "save"
      /\ PendingOf(OpenLocked(r)) # {} /\ UNCHANGED vars
      /\ Ask(r, {Lock("change", JobRowOf(j)) : j \in PendingOf(OpenLocked(r))}, "save")
  BY DEF CancelJobs, StopReadsJobs, Ruling, At
<1>2. JobsTaken(r) = {}
  BY <1>0, <1>1 DEF StatementInv, Stages, Stage, WebhookStage, AdminStage
<1>3. /\ \A u \in Tx \ {r} : tx'[u] = tx[u]
      /\ tx'[r].op = tx[r].op /\ tx'[r].at = "save"
      /\ \A m, row : Holds(r, m, row)' <=> Holds(r, m, row)
      /\ JobsTaken(r)' = PendingOf(OpenLocked(r))
  BY <1>0, <1>1, <1>2, AskedForJobs
<1>4. cases' = cases /\ jobs' = jobs
  BY <1>1 DEF vars, dbVars
<1>5. OpenLocked(r)' = OpenLocked(r)
  BY <1>3, <1>4 DEF OpenLocked, ActiveCase, CaseExists
<1>6. PendingOf(OpenLocked(r))' = PendingOf(OpenLocked(r))
  BY <1>4, <1>5 DEF PendingOf
<1>7. Fresh(r)'
  BY <1>1, <1>3, <1>6 DEF Fresh, PendingFresh, RetryFresh, FinalizeFresh
<1>8. QED
  BY <1>0, <1>1, <1>3, <1>7, SilentActs

(* The jobs a request has locked as it commits are the PENDING ones. *)
LEMMA SeenIsPending ==
  ASSUME FreshInv, NEW r \in Requests, tx[r].op \in {"webhook", "stop"}, tx[r].want = {},
         \/ tx[r].at = "save"
         \/ (tx[r].at # "save" /\ PendingOf(OpenLocked(r)) = {})
  PROVE  /\ SeenPending(r) = PendingOf(OpenLocked(r))
         /\ Cancelled(SeenPending(r)) = CancelPending(OpenLocked(r))
<1>0. StatementInv /\ r \in Tx
  BY DEF FreshInv, Tx
<1>1. SeenPending(r) = JobsTaken(r)
  BY DEF SeenPending, JobsTaken, Takes, Holds
<1>2. ASSUME tx[r].at = "save"
      PROVE  SeenPending(r) = PendingOf(OpenLocked(r))
  <2>1. PendingFresh(r)
    BY <1>0 DEF FreshInv, ReadsFresh
  <2>2. QED
    BY <1>1, <1>2, <2>1 DEF PendingFresh
<1>3. ASSUME tx[r].at # "save", PendingOf(OpenLocked(r)) = {}
      PROVE  SeenPending(r) = PendingOf(OpenLocked(r))
  <2>1. Stage(r)
    BY <1>0 DEF StatementInv, Stages
  <2>2. JobsTaken(r) = {}
    BY <1>3, <2>1 DEF Stage, WebhookStage, AdminStage
  <2>3. QED
    BY <1>1, <1>3, <2>2
<1>4. SeenPending(r) = PendingOf(OpenLocked(r))
  BY <1>1, <1>2, <1>3
<1>5. QED
  BY <1>4 DEF Cancelled, CancelPending, PendingOf

(* Then they are those of a case that r has locked. *)
LEMMA CancelsUnderCases ==
  ASSUME FreshInv, NEW r \in Requests, jobs' = CancelPending(OpenLocked(r))
  PROVE  JobsUnderCases(r)
<1>1. jobs \in [JobIds -> JobRow]
  BY DEF FreshInv, LiveInv, RowsAndWorkers, TypeOK, DbTypeOK
<1>2. QED
  BY <1>1 DEF JobsUnderCases, CancelPending, OpenLocked, JobRow

(* The active cases of a payment that succeeds are locked, all of them and *)
(* nothing else.                                                           *)
LEMMA ActiveAreLocked ==
  ASSUME StatementInv, NEW r \in Requests, tx[r].op = "webhook",
         tx[r].at \in {"cancel", "save"}, tx[r].want = {}
  PROVE  OpenLocked(r) = ActiveCases(tx[r].event.payment)
<1> PICK p : p = tx[r].event.payment
  OBVIOUS
<1>1. WebhookStage(r)
  BY WebhookKnows
<1>2. \A c \in ActiveCases(p) : Takes(r, "update", CaseRowOf(c))
  BY <1>1 DEF WebhookStage
<1>3. \A c \in CasesTaken(r) : cases[c].payment = p
  BY <1>1 DEF WebhookStage
<1>4. \A c \in CaseIds : Holds(r, "update", CaseRowOf(c)) => c \in CasesTaken(r)
  BY DEF Holds, CasesTaken, Takes, LockMode
<1>5. \A c : Takes(r, "update", CaseRowOf(c)) => Holds(r, "update", CaseRowOf(c))
  BY DEF Takes, Holds
<1>6. QED
  BY <1>2, <1>3, <1>4, <1>5 DEF OpenLocked, ActiveCases

LEMMA CommitSuccessActs ==
  ASSUME FreshInv, NEW r \in Requests, CommitSuccess(r)
  PROVE  Acts
<1>0. StatementInv' /\ StatementInv /\ r \in Tx
  BY RequestKeepsStatementInv DEF FreshInv, RequestStatement, DeliveryStep, Tx
<1>1. /\ tx[r].op = "webhook" /\ tx[r].want = {} /\ tx[r].at \in {"cancel", "save"}
      /\ tx[r].at = "save" \/ (tx[r].at # "save" /\ PendingOf(OpenLocked(r)) = {})
  BY DEF CommitSuccess, At
<1> PICK e \in Events : e = tx[r].event
  BY <1>0, <1>1, WebhookKnows
<1>2. Accepted(e) /\ ~Terminal(e.payment) /\ e.type = "payment.succeeded"
  BY <1>0, <1>1, DeliveryAccepted, WebhookKnows DEF WebhookStage, Applicable
<1>3. OpenLocked(r) = ActiveCases(e.payment)
  BY <1>0, <1>1, ActiveAreLocked
<1>4. /\ PutPayment(e, "SUCCEEDED")
      /\ cases' = WithStatus(ActiveCases(e.payment), "RECOVERED")
      /\ jobs' = CancelPending(ActiveCases(e.payment))
      /\ Commit200(r) /\ UNCHANGED <<attempts, store, workerVars>>
  BY <1>1, <1>3, SeenIsPending DEF CommitSuccess
<1>5. RecordSuccess(e)
  BY <1>2, <1>4 DEF RecordSuccess, Commit200, WithStatus
<1>6. Webhook
  BY <1>4, <1>5 DEF Webhook, ProcessWebhook
<1>7. JobsUnderCases(r)
  BY <1>3, <1>4, CancelsUnderCases
<1>8. CasesOwn(r)
  <2>1. cases \in [CaseIds -> CaseRow]
    BY <1>0 DEF StatementInv, RowsAndWorkers, TypeOK, DbTypeOK
  <2>2. \A c \in CaseIds : cases'[c] # cases[c] => c \in OpenLocked(r)
    BY <1>3, <1>4, <2>1 DEF WithStatus
  <2>3. QED
    BY <2>2 DEF CasesOwn, OpenLocked, Locked
<1>9. QED
  BY <1>0, <1>4, <1>6, <1>7, <1>8, RequestCommitActs DEF Commit200

-----------------------------------------------------------------------------
(* Administrators. *)

LEMMA AdminReadsActs ==
  ASSUME FreshInv, NEW r \in Requests,
         \/ \E c \in CaseIds : BeginAdmin(r, c)
         \/ LockItsPayment(r) \/ Refuse(r) \/ RetryReadsJobs(r) \/ RequestAborts(r)
  PROVE  Acts
<1>0. StatementInv' /\ StatementInv /\ r \in Tx
  BY RequestKeepsStatementInv DEF FreshInv, RequestStatement, AdminStep, Tx
<1>1. ASSUME NEW c \in CaseIds, BeginAdmin(r, c)
      PROVE  Acts
  <2>1. PICK fields : Open(r, fields) /\ fields.at = "payment" /\ UNCHANGED vars
    BY <1>1 DEF BeginAdmin, NoTx
  <2>2. QED
    BY <1>0, <2>1, ReadingActs DEF Open
<1>2. CASE LockItsPayment(r)
  BY <1>0, <1>2, AskingActs DEF LockItsPayment
<1>3. CASE Refuse(r) \/ RequestAborts(r)
  BY <1>0, <1>3, SilentCloseActs DEF Refuse, RequestAborts
<1>4. CASE RetryReadsJobs(r)
  <2>1. /\ tx[r].op = "retry" /\ NoLiveJob(tx[r].case) /\ UNCHANGED vars
        /\ Ask(r, {}, "insert")
    BY <1>4 DEF RetryReadsJobs, Ruling, At
  <2>2. tx \in [Tx -> TxState]
    BY <1>0 DEF StatementInv, LocksTypeOK
  <2>3. /\ \A u \in Tx \ {r} : tx'[u] = tx[u]
        /\ tx'[r].op = "retry" /\ tx'[r].at = "insert" /\ tx'[r].case = tx[r].case
    BY <1>0, <2>1, <2>2 DEF Ask, TxState
  <2>4. jobs' = jobs
    BY <2>1 DEF vars, dbVars
  <2>5. Fresh(r)'
    BY <2>1, <2>3, <2>4 DEF Fresh, PendingFresh, RetryFresh, FinalizeFresh, NoLiveJob, LiveJob
  <2>6. QED
    BY <1>0, <2>1, <2>3, <2>5, SilentActs
<1>5. QED
  BY <1>1, <1>2, <1>3, <1>4

LEMMA ClosingActs ==
  ASSUME FreshInv, NEW r \in Requests, RejectPaid(r) \/ CommitStop(r)
  PROVE  Acts
<1>0. StatementInv' /\ StatementInv /\ r \in Tx
  BY RequestKeepsStatementInv DEF FreshInv, RequestStatement, AdminStep, Tx
<1>1. tx[r].op \in {"stop", "retry"} /\ tx[r].want = {} /\ Close(r)
      /\ UNCHANGED <<payments, attempts, handled, store, workerVars>>
  BY DEF RejectPaid, CommitStop, Ruling, At
<1> PICK c \in CaseIds : c = tx[r].case
  BY <1>0, <1>1, AdminKnows
<1>2. /\ CaseExists(c) /\ AdminStage(r) /\ cases \in [CaseIds -> CaseRow]
  BY <1>0, <1>1, AdminKnows DEF StatementInv, RowsAndWorkers, TypeOK, DbTypeOK
<1>3. tx[r].at # "payment" /\ Holds(r, "update", CaseRowOf(c))
  BY <1>2 DEF RejectPaid, CommitStop, Ruling, At, AdminStage
<1>4. CASE RejectPaid(r)
  <2>1. /\ Paid(cases[c].payment) /\ jobs' = jobs
        /\ cases' = WithStatus({c}, "RECOVERED")
    BY <1>4 DEF RejectPaid
  <2>2. cases' = [cases EXCEPT ![c].status = "RECOVERED"]
    BY <1>2, <2>1 DEF WithStatus
  <2>3. RejectForPaid(c)
    BY <1>1, <1>2, <2>1, <2>2 DEF RejectForPaid
  <2>4. Admin
    BY <1>1, <2>3 DEF Admin, StopCase
  <2>5. JobsUnderCases(r)
    BY <2>1 DEF JobsUnderCases
  <2>6. CasesOwn(r)
    BY <1>2, <1>3, <2>2 DEF CasesOwn, Locked, CaseRow
  <2>7. QED
    BY <1>0, <1>1, <2>4, <2>5, <2>6, RequestCommitActs
<1>5. CASE CommitStop(r)
  <2>1. /\ tx[r].op = "stop"
        /\ tx[r].at = "save" \/ (tx[r].at # "save" /\ PendingOf(OpenLocked(r)) = {})
    BY <1>5, <1>1 DEF CommitStop, Ruling, At
  <2>2. ActiveCase(c) /\ ~Paid(cases[c].payment)
    BY <1>2, <1>5 DEF CommitStop, Ruling, At, AdminStage
  <2>3. OpenLocked(r) = {c}
    <3>1. \A d \in CaseIds : Holds(r, "update", CaseRowOf(d)) => d \in CasesTaken(r)
      BY DEF Holds, CasesTaken, Takes, LockMode
    <3>2. QED
      BY <1>2, <1>3, <2>2, <3>1 DEF OpenLocked, AdminStage
  <2>4. /\ cases' = WithStatus({c}, "STOPPED")
        /\ jobs' = CancelPending({c})
    BY <1>1, <1>5, <2>1, <2>3, SeenIsPending DEF CommitStop
  <2>5. cases' = [cases EXCEPT ![c].status = "STOPPED"]
    BY <1>2, <2>4 DEF WithStatus
  <2>6. CloseCase(c)
    BY <1>1, <2>2, <2>4, <2>5 DEF CloseCase
  <2>7. Admin
    BY <1>1, <2>6 DEF Admin, StopCase
  <2>8. JobsUnderCases(r)
    BY <2>3, <2>4, CancelsUnderCases
  <2>9. CasesOwn(r)
    BY <1>2, <1>3, <2>2, <2>5 DEF CasesOwn, Locked, CaseRow
  <2>10. QED
    BY <1>0, <1>1, <2>7, <2>8, <2>9, RequestCommitActs
<1>6. QED
  BY <1>4, <1>5

LEMMA CommitRetryActs ==
  ASSUME FreshInv, NEW r \in Requests, NEW j \in JobIds, CommitRetry(r, j)
  PROVE  Acts
<1>0. StatementInv' /\ StatementInv /\ r \in Tx
  BY RequestKeepsStatementInv DEF FreshInv, RequestStatement, AdminStep, Tx
<1>1. tx[r].op = "retry" /\ tx[r].at = "insert"
  BY DEF CommitRetry, At
<1> PICK c \in CaseIds : c = tx[r].case
  BY <1>0, <1>1, AdminKnows
<1>2. /\ CaseExists(c) /\ AdminStage(r)
      /\ cases \in [CaseIds -> CaseRow] /\ jobs \in [JobIds -> JobRow]
  BY <1>0, <1>1, AdminKnows DEF StatementInv, RowsAndWorkers, TypeOK, DbTypeOK
<1>3. /\ Holds(r, "update", CaseRowOf(c)) /\ ~Paid(cases[c].payment)
      /\ cases[c].status # "RECOVERED"
  BY <1>1, <1>2 DEF AdminStage
<1>4. NoLiveJob(c)
  BY <1>0, <1>1 DEF FreshInv, ReadsFresh, RetryFresh
<1>5. /\ ActiveCaseAllowed(c, cases[c].payment) /\ ~JobExists(j)
      /\ cases' = WithStatus({c}, "OPEN")
      /\ jobs' = [jobs EXCEPT ![j] = NewJob(c, "EVALUATE_RECOVERY", 0)]
      /\ Close(r) /\ UNCHANGED <<payments, attempts, handled, store, workerVars>>
  BY DEF CommitRetry
<1>6. cases' = [cases EXCEPT ![c].status = "OPEN"]
  BY <1>2, <1>5 DEF WithStatus
<1>7. ReopenCase(c, j)
  BY <1>2, <1>3, <1>4, <1>5, <1>6 DEF ReopenCase
<1>8. Admin
  BY <1>5, <1>7 DEF Admin, RetryCase
<1>9. JobsUnderCases(r)
  BY <1>2, <1>3, <1>5 DEF JobsUnderCases, NewJob
<1>10. CasesOwn(r)
  BY <1>2, <1>3, <1>4, <1>6 DEF CasesOwn, Locked
<1>11. QED
  BY <1>0, <1>5, <1>8, <1>9, <1>10, RequestCommitActs

-----------------------------------------------------------------------------
(* Locks and workers. *)

(* A lock that t waited for. *)
LEMMA AcquireActs ==
  ASSUME FreshInv, NEW t \in Tx, Acquire(t)
  PROVE  Acts
<1>0. StatementInv' /\ StatementInv /\ UNCHANGED vars /\ tx \in [Tx -> TxState]
  BY AcquireKeepsInv DEF FreshInv, StatementInv, LocksTypeOK, Acquire
<1> PICK lock \in tx[t].want :
       tx' = [tx EXCEPT ![t].want = @ \ {lock}, ![t].held = @ \cup {lock}]
  BY DEF Acquire
<1>1. /\ \A u \in Tx \ {t} : tx'[u] = tx[u]
      /\ tx'[t].op = tx[t].op /\ tx'[t].at = tx[t].at /\ tx'[t].job = tx[t].job
      /\ tx'[t].case = tx[t].case /\ tx'[t].answer = tx[t].answer
      /\ tx'[t].held = tx[t].held \cup {lock}
      /\ tx'[t].want = tx[t].want \ {lock}
  BY <1>0 DEF TxState
<1>2. /\ \A m, row : Takes(t, m, row)' <=> Takes(t, m, row)
      /\ \A m, row : Holds(t, m, row) => Holds(t, m, row)'
      /\ \A m, row : Holds(t, m, row)' => Takes(t, m, row)
  BY <1>1 DEF Takes, Holds
<1>3. /\ cases' = cases /\ jobs' = jobs /\ attempts' = attempts /\ worker' = worker
  BY <1>0 DEF vars, dbVars, workerVars
<1>4. PendingFresh(t) /\ RetryFresh(t) /\ FinalizeFresh(t)
  BY DEF FreshInv, ReadsFresh
<1>5. PendingFresh(t)'
  <2> SUFFICES ASSUME tx[t].op \in {"webhook", "stop"}, tx[t].at = "save"
               PROVE  PendingFresh(t)'
    BY <1>1 DEF PendingFresh
  <2>1. Stage(t)
    BY <1>0 DEF StatementInv, Stages
  <2>2. \A c \in CaseIds : Takes(t, "update", CaseRowOf(c)) => c \in CasesTaken(t)
    BY DEF CasesTaken, LockMode
  <2>3. \A c \in CaseIds : Takes(t, "update", CaseRowOf(c))
                              => Holds(t, "update", CaseRowOf(c))
    <3>1. CASE tx[t].op = "webhook"
      BY <2>1, <3>1 DEF Stage, WebhookStage
    <3>2. CASE tx[t].op = "stop"
      <4>1. AdminStage(t)
        BY <2>1, <3>2 DEF Stage
      <4>2. CasesTaken(t) \subseteq {tx[t].case} /\ Holds(t, "update", CaseRowOf(tx[t].case))
        BY <4>1 DEF AdminStage
      <4>3. QED
        BY <2>2, <4>2
    <3>3. QED
      BY <3>1, <3>2
  <2>4. OpenLocked(t)' = OpenLocked(t)
    BY <1>2, <1>3, <2>3 DEF OpenLocked, ActiveCase, CaseExists
  <2>5. PendingOf(OpenLocked(t))' = PendingOf(OpenLocked(t))
    BY <1>3, <2>4 DEF PendingOf
  <2>6. JobsTaken(t)' = JobsTaken(t)
    BY <1>2 DEF JobsTaken
  <2>7. QED
    BY <1>4, <2>5, <2>6 DEF PendingFresh
<1>6. RetryFresh(t)'
  BY <1>1, <1>3, <1>4 DEF RetryFresh, NoLiveJob, LiveJob
<1>7. FinalizeFresh(t)'
  <2>1. AttemptOutcome(t)' = AttemptOutcome(t) /\ CaseOutcome(t)' = CaseOutcome(t)
    BY <1>1, <1>3 DEF AttemptOutcome, CaseOutcome, GivesUp, AttemptsLeft, Job
  <2>2. QED
    BY <1>1, <1>2, <1>3, <1>4, <2>1 DEF FinalizeFresh
<1>8. QED
  BY <1>0, <1>1, <1>5, <1>6, <1>7, SilentActs DEF Fresh

LEMMA WorkerReadsActs ==
  ASSUME FreshInv, NEW w \in Workers,
         \/ \E j \in JobIds : SelectJob(w, j)
         \/ LockPayment(w) \/ ReadJob(w) \/ Decide(w)
  PROVE  Acts
<1>0. StatementInv' /\ StatementInv /\ w \in Tx
  BY WorkerKeepsStatementInv DEF FreshInv, WorkerStatement, Tx
<1>1. ASSUME NEW j \in JobIds, SelectJob(w, j)
      PROVE  Acts
  <2>1. PICK fields : Open(w, fields) /\ fields.at = "payment" /\ UNCHANGED vars
    BY <1>1 DEF SelectJob, NoTx
  <2>2. QED
    BY <1>0, <2>1, ReadingActs DEF Open
<1>2. CASE LockPayment(w)
  BY <1>0, <1>2, AskingActs DEF LockPayment
<1>3. CASE ReadJob(w)
  <2>1. PICK fields : Open(w, fields) /\ fields.at \in {"payment", "load"} /\ UNCHANGED vars
    BY <1>3 DEF ReadJob, NoTx
  <2>2. QED
    BY <1>0, <2>1, ReadingActs DEF Open
<1>4. CASE Decide(w)
  <2>1. tx \in [Tx -> TxState]
    BY <1>0 DEF StatementInv, LocksTypeOK
  <2>2. tx'[w].at = "load" /\ \A u \in Tx \ {w} : tx'[u] = tx[u]
    BY <1>0, <1>4, <2>1 DEF Decide, TxState
  <2>3. Fresh(w)'
    BY <2>2 DEF Fresh, PendingFresh, RetryFresh, FinalizeFresh
  <2>4. QED
    BY <1>0, <1>4, <2>2, <2>3, SilentActs DEF Decide
<1>5. QED
  BY <1>1, <1>2, <1>3, <1>4

(* What the flush of a finalizing transaction leaves out is as it should   *)
(* be already: the job is RUNNING, since its lease has not expired.        *)
LEMMA LoadRowsActs ==
  ASSUME FreshInv, NEW w \in Workers, LoadRows(w)
  PROVE  Acts
<1>0. StatementInv' /\ StatementInv /\ w \in Tx
  BY WorkerKeepsStatementInv DEF FreshInv, WorkerStatement, Tx
<1>1. UNCHANGED vars /\ tx[w].op = "finalize"
  BY DEF LoadRows, At
<1>2. /\ FinalizeStage(w) /\ tx[w].job = Job(w) /\ worker[w].pc # "idle"
      /\ Job(w) \in JobIds /\ jobs[Job(w)].case \in CaseIds
      /\ worker[w].attempt \in AttemptNos \cup {0}
  BY <1>0, <1>1, FinalizeKnows
<1> PICK j \in JobIds : j = Job(w)
  BY <1>2
<1> PICK c \in CaseIds : c = jobs[j].case
  BY <1>2
<1> PICK n \in AttemptNos \cup {0} : n = worker[w].attempt
  BY <1>2
<1>3. cases' = cases /\ jobs' = jobs /\ attempts' = attempts /\ worker' = worker
  BY <1>1 DEF vars, dbVars, workerVars
<1>4. /\ \A u \in Tx \ {w} : tx'[u] = tx[u]
      /\ tx'[w].op = "finalize" /\ tx'[w].job = j /\ tx'[w].answer = tx[w].answer
      /\ Takes(w, "change", JobRowOf(j))' <=> JobOutcome(w) # jobs[j].status
      /\ n # 0 => (Takes(w, "change", AttemptRow(c, n))' <=>
                      AttemptOutcome(w) \notin {"none", attempts[c][n]})
      /\ Takes(w, "change", CaseRowOf(c))' <=> CaseOutcome(w) \notin {"none", cases[c].status}
  BY <1>0, <1>2, <1>3, LoadedRows DEF Job
<1>5. AttemptOutcome(w)' = AttemptOutcome(w) /\ CaseOutcome(w)' = CaseOutcome(w)
  <2>1. AttemptOutcome(w)' = AttemptOutcome(w)
    BY <1>3 DEF AttemptOutcome
  <2>2. AttemptsLeft(Job(w))' <=> AttemptsLeft(Job(w))
    BY <1>3 DEF AttemptsLeft, Job
  <2>3. GivesUp(w)' <=> GivesUp(w)
    BY <1>4, <2>1, <2>2 DEF GivesUp
  <2>4. QED
    BY <2>1, <2>3 DEF CaseOutcome
<1>6. JobOutcome(w) # jobs[j].status
  <2>1. jobs[j].status = "RUNNING"
    BY <1>2 DEF FreshInv, LiveInv, LeasesKept
  <2>2. QED
    BY <2>1 DEF JobOutcome
<1>7. n # 0 => AttemptOutcome(w) # "none"
  <2>1. n # 0 => worker[w].pc # "evaluating"
    BY <1>2, KnowsAttempt DEF FreshInv
  <2>2. QED
    BY <2>1 DEF AttemptOutcome
<1>8. FinalizeFresh(w)'
  <2>1. Takes(w, "change", JobRowOf(j))'
    BY <1>4, <1>6
  <2>2. n # 0 => Takes(w, "change", AttemptRow(c, n))' \/ attempts'[c][n] = AttemptOutcome(w)'
    BY <1>4, <1>3, <1>5, <1>7
  <2>3. CaseOutcome(w)' # "none" => \/ Takes(w, "change", CaseRowOf(c))'
                                    \/ cases'[c].status = CaseOutcome(w)'
    BY <1>4, <1>3, <1>5
  <2>4. tx'[w].job = j /\ jobs'[tx'[w].job].case = c /\ worker'[w].attempt = n
    BY <1>4, <1>3
  <2>5. QED
    BY <2>1, <2>2, <2>3, <2>4 DEF FinalizeFresh
<1>9. Fresh(w)'
  BY <1>4, <1>8 DEF Fresh, PendingFresh, RetryFresh
<1>10. QED
  BY <1>0, <1>1, <1>4, <1>9, SilentActs

(* A worker that commits, and what it has to leave to others. *)
LEMMA WorkerCommitActs ==
  ASSUME FreshInv, NEW w \in Workers, Close(w), StatementInv', EngineStep,
         \A v \in Workers \ {w} : worker'[v] = worker[v],
         RowsKept, CasesKept, JobsUnderCases(w), AttemptsOwn(w), CasesOwn(w)
  PROVE  Acts
<1>1. Fresh(w)' /\ w \in Tx /\ \A u \in Tx \ {w} : tx'[u] = tx[u]
  BY ClosedIsFresh DEF Tx
<1>2. Respects(w)
  BY <1>1 DEF Respects, RowsKept
<1>3. QED
  BY <1>1, <1>2, FreshKept DEF Acts

LEMMA CommitClaimActs ==
  ASSUME FreshInv, NEW w \in Workers, CommitClaim(w)
  PROVE  Acts
<1>0. StatementInv' /\ StatementInv /\ w \in Tx /\ RowsAndWorkers
  BY WorkerKeepsStatementInv DEF FreshInv, LiveInv, WorkerStatement, Tx
<1>1. tx[w].op = "claim" /\ tx[w].at = "decide" /\ Close(w)
  BY DEF CommitClaim, At
<1> PICK j \in JobIds : j = tx[w].job
  BY <1>0, <1>1, ClaimKnows
<1>2. /\ ClaimStage(w) /\ JobExists(j) /\ jobs[j].case \in CaseIds
  BY <1>0, <1>1, ClaimKnows
<1>3. CASE UNCHANGED vars
  BY <1>0, <1>1, <1>3, SilentCloseActs
<1>4. CASE ClaimForPaid(w, j) \/ BeginEvaluation(w, j)
             \/ StartAttempt(w, j) \/ ResumeAttempt(w, j)
  <2>1. /\ UNCHANGED <<payments, cases, handled>>
        /\ \A v \in Workers \ {w} : worker'[v] = worker[v]
        /\ \A i \in JobIds \ {j} : jobs'[i] = jobs[i]
        /\ JobExists(j)' /\ SameReferences(j)
    BY <1>0, <1>2, <1>4, ClaimsOwn
  <2>2. EngineStep
    BY <1>4 DEF EngineStep, WorkerStep, Claim
  <2>3. RowsKept /\ CasesKept
    BY <1>0, <2>1 DEF RowsKept, CasesKept, RowsAndWorkers, RowsRefer, SameReferences,
       CaseExists, JobExists
  <2>4. JobsUnderCases(w)
    BY <1>1, <1>2, <2>1 DEF JobsUnderCases, ClaimStage, SameReferences
  <2>5. AttemptsOwn(w)
    <3>1. CASE StartAttempt(w, j)
      <4>1. attempts \in [CaseIds -> [AttemptNos -> AttemptState \cup {"ABSENT"}]]
        BY <1>0 DEF RowsAndWorkers, TypeOK, DbTypeOK
      <4>2. PICK b \in CaseIds, m \in AttemptNos :
               attempts[b][m] = "ABSENT" /\ attempts' = [attempts EXCEPT ![b][m] = "RUNNING"]
        BY <1>2, <3>1 DEF StartAttempt, InsertAttempt, NumberIsFree
      <4>3. QED
        BY <4>1, <4>2 DEF AttemptsOwn
    <3>2. CASE ~StartAttempt(w, j)
      <4>1. attempts' = attempts
        BY <1>4, <3>2 DEF ClaimForPaid, BeginEvaluation, ResumeAttempt
      <4>2. QED
        BY <4>1 DEF AttemptsOwn
    <3>3. QED
      BY <3>1, <3>2
  <2>6. CasesOwn(w)
    BY <2>1 DEF CasesOwn
  <2>7. QED
    BY <1>0, <1>1, <2>1, <2>2, <2>3, <2>4, <2>5, <2>6, WorkerCommitActs
<1>5. QED
  BY <1>0, <1>3, <1>4, CommittedClaim

(* A worker goes on without writing a row. *)
LEMMA MemoryActs ==
  ASSUME FreshInv, NEW w \in Workers, StatementInv', EngineStep, UNCHANGED dbVars,
         \A v \in Workers \ {w} : worker'[v] = worker[v],
         (tx[w] = NoTx /\ tx' = tx) \/ Close(w)
  PROVE  Acts
<1>1. w \in Tx
  BY DEF Tx
<1>2. /\ cases' = cases /\ jobs' = jobs /\ attempts' = attempts
  BY DEF dbVars
<1>3. RowsKept /\ CasesKept
  BY <1>2 DEF FreshInv, LiveInv, RowsAndWorkers, RowsRefer, RowsKept, CasesKept,
     CaseExists, JobExists, SameReferences
<1>4. JobsUnderCases(w) /\ AttemptsOwn(w) /\ CasesOwn(w)
  BY <1>2 DEF JobsUnderCases, AttemptsOwn, CasesOwn
<1>5. CASE Close(w)
  BY <1>3, <1>4, <1>5, WorkerCommitActs
<1>6. CASE tx[w] = NoTx /\ tx' = tx
  <2>1. Fresh(w)' /\ \A u \in Tx \ {w} : tx'[u] = tx[u]
    BY <1>6 DEF NoTx, Fresh, PendingFresh, RetryFresh, FinalizeFresh
  <2>2. Respects(w)
    BY <1>3, <1>4, <2>1 DEF Respects, RowsKept
  <2>3. QED
    BY <1>1, <2>1, <2>2, FreshKept DEF Acts
<1>7. QED
  BY <1>5, <1>6

LEMMA CallGatewayActs ==
  ASSUME FreshInv, NEW w \in Workers, CallGateway(w)
  PROVE  Acts
<1>0. StatementInv' /\ StatementInv /\ RowsAndWorkers
  BY WorkerKeepsStatementInv DEF FreshInv, LiveInv, WorkerStatement
<1>1. VerifyPayment(w) \/ Charge(w)
  BY DEF CallGateway
<1>2. worker \in [Workers -> WorkerState]
  BY <1>0 DEF RowsAndWorkers, TypeOK, WorkerTypeOK
<1>3. UNCHANGED dbVars /\ \A v \in Workers \ {w} : worker'[v] = worker[v]
  BY <1>1, <1>2 DEF VerifyPayment, Charge, Goto
<1>4. EngineStep
  BY <1>1 DEF EngineStep, WorkerStep
<1>5. tx[w] = NoTx /\ tx' = tx
  BY DEF CallGateway
<1>6. QED
  BY <1>0, <1>3, <1>4, <1>5, MemoryActs

(* A finalizing transaction that is rolled back: not for a lost lease. *)
LEMMA RaisingActs ==
  ASSUME CommitsMayAbort, FreshInv, NEW w \in Workers, ReadJobOfOther(w) \/ WorkerAborts(w)
  PROVE  Acts
<1>0. StatementInv' /\ StatementInv /\ RowsAndWorkers /\ TypeOK
  BY WorkerKeepsStatementInv DEF FreshInv, LiveInv, RowsAndWorkers, WorkerStatement
<1>1. CASE ReadJobOfOther(w) \/ (WorkerAborts(w) /\ tx[w].op = "finalize")
  <2>1. Raise(w) /\ UNCHANGED <<dbVars, store, crashes>>
    BY <1>1 DEF ReadJobOfOther, WorkerAborts
  <2>2. worker[w].pc \in FinalizePc \cup {"evaluating", "ambiguous"}
    BY <1>0, <1>1, FinalizeKnows DEF ReadJobOfOther, FinalizeStage
  <2>3. FinalizeRaises(w)
    BY <2>1, <2>2 DEF Raise, Release, FinalizeRaises
  <2>4. EngineStep
    BY <2>3 DEF EngineStep, WorkerStep
  <2>5. \A v \in Workers \ {w} : worker'[v] = worker[v]
    BY <1>0, <2>1, RaisingIsSound
  <2>6. (tx[w] = NoTx /\ tx' = tx) \/ Close(w)
    BY <1>1 DEF ReadJobOfOther, WorkerAborts
  <2>7. UNCHANGED dbVars
    BY <2>1
  <2>8. QED
    BY <1>0, <2>4, <2>5, <2>6, <2>7, MemoryActs
<1>2. CASE WorkerAborts(w) /\ tx[w].op # "finalize"
  <2>1. UNCHANGED vars /\ Close(w)
    BY <1>2 DEF WorkerAborts, vars, workerVars
  <2>2. QED
    BY <1>0, <2>1, SilentCloseActs DEF Tx
<1>3. QED
  BY <1>1, <1>2

(* A worker that has only selected a job has nothing to lose. *)
LEMMA KillActs ==
  ASSUME FreshInv, NEW w \in Workers, Kill(w)
  PROVE  Acts
<1>0. StatementInv' /\ StatementInv /\ RowsAndWorkers /\ TypeOK
  BY KillKeepsInv DEF FreshInv, LiveInv, RowsAndWorkers
<1>1. /\ Release(w) /\ Close(w) /\ UNCHANGED dbVars /\ UNCHANGED store
      /\ crashes < MaxCrashes
      /\ crashes' = IF worker[w].pc = "idle" THEN crashes ELSE crashes + 1
  BY DEF Kill
<1>2. CASE worker[w].pc = "idle"
  <2>1. worker[w] = Idle
    BY <1>2 DEF FreshInv, LiveInv, MemoriesFit
  <2>2. worker' = worker
    BY <1>0, <1>1, <2>1 DEF Release, TypeOK, WorkerTypeOK
  <2>3. UNCHANGED vars
    BY <1>1, <1>2, <2>2 DEF vars, workerVars
  <2>4. QED
    BY <1>0, <1>1, <2>3, SilentCloseActs DEF Tx
<1>3. CASE worker[w].pc # "idle"
  <2>1. Crash(w)
    BY <1>1, <1>3 DEF Crash
  <2>2. EngineStep
    BY <2>1 DEF EngineStep
  <2>3. \A v \in Workers \ {w} : worker'[v] = worker[v]
    BY <1>0, <1>1, RaisingIsSound
  <2>4. QED
    BY <1>0, <1>1, <2>2, <2>3, MemoryActs
<1>4. QED
  BY <1>2, <1>3

(* A lease expires only while nobody works on its job. *)
LEMMA ExpireActs ==
  ASSUME LeasesOutlast, FreshInv, NEW j \in JobIds, Expire(j)
  PROVE  Acts
<1>0. StatementInv' /\ StatementInv /\ LiveInv /\ RowsAndWorkers
  BY ExpireKeepsInv DEF FreshInv, LiveInv
<1>1. /\ jobs[j].status = "RUNNING" /\ jobs' = [jobs EXCEPT ![j].expired = TRUE]
      /\ cases' = cases /\ attempts' = attempts /\ worker' = worker /\ tx' = tx
  BY DEF Expire, LeaseExpires, workerVars
<1>2. EngineStep
  BY DEF Expire, EngineStep
<1>3. jobs \in [JobIds -> JobRow]
  BY <1>0 DEF RowsAndWorkers, TypeOK, DbTypeOK
<1>4. RowsKept
  BY <1>1, <1>3 DEF RowsKept, SameReferences, CaseExists, JobExists, JobRow
<1>5. \A i \in JobIds : jobs'[i] # jobs[i] => jobs[i].status = "RUNNING"
  BY <1>1, <1>3
<1>6. \A u \in Tx : Leaves(u)
  BY <1>1, <1>4, <1>5 DEF Leaves
<1>7. \A u \in Tx : PendingFresh(u)' /\ RetryFresh(u)' /\ FinalizeFresh(u)'
  BY <1>0, <1>6, PendingStaysFresh, RetryStaysFresh, FinalizeStaysFresh
     DEF FreshInv, ReadsFresh
<1>8. ReadsFresh' /\ RowsAndWorkers'
  BY <1>0, <1>7 DEF ReadsFresh, Tx, StatementInv
<1>9. QED
  BY <1>0, <1>2, <1>8, EngineKeepsLive DEF Acts, FreshInv

-----------------------------------------------------------------------------
(* The second transaction of a worker commits. *)

(* Whatever the flush left out, tables and rows are as if it had not.      *)
LEMMA FinalizedTables ==
  ASSUME FreshInv, NEW w \in Workers, NEW k \in JobIds, CommitFinalize(w, k),
         NEW j, j = Job(w), NEW c, c = jobs[j].case
  PROVE  /\ IF NextJob(w) = "none" THEN EndJob(j, JobOutcome(w))
            ELSE EndJobAndQueue(j, JobOutcome(w), k, NextJob(w))
         /\ IF AttemptOutcome(w) = "none" THEN UNCHANGED attempts
            ELSE SettleAttempt(w, AttemptOutcome(w))
         /\ IF AttemptOutcome(w) = "SUCCEEDED"
            THEN payments' = [payments EXCEPT ![PaymentOf(j)].status = "SUCCEEDED"]
            ELSE UNCHANGED payments
         /\ \/ CaseOutcome(w) = "none" /\ UNCHANGED cases
            \/ CaseOutcome(w) # "none" /\ SetCase(c, CaseOutcome(w))
            \/ /\ CaseOutcome(w) = "STOPPED" /\ tx[w].answer = "none"
               /\ cases[c].status = "RECOVERED" /\ UNCHANGED cases
<1> DEFINE saved == IF Holds(w, "change", JobRowOf(j))
                    THEN [jobs EXCEPT ![j] = Ended(j, JobOutcome(w))] ELSE jobs
<1> PICK n : n = worker[w].attempt
  OBVIOUS
<1> PICK p : p = PaymentOf(j)
  OBVIOUS
<1>1. /\ tx[w].op = "finalize" /\ tx[w].at = "save" /\ tx[w].want = {}
      /\ NextJob(w) # "none" => ~JobExists(k)
      /\ jobs' = IF NextJob(w) = "none" THEN saved
                 ELSE [saved EXCEPT ![k] = NewJob(c, NextJob(w), jobs[j].count)]
      /\ attempts' = IF n # 0 /\ Holds(w, "change", AttemptRow(c, n))
                     THEN [attempts EXCEPT ![c][n] = AttemptOutcome(w)]
                     ELSE attempts
      /\ cases' = IF Holds(w, "change", CaseRowOf(c))
                  THEN [cases EXCEPT ![c].status = CaseOutcome(w)] ELSE cases
      /\ payments' = IF Holds(w, "change", PaymentRowOf(p))
                     THEN [payments EXCEPT ![p].status = "SUCCEEDED"]
                     ELSE payments
  BY DEF CommitFinalize, At
<1> HIDE DEF saved
<1>2. /\ StatementInv /\ FinalizeStage(w) /\ tx[w].job = j /\ worker[w].pc # "idle"
      /\ j \in JobIds /\ JobExists(j) /\ c \in CaseIds /\ p \in PaymentIds
      /\ n \in AttemptNos \cup {0}
  BY <1>1, FinalizeKnows DEF FreshInv
<1>3. /\ payments \in [PaymentIds -> PaymentRow] /\ cases \in [CaseIds -> CaseRow]
      /\ jobs \in [JobIds -> JobRow]
      /\ attempts \in [CaseIds -> [AttemptNos -> AttemptState \cup {"ABSENT"}]]
  BY <1>2 DEF StatementInv, RowsAndWorkers, TypeOK, DbTypeOK
<1>4. \A m, r : Takes(w, m, r) <=> Holds(w, m, r)
  BY <1>1 DEF Takes, Holds
<1>5. FinalizeFresh(w) /\ w \in Tx
  BY DEF FreshInv, ReadsFresh, Tx
<1>6. /\ Holds(w, "change", JobRowOf(j))
      /\ n # 0 => \/ Holds(w, "change", AttemptRow(c, n))
                  \/ attempts[c][n] = AttemptOutcome(w)
      /\ CaseOutcome(w) # "none" =>
            \/ Holds(w, "change", CaseRowOf(c))
            \/ cases[c].status = CaseOutcome(w)
            \/ /\ CaseOutcome(w) = "STOPPED" /\ tx[w].answer = "none"
               /\ cases[c].status = "RECOVERED"
  BY <1>1, <1>2, <1>4, <1>5 DEF FinalizeFresh
<1>7. /\ Holds(w, "change", CaseRowOf(c)) => CaseOutcome(w) # "none"
      /\ Holds(w, "change", PaymentRowOf(p)) => AttemptOutcome(w) = "SUCCEEDED"
      /\ AttemptOutcome(w) = "SUCCEEDED" => Holds(w, "change", PaymentRowOf(p)) \/ Paid(p)
  BY <1>1, <1>2, <1>4 DEF FinalizeStage
<1>8. AttemptOutcome(w) = "none" <=> n = 0
  <2>1. worker[w].pc = "evaluating" <=> n = 0
    BY <1>2, KnowsAttempt DEF FreshInv
  <2>2. QED
    BY <2>1 DEF AttemptOutcome
<1>9. saved = [jobs EXCEPT ![j] = Ended(j, JobOutcome(w))]
  BY <1>6 DEF saved
<1>10. IF NextJob(w) = "none" THEN EndJob(j, JobOutcome(w))
       ELSE EndJobAndQueue(j, JobOutcome(w), k, NextJob(w))
  BY <1>1, <1>9 DEF EndJob, EndJobAndQueue
<1>11. IF AttemptOutcome(w) = "none" THEN UNCHANGED attempts
       ELSE SettleAttempt(w, AttemptOutcome(w))
  <2>1. CASE n = 0
    BY <1>1, <1>8, <2>1
  <2>2. CASE n # 0 /\ Holds(w, "change", AttemptRow(c, n))
    BY <1>1, <1>8, <2>2 DEF SettleAttempt
  <2>3. CASE n # 0 /\ attempts[c][n] = AttemptOutcome(w)
            /\ ~Holds(w, "change", AttemptRow(c, n))
    <3>1. [attempts EXCEPT ![c][n] = AttemptOutcome(w)] = attempts
      BY <1>2, <1>3, <2>3
    <3>2. QED
      BY <1>1, <1>8, <2>3, <3>1 DEF SettleAttempt
  <2>4. QED
    BY <1>6, <2>1, <2>2, <2>3
<1>12. IF AttemptOutcome(w) = "SUCCEEDED"
       THEN payments' = [payments EXCEPT ![p].status = "SUCCEEDED"]
       ELSE UNCHANGED payments
  <2>1. CASE Holds(w, "change", PaymentRowOf(p))
    BY <1>1, <1>7, <2>1
  <2>2. CASE ~Holds(w, "change", PaymentRowOf(p)) /\ AttemptOutcome(w) = "SUCCEEDED"
    <3>1. payments[p].status = "SUCCEEDED" /\ payments[p] \in PaymentRow
      BY <1>2, <1>3, <1>7, <2>2 DEF Paid
    <3>2. [payments[p] EXCEPT !.status = "SUCCEEDED"] = payments[p]
      BY <3>1 DEF PaymentRow
    <3>3. [payments EXCEPT ![p].status = "SUCCEEDED"] = payments
      BY <1>2, <1>3, <3>2
    <3>4. QED
      BY <1>1, <2>2, <3>3
  <2>3. CASE ~Holds(w, "change", PaymentRowOf(p)) /\ AttemptOutcome(w) # "SUCCEEDED"
    BY <1>1, <2>3
  <2>4. QED
    BY <2>1, <2>2, <2>3
<1>13. \/ CaseOutcome(w) = "none" /\ UNCHANGED cases
       \/ CaseOutcome(w) # "none" /\ SetCase(c, CaseOutcome(w))
       \/ /\ CaseOutcome(w) = "STOPPED" /\ tx[w].answer = "none"
          /\ cases[c].status = "RECOVERED" /\ UNCHANGED cases
  <2>1. CASE Holds(w, "change", CaseRowOf(c))
    BY <1>1, <1>7, <2>1 DEF SetCase
  <2>2. CASE ~Holds(w, "change", CaseRowOf(c)) /\ CaseOutcome(w) = "none"
    BY <1>1, <2>2
  <2>3. CASE ~Holds(w, "change", CaseRowOf(c)) /\ cases[c].status = CaseOutcome(w)
             /\ CaseOutcome(w) # "none"
    <3>1. [cases[c] EXCEPT !.status = CaseOutcome(w)] = cases[c]
      BY <1>2, <1>3, <2>3 DEF CaseRow
    <3>2. [cases EXCEPT ![c].status = CaseOutcome(w)] = cases
      BY <1>2, <1>3, <3>1
    <3>3. QED
      BY <1>1, <2>3, <3>2 DEF SetCase
  <2>4. CASE ~Holds(w, "change", CaseRowOf(c)) /\ CaseOutcome(w) = "STOPPED"
             /\ tx[w].answer = "none" /\ cases[c].status = "RECOVERED"
    BY <1>1, <2>4
  <2>5. QED
    BY <1>6, <2>1, <2>2, <2>3, <2>4
<1>14. QED
  BY <1>10, <1>11, <1>12, <1>13

LEMMA FinalizedEvaluation ==
  ASSUME FreshInv, NEW w \in Workers, NEW k \in JobIds, CommitFinalize(w, k),
         worker[w].pc = "evaluating"
  PROVE  FinalizeEvaluation(w)
<1> PICK j : j = Job(w)
  OBVIOUS
<1> PICK c : c = jobs[j].case
  OBVIOUS
<1>1. /\ tx[w].op = "finalize" /\ tx[w].at = "save" /\ Release(w)
      /\ UNCHANGED <<handled, store, crashes>>
  BY DEF CommitFinalize, At
<1>2. /\ FinalizeStage(w) /\ tx[w].job = j /\ RowsAndWorkers
  BY <1>1, FinalizeKnows DEF FreshInv, StatementInv
<1>3. AttemptOutcome(w) = "none" /\ AttemptsLeft(j)
  BY <1>2, EvaluationLeavesBudget DEF AttemptOutcome
<1>4. GivesUp(w) <=> tx[w].answer = "ABORT"
  BY <1>3 DEF GivesUp
<1>5. CaseOutcome(w) = IF tx[w].answer = "ABORT" THEN "STOPPED" ELSE "none"
  BY <1>3, <1>4 DEF CaseOutcome
<1>6. NextJob(w) = IF tx[w].answer \in {"ABORT", "late"} THEN "none"
                   ELSE IF tx[w].answer = "CHARGE" THEN "EXECUTE_CHARGE"
                   ELSE "EVALUATE_RECOVERY"
  BY <1>3, <1>4 DEF NextJob
<1>7. JobOutcome(w) = IF tx[w].answer = "error" THEN "FAILED"
                      ELSE IF tx[w].answer = "late" THEN "CANCELLED" ELSE "SUCCEEDED"
  BY DEF JobOutcome
<1>8. /\ IF NextJob(w) = "none" THEN EndJob(j, JobOutcome(w))
         ELSE EndJobAndQueue(j, JobOutcome(w), k, NextJob(w))
      /\ UNCHANGED attempts /\ UNCHANGED payments
  BY <1>3, FinalizedTables
<1>9. IF tx[w].answer = "ABORT" THEN SetCase(c, "STOPPED") ELSE UNCHANGED cases
  BY <1>5, FinalizedTables
<1>10. Deciding(w)
  BY DEF FreshInv, LiveInv, LeasesKept, Deciding, HoldsLease
<1>11. tx[w].answer \in {"error", "CHARGE", "ABORT", "DELAY", "late"}
  BY <1>1, <1>2, FinalizeKnows DEF FreshInv, TxState, FinalizeStage
<1>12. tx[w].answer # "error" => (Paid(PaymentOf(j)) <=> tx[w].answer = "late")
  BY <1>1, <1>2, <1>11 DEF FinalizeStage, Decisions
<1>13. CASE tx[w].answer = "error"
  <2>1. EvaluationFails(w, k)
    BY <1>1, <1>3, <1>6, <1>7, <1>8, <1>9, <1>10, <1>13 DEF EvaluationFails, Deciding
  <2>2. QED
    BY <2>1 DEF FinalizeEvaluation
<1>14. CASE tx[w].answer = "late"
  <2>1. DecisionTooLate(w)
    BY <1>1, <1>6, <1>7, <1>8, <1>9, <1>10, <1>12, <1>14 DEF DecisionTooLate
  <2>2. QED
    BY <2>1 DEF FinalizeEvaluation
<1>15. CASE tx[w].answer = "CHARGE"
  <2>1. DecideCharge(w, k)
    BY <1>1, <1>6, <1>7, <1>8, <1>9, <1>10, <1>12, <1>15 DEF DecideCharge
  <2>2. QED
    BY <2>1 DEF FinalizeEvaluation
<1>16. CASE tx[w].answer = "DELAY"
  <2>1. DecideDelay(w, k)
    BY <1>1, <1>6, <1>7, <1>8, <1>9, <1>10, <1>12, <1>16 DEF DecideDelay
  <2>2. QED
    BY <2>1 DEF FinalizeEvaluation
<1>17. CASE tx[w].answer = "ABORT"
  <2>1. DecideAbort(w)
    BY <1>1, <1>6, <1>7, <1>8, <1>9, <1>10, <1>12, <1>17 DEF DecideAbort
  <2>2. QED
    BY <2>1 DEF FinalizeEvaluation
<1>18. QED
  BY <1>11, <1>13, <1>14, <1>15, <1>16, <1>17

LEMMA FinalizedCharge ==
  ASSUME FreshInv, NEW w \in Workers, NEW k \in JobIds, CommitFinalize(w, k),
         worker[w].pc # "evaluating"
  PROVE  FinalizeJob(w)
<1> PICK j : j = Job(w)
  OBVIOUS
<1> PICK c : c = jobs[j].case
  OBVIOUS
<1>1. /\ tx[w].op = "finalize" /\ Release(w) /\ UNCHANGED <<handled, store, crashes>>
  BY DEF CommitFinalize, At
<1>2. tx[w].answer = "none" /\ worker[w].pc \in FinalizePc \cup {"ambiguous"}
  BY <1>1, FinalizeKnows DEF FreshInv, FinalizeStage
<1>3. HoldsLease(w) /\ (worker[w].pc # "ambiguous" => Finalizing(w))
  BY <1>2 DEF FreshInv, LiveInv, LeasesKept, HoldsLease, Finalizing, FinalizePc
<1>4. worker[w].pc # "ambiguous" => worker[w].result \in {"succeeded", "failed"}
  BY <1>2 DEF FreshInv, LiveInv, MemoriesFit, GatewayResult
<1>5. /\ IF NextJob(w) = "none" THEN EndJob(j, JobOutcome(w))
         ELSE EndJobAndQueue(j, JobOutcome(w), k, NextJob(w))
      /\ IF AttemptOutcome(w) = "SUCCEEDED"
         THEN payments' = [payments EXCEPT ![PaymentOf(j)].status = "SUCCEEDED"]
         ELSE UNCHANGED payments
  BY FinalizedTables
<1>6. /\ IF AttemptOutcome(w) = "none" THEN UNCHANGED attempts
         ELSE SettleAttempt(w, AttemptOutcome(w))
      /\ \/ CaseOutcome(w) = "none" /\ UNCHANGED cases
         \/ CaseOutcome(w) # "none" /\ SetCase(c, CaseOutcome(w))
         \/ /\ CaseOutcome(w) = "STOPPED" /\ cases[c].status = "RECOVERED"
            /\ UNCHANGED cases
  BY FinalizedTables
<1>7. GivesUp(w) <=> ~AttemptsLeft(j) /\ AttemptOutcome(w) = "FAILED"
  BY <1>2 DEF GivesUp
<1>8. CASE worker[w].pc = "ambiguous"
  <2>1. AttemptOutcome(w) = "AMBIGUOUS" /\ JobOutcome(w) = "PENDING"
    BY <1>8 DEF AttemptOutcome, JobOutcome
  <2>2. NextJob(w) = "none" /\ CaseOutcome(w) = "none"
    BY <1>7, <2>1 DEF NextJob, CaseOutcome
  <2>3. FinalizeAmbiguous(w)
    BY <1>1, <1>3, <1>5, <1>6, <1>8, <2>1, <2>2 DEF FinalizeAmbiguous
  <2>4. QED
    BY <2>3 DEF FinalizeJob
<1>9. CASE worker[w].pc # "ambiguous" /\ worker[w].result = "succeeded"
  <2>1. AttemptOutcome(w) = "SUCCEEDED" /\ JobOutcome(w) = "SUCCEEDED"
    BY <1>2, <1>9 DEF AttemptOutcome, JobOutcome
  <2>2. NextJob(w) = "none" /\ CaseOutcome(w) = "RECOVERED"
    BY <1>7, <2>1 DEF NextJob, CaseOutcome
  <2>3. FinalizeSuccess(w)
    BY <1>1, <1>3, <1>5, <1>6, <1>9, <2>1, <2>2 DEF FinalizeSuccess
  <2>4. QED
    BY <2>3 DEF FinalizeJob
<1>10. CASE worker[w].pc # "ambiguous" /\ worker[w].result = "failed"
  <2>1. AttemptOutcome(w) = "FAILED" /\ JobOutcome(w) = "SUCCEEDED"
    BY <1>2, <1>10 DEF AttemptOutcome, JobOutcome
  <2>2. CASE AttemptsLeft(j)
    <3>1. NextJob(w) = "EVALUATE_RECOVERY" /\ CaseOutcome(w) = "none"
      BY <1>2, <1>7, <2>1, <2>2 DEF NextJob, CaseOutcome
    <3>2. FinalizeFailure(w, k)
      BY <1>1, <1>3, <1>5, <1>6, <1>10, <2>1, <2>2, <3>1 DEF FinalizeFailure
    <3>3. QED
      BY <3>2 DEF FinalizeJob
  <2>3. CASE ~AttemptsLeft(j)
    <3>1. NextJob(w) = "none" /\ CaseOutcome(w) = "STOPPED"
      BY <1>7, <2>1, <2>3 DEF NextJob, CaseOutcome
    <3>2. \/ SetCase(c, "STOPPED")
          \/ cases[c].status = "RECOVERED" /\ UNCHANGED cases
      BY <1>6, <3>1
    <3>3. FinalizeExhausted(w)
      BY <1>1, <1>3, <1>5, <1>6, <1>10, <2>1, <2>3, <3>1, <3>2 DEF FinalizeExhausted
    <3>4. QED
      BY <3>3 DEF FinalizeJob
  <2>4. QED
    BY <2>2, <2>3
<1>11. QED
  BY <1>4, <1>8, <1>9, <1>10

LEMMA CommitFinalizeActs ==
  ASSUME FreshInv, NEW w \in Workers, NEW k \in JobIds, CommitFinalize(w, k)
  PROVE  Acts
<1>0. StatementInv' /\ StatementInv /\ w \in Tx
  BY WorkerKeepsStatementInv DEF FreshInv, WorkerStatement, Tx
<1>1. /\ tx[w].op = "finalize" /\ tx[w].at = "save" /\ tx[w].want = {}
      /\ Close(w) /\ Release(w)
  BY DEF CommitFinalize, At
<1> PICK j \in JobIds : j = Job(w)
  BY <1>0, <1>1, FinalizeKnows
<1> PICK c \in CaseIds : c = jobs[j].case
  BY <1>0, <1>1, FinalizeKnows
<1>2. FinalizeStage(w) /\ worker[w].pc # "idle" /\ CaseExists(c) /\ tx[w].job = j
  BY <1>0, <1>1, FinalizeKnows
<1>3. EngineStep
  <2>1. FinalizeEvaluation(w) \/ FinalizeJob(w)
    BY FinalizedEvaluation, FinalizedCharge
  <2>2. QED
    BY <2>1 DEF EngineStep, WorkerStep
<1>4. CasesKept /\ JobsKept
  BY <1>0, FinalizeIsQuiet
<1>5. RowsKept
  BY <1>4, KeptRows
<1>6. \A v \in Workers \ {w} : worker'[v] = worker[v]
  BY <1>0, <1>1 DEF Release, StatementInv, RowsAndWorkers, TypeOK, WorkerTypeOK
<1>7. JobsUnderCases(w)
  <2>1. jobs[j].status = "RUNNING"
    BY <1>2 DEF FreshInv, LiveInv, LeasesKept
  <2>2. /\ \A i \in JobIds : JobExists(i) => jobs'[i] = jobs[i] \/ i = j
        /\ \A i \in JobIds : ~JobExists(i) =>
              \/ jobs'[i] = jobs[i]
              \/ NextJob(w) # "none" /\ jobs'[i] = NewJob(c, NextJob(w), jobs[j].count)
    BY <1>0, CommittedRows
  <2>3. NextJob(w) # "none" => Holds(w, "refer", CaseRowOf(c))
    BY <1>1, <1>2 DEF FinalizeStage, Takes, Holds
  <2>4. ASSUME NEW i \in JobIds, jobs'[i] # jobs[i]
        PROVE  \/ jobs[i].status = "RUNNING"
               \/ jobs'[i].case = c /\ Holds(w, "refer", CaseRowOf(c))
    BY <2>1, <2>2, <2>3, <2>4 DEF NewJob
  <2>5. QED
    BY <2>4 DEF JobsUnderCases
<1>8. AttemptsOwn(w)
  <2>1. \A d \in CaseIds, m \in AttemptNos : attempts'[d][m] = attempts[d][m] \/ d = c
    BY <1>0, CommittedRows
  <2>2. QED
    BY <1>2, <2>1 DEF AttemptsOwn
<1>9. CasesOwn(w)
  <2>1. \A d \in CaseIds :
           \/ cases'[d] = cases[d]
           \/ /\ d = c /\ Holds(w, "change", CaseRowOf(c))
              /\ cases'[d] = [cases[d] EXCEPT !.status = CaseOutcome(w)]
    BY <1>0, CommittedRows
  <2>2. QED
    BY <1>2, <2>1 DEF CasesOwn, Locked
<1>10. QED
  BY <1>0, <1>1, <1>3, <1>4, <1>5, <1>6, <1>7, <1>8, <1>9, WorkerCommitActs

-----------------------------------------------------------------------------
LEMMA InitFresh == StatementInit => FreshInv
<1> SUFFICES ASSUME StatementInit PROVE FreshInv
  OBVIOUS
<1>1. StatementInv /\ RowsAndWorkers
  BY InitStatementInv DEF StatementInv
<1>2. /\ \A t \in Tx : tx[t] = NoTx
      /\ \A w \in Workers : worker[w] = Idle
      /\ \A c \in CaseIds : ~CaseExists(c)
      /\ \A j \in JobIds : jobs[j].status = "ABSENT"
  BY DEF StatementInit, LocksInit, Init, WorkerInit, DbInit, CaseExists, NoCase, NoJob, NewJob
<1>3. OneLiveJobPerCase /\ OneActiveCase
  BY <1>2 DEF OneLiveJobPerCase, LiveJob, OneActiveCase, ActiveCase
<1>4. LeasesKept /\ MemoriesFit
  BY <1>2 DEF LeasesKept, MemoriesFit, Idle, FinalizePc
<1>5. ReadsFresh
  BY <1>2 DEF ReadsFresh, PendingFresh, RetryFresh, FinalizeFresh, NoTx
<1>6. QED
  BY <1>1, <1>3, <1>4, <1>5 DEF FreshInv, LiveInv

LEMMA StatementActs ==
  ASSUME LeasesOutlast, CommitsMayAbort, FreshInv, StatementNext
  PROVE  Acts
<1>1. ASSUME NEW r \in Requests, RequestStatement(r)
      PROVE  Acts
  <2>1. CASE DeliveryStep(r)
    BY <2>1, DeliveryReadsActs, RecordingActs, InsertCaseActs, ReadsPendingActs,
       CommitSuccessActs DEF DeliveryStep
  <2>2. CASE AdminStep(r) \/ RequestAborts(r)
    BY <2>2, AdminReadsActs, ReadsPendingActs, ClosingActs, CommitRetryActs DEF AdminStep
  <2>3. CASE Acquire(r)
    BY <2>3, AcquireActs DEF Tx
  <2>4. QED
    BY <1>1, <2>1, <2>2, <2>3 DEF RequestStatement
<1>2. ASSUME NEW w \in Workers, WorkerStatement(w)
      PROVE  Acts
  BY <1>2, WorkerReadsActs, CommitClaimActs, CallGatewayActs, RaisingActs, LoadRowsActs,
     CommitFinalizeActs, AcquireActs DEF WorkerStatement, Tx
<1>3. QED
  BY <1>1, <1>2, KillActs, ExpireActs DEF StatementNext

LEMMA StutterActs ==
  ASSUME FreshInv, UNCHANGED stmtVars
  PROVE  Acts
<1>1. UNCHANGED vars /\ tx' = tx /\ acked' = acked
  BY DEF stmtVars
<1>2. /\ cases' = cases /\ jobs' = jobs /\ attempts' = attempts /\ worker' = worker
  BY <1>1 DEF vars, dbVars, workerVars
<1>3. StatementInv' /\ EngineStep /\ LiveInv
  BY <1>1, StepKeepsStatementInv DEF FreshInv, EngineStep
<1>4. \A u \in Tx : Leaves(u)
  BY <1>1, <1>2 DEF Leaves, RowsKept, SameReferences, CaseExists, JobExists
<1>5. \A u \in Tx : PendingFresh(u)' /\ RetryFresh(u)' /\ FinalizeFresh(u)'
  BY <1>3, <1>4, PendingStaysFresh, RetryStaysFresh, FinalizeStaysFresh
     DEF FreshInv, ReadsFresh
<1>6. ReadsFresh' /\ RowsAndWorkers'
  BY <1>3, <1>5 DEF ReadsFresh, Tx, StatementInv
<1>7. QED
  BY <1>3, <1>6, EngineKeepsLive DEF Acts, FreshInv

(* While leases outlast the work of their holders, what a transaction has  *)
(* read without a lock is still so when it commits.                        *)
THEOREM FreshInvariant ==
  ASSUME LeasesOutlast, CommitsMayAbort
  PROVE  StatementSpec => []FreshInv
<1>1. FreshInv /\ [StatementNext]_stmtVars => FreshInv'
  BY StatementActs, StutterActs DEF Acts
<1>2. QED
  BY <1>1, InitFresh, PTL DEF StatementSpec

(* Statement by statement, with waits, deadlocks, victims and kills, the   *)
(* tables change as if every transaction were one step of the engine.      *)
THEOREM TransactionsAreAtomicHolds ==
  ASSUME LeasesOutlast, CommitsMayAbort
  PROVE  StatementSpec => TransactionsAreAtomic
<1>1. FreshInv /\ [StatementNext]_stmtVars => [Next]_vars
  BY StatementActs, StutterActs, EngineSteps DEF Acts
<1>2. StatementInit => Init
  BY DEF StatementInit
<1>3. QED
  BY <1>1, <1>2, FreshInvariant, PTL DEF StatementSpec, TransactionsAreAtomic

-----------------------------------------------------------------------------
(* Locks in order. *)

LEMMA OrderKept ==
  ASSUME OrderInv, NEW t \in Tx, \A u \in Tx \ {t} : tx'[u] = tx[u], OrderStage(t)'
  PROVE  OrderInv'
<1> SUFFICES ASSUME NEW u \in Tx, u # t PROVE OrderStage(u)'
  BY DEF OrderInv, Tx
<1>1. OrderStage(u) /\ tx'[u] = tx[u]
  BY DEF OrderInv
<1>2. u \in OrderedTx' <=> u \in OrderedTx
  BY <1>1 DEF OrderedTx, Tx
<1>3. LocksInOrder(u) => LocksInOrder(u)'
  BY <1>1 DEF LocksInOrder, FirstLock, Holds, CaseUpdates, PaymentUpdates, CaseRowOf,
     PaymentRowOf, JobRowOf, Lock
<1>4. QED
  BY <1>1, <1>2, <1>3 DEF OrderStage

(* A transaction that does not lock in order has nothing to keep to. *)
LEMMA FreeOfOrder ==
  ASSUME NEW t \in Tx, tx'[t].op \notin {"claim", "retry"}, tx'[t].answer = "none"
  PROVE  OrderStage(t)'
BY DEF OrderStage, OrderedTx, Tx

LEMMA ClosingKeepsOrder ==
  ASSUME LocksTypeOK, OrderInv, NEW t \in Tx, Close(t)
  PROVE  OrderInv'
<1>1. tx'[t] = NoTx /\ \A u \in Tx \ {t} : tx'[u] = tx[u]
  BY CloseKeepsStage
<1>2. QED
  BY <1>1, FreeOfOrder, OrderKept DEF NoTx

LEMMA FreeKeepsOrder ==
  ASSUME OrderInv, NEW t \in Tx, tx[t].op \in {"webhook", "stop"},
         tx'[t].op = tx[t].op, tx'[t].answer = tx[t].answer,
         \A u \in Tx \ {t} : tx'[u] = tx[u]
  PROVE  OrderInv'
<1>1. tx[t].answer = "none"
  BY DEF OrderInv, OrderStage
<1>2. QED
  BY <1>1, FreeOfOrder, OrderKept

LEMMA AskedFields ==
  ASSUME LocksTypeOK, NEW t \in Tx, NEW locks, NEW s, Ask(t, locks, s)
  PROVE  /\ \A u \in Tx \ {t} : tx'[u] = tx[u]
         /\ tx'[t].op = tx[t].op /\ tx'[t].at = s /\ tx'[t].job = tx[t].job
         /\ tx'[t].answer = tx[t].answer /\ tx'[t].held = tx[t].held
         /\ tx'[t].want = locks \ tx[t].held
  BY DEF LocksTypeOK, Ask, TxState

LEMMA OpenedFields ==
  ASSUME LocksTypeOK, NEW t \in Tx, NEW fields, Open(t, fields)
  PROVE  tx'[t] = fields /\ \A u \in Tx \ {t} : tx'[u] = tx[u]
  BY DEF LocksTypeOK, Open

LEMMA DeliveryKeepsOrder ==
  ASSUME LocksTypeOK, OrderInv, NEW r \in Requests, DeliveryStep(r)
  PROVE  OrderInv'
<1> r \in Tx
  BY DEF Tx
<1>1. CASE Close(r)
  BY <1>1, ClosingKeepsOrder
<1>2. CASE Deliver(r)
  <2>1. PICK e \in Events :
           Open(r, [NoTx EXCEPT !.op = "webhook", !.event = e, !.at = "dedupe",
                                !.want = {Lock("update", EventRow(e.id))}])
    BY <1>2 DEF Deliver
  <2> DEFINE x == [NoTx EXCEPT !.op = "webhook", !.event = e, !.at = "dedupe",
                               !.want = {Lock("update", EventRow(e.id))}]
  <2>2. x.op = "webhook" /\ x.answer = "none"
    BY DEF NoTx
  <2>3. Open(r, x)
    BY <2>1
  <2> HIDE DEF x
  <2>4. tx'[r] = x /\ \A u \in Tx \ {r} : tx'[u] = tx[u]
    BY <2>3, OpenedFields
  <2>5. QED
    BY <2>2, <2>4, FreeOfOrder, OrderKept
<1>3. CASE Dedupe(r) /\ ~Close(r)
  <2>1. /\ tx[r].op = "webhook" /\ tx'[r].op = tx[r].op /\ tx'[r].answer = tx[r].answer
        /\ \A u \in Tx \ {r} : tx'[u] = tx[u]
    BY <1>3 DEF Dedupe, At, LocksTypeOK, TxState
  <2>2. QED
    BY <2>1, FreeKeepsOrder
<1>4. CASE (ApplyFailure(r) \/ ApplySuccess(r) \/ CancelJobs(r)) /\ ~Close(r)
  <2>1. tx[r].op = "webhook"
    BY <1>4 DEF ApplyFailure, ApplySuccess, Applying, CancelJobs, At
  <2>2. \E locks, s : Ask(r, locks, s)
    BY <1>4 DEF ApplyFailure, ApplySuccess, CancelJobs, Commit200
  <2>3. QED
    BY <2>1, <2>2, AskedFields, FreeKeepsOrder
<1>5. QED
  BY <1>1, <1>2, <1>3, <1>4 DEF DeliveryStep, WebhookFails, ApplyToTerminal, InsertCase,
     InsertFails, CommitSuccess, Commit200

LEMMA AdminKeepsOrder ==
  ASSUME LocksTypeOK, RowsRefer, Stages, OrderInv, NEW r \in Requests,
         AdminStep(r) \/ RequestAborts(r)
  PROVE  OrderInv'
<1> r \in Tx
  BY DEF Tx
<1>1. CASE Close(r)
  BY <1>1, ClosingKeepsOrder
<1>2. ASSUME NEW c \in CaseIds, BeginAdmin(r, c)
      PROVE  OrderInv'
  <2>1. PICK op \in {"stop", "retry"} :
           Open(r, [NoTx EXCEPT !.op = op, !.case = c, !.at = "payment",
                                !.want = {Lock("update", CaseRowOf(c))}])
    BY <1>2 DEF BeginAdmin
  <2> DEFINE x == [NoTx EXCEPT !.op = op, !.case = c, !.at = "payment",
                               !.want = {Lock("update", CaseRowOf(c))}]
  <2>2. /\ x.op = op /\ x.at = "payment" /\ x.held = {} /\ x.answer = "none"
        /\ x.want = {Lock("update", CaseRowOf(c))}
    BY DEF NoTx
  <2>3. Open(r, x)
    BY <2>1
  <2> HIDE DEF x
  <2>4. tx'[r] = x /\ \A u \in Tx \ {r} : tx'[u] = tx[u]
    BY <2>3, OpenedFields
  <2>5. LocksInOrder(r)'
    BY <2>2, <2>4 DEF LocksInOrder, CaseRowOf, Lock
  <2>6. QED
    BY <2>2, <2>4, <2>5, OrderKept DEF OrderStage
<1>3. ASSUME LockItsPayment(r)
      PROVE  OrderInv'
  <2> PICK c \in CaseIds : c = tx[r].case
    BY <1>3 DEF LockItsPayment, At, Stages, Stage, AdminStage
  <2>1. /\ tx[r].op \in {"stop", "retry"} /\ tx[r].at = "payment" /\ tx[r].want = {}
        /\ Ask(r, {Lock("update", PaymentRowOf(cases[c].payment))}, "decide")
    BY <1>3 DEF LockItsPayment, At
  <2>2. cases[c].payment \in PaymentIds
    BY <2>1 DEF Stages, Stage, AdminStage, RowsRefer
  <2>3. CASE tx[r].op = "stop"
    BY <2>1, <2>3, AskedFields, FreeKeepsOrder
  <2>4. CASE tx[r].op = "retry"
    <3>1. LocksInOrder(r) /\ tx[r].answer = "none"
      BY <2>4 DEF OrderInv, OrderStage, OrderedTx
    <3>2. tx[r].held \subseteq CaseUpdates
      BY <2>1, <2>4, <3>1 DEF LocksInOrder, FirstLock
    <3>3. /\ \A u \in Tx \ {r} : tx'[u] = tx[u]
          /\ tx'[r].op = "retry" /\ tx'[r].at = "decide" /\ tx'[r].answer = "none"
          /\ tx'[r].held = tx[r].held
          /\ tx'[r].want \subseteq {Lock("update", PaymentRowOf(cases[c].payment))}
      BY <2>1, <2>4, <3>1, AskedFields
    <3>4. /\ \E p \in PaymentIds : tx'[r].want \subseteq {Lock("update", PaymentRowOf(p))}
          /\ CaseUpdates' = CaseUpdates
      BY <2>2, <3>3 DEF CaseUpdates, CaseRowOf, Lock
    <3>5. LocksInOrder(r)'
      BY <3>2, <3>3, <3>4 DEF LocksInOrder, PaymentRowOf, Lock
    <3>6. QED
      BY <3>3, <3>5, OrderKept DEF OrderStage
  <2>5. QED
    BY <2>1, <2>3, <2>4
<1>4. CASE StopReadsJobs(r)
  <2>1. tx[r].op = "stop" /\ \E locks, s : Ask(r, locks, s)
    BY <1>4 DEF StopReadsJobs, Ruling, At
  <2>2. QED
    BY <2>1, AskedFields, FreeKeepsOrder
<1>5. CASE RetryReadsJobs(r)
  <2>1. /\ tx[r].op = "retry" /\ tx[r].at = "decide" /\ tx[r].want = {}
        /\ Ask(r, {}, "insert")
    BY <1>5 DEF RetryReadsJobs, Ruling, At
  <2>2. LocksInOrder(r) /\ tx[r].answer = "none"
    BY <2>1 DEF OrderInv, OrderStage, OrderedTx
  <2>3. tx[r].held \subseteq CaseUpdates \cup PaymentUpdates
    BY <2>1, <2>2 DEF LocksInOrder, FirstLock
  <2>4. /\ \A u \in Tx \ {r} : tx'[u] = tx[u]
        /\ tx'[r].op = "retry" /\ tx'[r].at = "insert" /\ tx'[r].answer = "none"
        /\ tx'[r].held = tx[r].held /\ tx'[r].want = {}
    BY <2>1, <2>2, AskedFields
  <2>5. CaseUpdates' = CaseUpdates /\ PaymentUpdates' = PaymentUpdates
    BY DEF CaseUpdates, PaymentUpdates, CaseRowOf, PaymentRowOf, Lock
  <2>6. LocksInOrder(r)'
    BY <2>3, <2>4, <2>5 DEF LocksInOrder
  <2>7. QED
    BY <2>4, <2>6, OrderKept DEF OrderStage
<1>6. QED
  BY <1>1, <1>2, <1>3, <1>4, <1>5 DEF AdminStep, RejectPaid, Refuse, CommitStop, CommitRetry,
     RequestAborts

LEMMA AcquireKeepsOrder ==
  ASSUME LocksTypeOK, OrderInv, NEW t \in Tx, Acquire(t)
  PROVE  OrderInv'
<1> PICK lock \in tx[t].want :
       tx' = [tx EXCEPT ![t].want = @ \ {lock}, ![t].held = @ \cup {lock}]
  BY DEF Acquire
<1>1. /\ \A u \in Tx \ {t} : tx'[u] = tx[u]
      /\ tx'[t].op = tx[t].op /\ tx'[t].at = tx[t].at /\ tx'[t].job = tx[t].job
      /\ tx'[t].answer = tx[t].answer
      /\ tx'[t].held = tx[t].held \cup {lock} /\ tx'[t].want = tx[t].want \ {lock}
  BY DEF LocksTypeOK, TxState
<1>2. OrderStage(t)
  BY DEF OrderInv
<1>3. CASE t \notin OrderedTx
  BY <1>1, <1>2, <1>3, OrderKept DEF OrderStage, OrderedTx, Tx
<1>4. CASE t \in OrderedTx
  <2>1. LocksInOrder(t)
    BY <1>2, <1>4 DEF OrderStage
  <2>2. /\ FirstLock(t)' = FirstLock(t)
        /\ CaseUpdates' = CaseUpdates /\ PaymentUpdates' = PaymentUpdates
    BY <1>1 DEF FirstLock, CaseUpdates, PaymentUpdates, CaseRowOf, PaymentRowOf, JobRowOf, Lock
  <2>3. CASE tx[t].at = "payment"
    <3>1. PICK c \in CaseIds : tx[t].want \subseteq {Lock("update", CaseRowOf(c))}
      BY <2>1, <2>3 DEF LocksInOrder
    <3>2. tx'[t].want = {} /\ lock \in CaseUpdates
      BY <1>1, <3>1 DEF CaseUpdates
    <3>3. tx[t].held \subseteq FirstLock(t)
      BY <2>1, <2>3 DEF LocksInOrder
    <3>4. LocksInOrder(t)'
      BY <1>1, <2>2, <2>3, <3>2, <3>3 DEF LocksInOrder
    <3>5. QED
      BY <1>1, <1>2, <3>4, OrderKept DEF OrderStage
  <2>4. CASE tx[t].at = "decide"
    <3>1. PICK p \in PaymentIds : tx[t].want \subseteq {Lock("update", PaymentRowOf(p))}
      BY <2>1, <2>4 DEF LocksInOrder
    <3>2. tx'[t].want = {} /\ lock \in PaymentUpdates
      BY <1>1, <3>1 DEF PaymentUpdates
    <3>3. tx[t].held \subseteq FirstLock(t) \cup CaseUpdates
      BY <2>1, <2>4 DEF LocksInOrder
    <3>4. LocksInOrder(t)'
      BY <1>1, <2>2, <2>4, <3>2, <3>3 DEF LocksInOrder
    <3>5. QED
      BY <1>1, <1>2, <3>4, OrderKept DEF OrderStage
  <2>5. CASE tx[t].at \notin {"payment", "decide"}
    <3>1. \A l \in tx[t].held \cup tx[t].want :
             \/ l \in tx[t].held \cap (CaseUpdates \cup PaymentUpdates)
             \/ /\ tx[t].op = "finalize"
                /\ \/ l = Lock("change", JobRowOf(tx[t].job))
                   \/ \E c \in CaseIds : l.row = CaseRowOf(c) /\ Holds(t, "update", l.row)
      BY <2>1, <2>5 DEF LocksInOrder
    <3>2. \A row : Holds(t, "update", row) => Lock("update", row) \in tx'[t].held
      BY <1>1 DEF Holds
    <3>3. tx'[t].held \cup tx'[t].want \subseteq tx[t].held \cup tx[t].want
      BY <1>1
    <3>4. \A l \in tx'[t].held \cup tx'[t].want :
             \/ l \in tx'[t].held \cap (CaseUpdates \cup PaymentUpdates)
             \/ /\ tx'[t].op = "finalize"
                /\ \/ l = Lock("change", JobRowOf(tx'[t].job))
                   \/ \E c \in CaseIds : /\ l.row = CaseRowOf(c)
                                        /\ Lock("update", l.row) \in tx'[t].held
      <4> SUFFICES ASSUME NEW l \in tx'[t].held \cup tx'[t].want
                   PROVE  \/ l \in tx'[t].held \cap (CaseUpdates \cup PaymentUpdates)
                          \/ /\ tx'[t].op = "finalize"
                             /\ \/ l = Lock("change", JobRowOf(tx'[t].job))
                                \/ \E c \in CaseIds : /\ l.row = CaseRowOf(c)
                                                     /\ Lock("update", l.row) \in tx'[t].held
        OBVIOUS
      <4>1. l \in tx[t].held \cup tx[t].want
        BY <3>3
      <4>2. CASE l \in tx[t].held \cap (CaseUpdates \cup PaymentUpdates)
        BY <1>1, <4>2
      <4>3. CASE l \notin tx[t].held \cap (CaseUpdates \cup PaymentUpdates)
        <5>1. /\ tx[t].op = "finalize"
              /\ \/ l = Lock("change", JobRowOf(tx[t].job))
                 \/ \E c \in CaseIds : l.row = CaseRowOf(c) /\ Holds(t, "update", l.row)
          BY <3>1, <4>1, <4>3
        <5>2. tx'[t].op = "finalize" /\ tx'[t].job = tx[t].job
          BY <1>1, <5>1
        <5>3. QED
          BY <3>2, <5>1, <5>2
      <4>4. QED
        BY <4>2, <4>3
    <3>5. LocksInOrder(t)'
      BY <1>1, <2>2, <2>5, <3>4 DEF LocksInOrder, Holds, Lock, CaseRowOf, JobRowOf
    <3>6. QED
      BY <1>1, <1>2, <3>5, OrderKept DEF OrderStage
  <2>6. QED
    BY <2>3, <2>4, <2>5
<1>5. QED
  BY <1>3, <1>4

LEMMA SelectJobKeepsOrder ==
  ASSUME StatementInv, OrderInv, NEW w \in Workers, NEW j \in JobIds, SelectJob(w, j)
  PROVE  OrderInv'
<1> PICK c : c = jobs[j].case
  OBVIOUS
<1> DEFINE x == [NoTx EXCEPT !.op = "claim", !.job = j, !.at = "payment",
                             !.held = {Lock("update", JobRowOf(j))},
                             !.want = {Lock("update", CaseRowOf(c))}]
<1>1. Open(w, x) /\ Claimable(j)
  BY DEF SelectJob
<1>2. /\ x.op = "claim" /\ x.at = "payment" /\ x.job = j /\ x.answer = "none"
      /\ x.held = {Lock("update", JobRowOf(j))} /\ x.want = {Lock("update", CaseRowOf(c))}
  BY DEF NoTx
<1> HIDE DEF x
<1>3. c \in CaseIds /\ w \in Tx /\ LocksTypeOK
  BY <1>1 DEF Claimable, JobExists, StatementInv, RowsAndWorkers, RowsRefer, Tx
<1>4. tx'[w] = x /\ \A u \in Tx \ {w} : tx'[u] = tx[u]
  BY <1>1, <1>3, OpenedFields
<1>5. LocksInOrder(w)'
  BY <1>2, <1>3, <1>4 DEF LocksInOrder, FirstLock, CaseRowOf, JobRowOf, Lock
<1>6. QED
  BY <1>2, <1>3, <1>4, <1>5, OrderKept DEF OrderStage

LEMMA LockPaymentKeepsOrder ==
  ASSUME StatementInv, OrderInv, NEW w \in Workers, LockPayment(w)
  PROVE  OrderInv'
<1> PICK p : p = PaymentOf(tx[w].job)
  OBVIOUS
<1>1. /\ tx[w].op \in {"claim", "finalize"} /\ tx[w].at = "payment" /\ tx[w].want = {}
      /\ Ask(w, {Lock("update", PaymentRowOf(p))}, "decide")
  BY DEF LockPayment, At
<1>2. /\ LocksTypeOK /\ w \in Tx /\ p \in PaymentIds
      /\ tx[w].op = "finalize" => tx[w].answer \in Decisions
  BY <1>1, ClaimKnows, FinalizeKnows DEF FinalizeStage
<1>3. OrderStage(w) /\ LocksInOrder(w)
  BY <1>1, <1>2 DEF OrderInv, OrderStage, OrderedTx, Decisions
<1>4. tx[w].held \subseteq FirstLock(w) \cup CaseUpdates
  BY <1>1, <1>3 DEF LocksInOrder
<1>5. /\ \A u \in Tx \ {w} : tx'[u] = tx[u]
      /\ tx'[w].op = tx[w].op /\ tx'[w].at = "decide" /\ tx'[w].job = tx[w].job
      /\ tx'[w].answer = tx[w].answer /\ tx'[w].held = tx[w].held
      /\ tx'[w].want \subseteq {Lock("update", PaymentRowOf(p))}
  BY <1>1, <1>2, AskedFields
<1>6. FirstLock(w)' = FirstLock(w) /\ CaseUpdates' = CaseUpdates
  BY <1>5 DEF FirstLock, CaseUpdates, CaseRowOf, JobRowOf, Lock
<1>7. LocksInOrder(w)'
  BY <1>2, <1>4, <1>5, <1>6 DEF LocksInOrder, PaymentRowOf, Lock
<1>8. QED
  BY <1>2, <1>3, <1>5, <1>7, OrderKept DEF OrderStage

LEMMA ReadJobKeepsOrder ==
  ASSUME StatementInv, OrderInv, NEW w \in Workers, ReadJob(w)
  PROVE  OrderInv'
<1> PICK c : c = jobs[Job(w)].case
  OBVIOUS
<1>1. PICK a \in Answers(worker[w].pc) :
         Open(w, [NoTx EXCEPT
                 !.op = "finalize", !.job = Job(w), !.answer = a,
                 !.at = IF a \in Decisions THEN "payment" ELSE "load",
                 !.want = IF a \in Decisions THEN {Lock("update", CaseRowOf(c))} ELSE {}])
  BY DEF ReadJob, Decisions
<1> DEFINE x == [NoTx EXCEPT
                 !.op = "finalize", !.job = Job(w), !.answer = a,
                 !.at = IF a \in Decisions THEN "payment" ELSE "load",
                 !.want = IF a \in Decisions THEN {Lock("update", CaseRowOf(c))} ELSE {}]
<1>2. /\ x.op = "finalize" /\ x.answer = a /\ x.held = {}
      /\ a \in Decisions => x.at = "payment" /\ x.want = {Lock("update", CaseRowOf(c))}
  BY DEF NoTx
<1>3. Open(w, x)
  BY <1>1
<1> HIDE DEF x
<1>4. worker[w].pc # "idle" /\ w \in Tx /\ LocksTypeOK /\ RowsAndWorkers
  BY DEF ReadJob, FinalizePc, Tx, StatementInv
<1>5. c \in CaseIds
  BY <1>4, JobInHand
<1>6. tx'[w] = x /\ \A u \in Tx \ {w} : tx'[u] = tx[u]
  BY <1>3, <1>4, OpenedFields
<1>7. CASE a \in Decisions
  <2>1. LocksInOrder(w)'
    BY <1>2, <1>5, <1>6, <1>7 DEF LocksInOrder, CaseRowOf, Lock
  <2>2. QED
    BY <1>2, <1>4, <1>6, <2>1, OrderKept DEF OrderStage
<1>8. CASE a \notin Decisions
  <2>1. a \in {"error", "none"}
    BY <1>8 DEF Answers, Decisions
  <2>2. OrderStage(w)'
    BY <1>2, <1>4, <1>6, <2>1 DEF OrderStage, OrderedTx
  <2>3. QED
    BY <1>4, <1>6, <2>2, OrderKept
<1>9. QED
  BY <1>7, <1>8

LEMMA DecideKeepsOrder ==
  ASSUME StatementInv, OrderInv, NEW w \in Workers, Decide(w)
  PROVE  OrderInv'
<1>1. /\ tx[w].op = "finalize" /\ tx[w].at = "decide" /\ tx[w].want = {}
      /\ tx' = [tx EXCEPT ![w].answer = IF Paid(PaymentOf(Job(w))) THEN "late" ELSE @,
                          ![w].at = "load"]
  BY DEF Decide, At
<1>2. LocksTypeOK /\ w \in Tx /\ tx[w].answer \in Decisions
  BY <1>1, FinalizeKnows DEF FinalizeStage
<1>3. LocksInOrder(w)
  BY <1>1, <1>2 DEF OrderInv, OrderStage, OrderedTx, Decisions
<1>4. tx[w].held \subseteq CaseUpdates \cup PaymentUpdates
  BY <1>1, <1>3 DEF LocksInOrder, FirstLock
<1>5. /\ \A u \in Tx \ {w} : tx'[u] = tx[u]
      /\ tx'[w].op = "finalize" /\ tx'[w].at = "load"
      /\ tx'[w].held = tx[w].held /\ tx'[w].want = {}
  BY <1>1, <1>2 DEF LocksTypeOK, TxState
<1>6. CaseUpdates' = CaseUpdates /\ PaymentUpdates' = PaymentUpdates
  BY DEF CaseUpdates, PaymentUpdates, CaseRowOf, PaymentRowOf, Lock
<1>7. LocksInOrder(w)'
  BY <1>4, <1>5, <1>6 DEF LocksInOrder
<1>8. QED
  BY <1>2, <1>5, <1>7, OrderKept DEF OrderStage

(* What a decision writes are its job, which it had locked when it claimed *)
(* it, and the case, which it has locked.                                  *)
LEMMA DecisionWrites ==
  ASSUME StatementInv, NEW w \in Workers, LoadRows(w), tx[w].answer \in Decisions \cup {"late"},
         NEW c, c = jobs[Job(w)].case
  PROVE  /\ \A u \in Tx \ {w} : tx'[u] = tx[u]
         /\ tx'[w].op = "finalize" /\ tx'[w].at = "save" /\ tx'[w].job = tx[w].job
         /\ tx'[w].answer = tx[w].answer /\ tx'[w].held = tx[w].held
         /\ tx'[w].want \subseteq {Lock("change", JobRowOf(tx[w].job)),
                                   Lock("change", CaseRowOf(c)), Lock("refer", CaseRowOf(c))}
         /\ c \in CaseIds /\ Holds(w, "update", CaseRowOf(c))
<1> DEFINE n == worker[w].attempt
           Changed(old, new, row) == IF new \in {"none", old} THEN {}
                                     ELSE {Lock("change", row)}
           locks == Changed(jobs[Job(w)].status, JobOutcome(w), JobRowOf(Job(w)))
                    \cup (IF n = 0 THEN {} ELSE
                          Changed(attempts[c][n], AttemptOutcome(w), AttemptRow(c, n)))
                    \cup Changed(cases[c].status, CaseOutcome(w), CaseRowOf(c))
                    \cup PaymentRowToChange(w)
                    \cup (IF NextJob(w) = "none" THEN {}
                          ELSE {Lock("refer", CaseRowOf(c))})
<1>1. /\ tx[w].op = "finalize" /\ tx[w].at = "load" /\ Ask(w, locks, "save")
  BY DEF LoadRows, At
<1>2. FinalizeStage(w) /\ w \in Tx /\ LocksTypeOK /\ tx[w].job = Job(w) /\ c \in CaseIds
  BY <1>1, FinalizeKnows
<1>3. worker[w].pc = "evaluating" /\ Holds(w, "update", CaseRowOf(c))
  BY <1>1, <1>2 DEF FinalizeStage, Decisions
<1>4. AttemptOutcome(w) = "none" /\ PaymentRowToChange(w) = {}
  <2>1. AttemptOutcome(w) = "none"
    BY <1>3 DEF AttemptOutcome
  <2>2. QED
    BY <2>1 DEF PaymentRowToChange
<1>5. locks \subseteq {Lock("change", JobRowOf(tx[w].job)),
                       Lock("change", CaseRowOf(c)), Lock("refer", CaseRowOf(c))}
  BY <1>2, <1>4
<1> HIDE DEF locks
<1>6. QED
  BY <1>1, <1>2, <1>3, <1>5, AskedFields

LEMMA LoadRowsKeepsOrder ==
  ASSUME StatementInv, OrderInv, NEW w \in Workers, LoadRows(w)
  PROVE  OrderInv'
<1> PICK c : c = jobs[Job(w)].case
  OBVIOUS
<1>1. tx[w].op = "finalize" /\ tx[w].at = "load"
  BY DEF LoadRows, At
<1>2. w \in Tx /\ tx[w] \in TxState
  BY <1>1, FinalizeKnows
<1>3. CASE tx[w].answer \in Decisions \cup {"late"}
  <2>1. LocksInOrder(w)
    BY <1>2, <1>3 DEF OrderInv, OrderStage, OrderedTx, Decisions
  <2>2. /\ \A u \in Tx \ {w} : tx'[u] = tx[u]
        /\ tx'[w].op = "finalize" /\ tx'[w].at = "save" /\ tx'[w].job = tx[w].job
        /\ tx'[w].answer = tx[w].answer /\ tx'[w].held = tx[w].held
        /\ tx'[w].want \subseteq {Lock("change", JobRowOf(tx[w].job)),
                                  Lock("change", CaseRowOf(c)), Lock("refer", CaseRowOf(c))}
        /\ c \in CaseIds /\ Holds(w, "update", CaseRowOf(c))
    BY <1>3, DecisionWrites
  <2>3. \A l \in tx[w].held \cup tx'[w].want :
           \/ l \in tx[w].held \cap (CaseUpdates \cup PaymentUpdates)
           \/ l = Lock("change", JobRowOf(tx[w].job))
           \/ \E d \in CaseIds : l.row = CaseRowOf(d) /\ Holds(w, "update", l.row)
    <3>1. Lock("change", CaseRowOf(c)).row = CaseRowOf(c)
          /\ Lock("refer", CaseRowOf(c)).row = CaseRowOf(c)
      BY DEF Lock
    <3>2. \A l \in tx[w].held :
             \/ l \in tx[w].held \cap (CaseUpdates \cup PaymentUpdates)
             \/ l = Lock("change", JobRowOf(tx[w].job))
             \/ \E d \in CaseIds : l.row = CaseRowOf(d) /\ Holds(w, "update", l.row)
      BY <1>1, <2>1 DEF LocksInOrder
    <3>3. QED
      BY <2>2, <3>1, <3>2
  <2>4. /\ CaseUpdates' = CaseUpdates /\ PaymentUpdates' = PaymentUpdates
        /\ \A row : Holds(w, "update", row) <=> Lock("update", row) \in tx'[w].held
    BY <2>2 DEF CaseUpdates, PaymentUpdates, CaseRowOf, PaymentRowOf, Lock, Holds
  <2>5. \A l \in tx'[w].held \cup tx'[w].want :
           \/ l \in tx'[w].held \cap (CaseUpdates' \cup PaymentUpdates')
           \/ /\ tx'[w].op = "finalize"
              /\ \/ l = Lock("change", JobRowOf(tx'[w].job))
                 \/ \E d \in CaseIds : /\ l.row = CaseRowOf(d)
                                      /\ Lock("update", l.row) \in tx'[w].held
    BY <2>2, <2>3, <2>4
  <2>6. LocksInOrder(w)'
    BY <2>2, <2>5 DEF LocksInOrder, Holds, Lock, CaseRowOf, JobRowOf
  <2>7. QED
    BY <1>2, <2>2, <2>6, OrderKept DEF OrderStage
<1>4. CASE tx[w].answer \notin Decisions \cup {"late"}
  <2>1. \A u \in Tx \ {w} : tx'[u] = tx[u]
    BY LoadedRows
  <2>2. tx'[w].op = "finalize" /\ tx'[w].answer = tx[w].answer
    BY LoadedRows
  <2>3. OrderStage(w)'
    BY <1>2, <1>4, <2>2 DEF OrderStage, OrderedTx, Decisions
  <2>4. QED
    BY <1>2, <2>1, <2>3, OrderKept
<1>5. QED
  BY <1>3, <1>4

LEMMA SameTxKeepsOrder ==
  ASSUME OrderInv, tx' = tx
  PROVE  OrderInv'
BY DEF OrderInv, OrderStage, OrderedTx, Tx, LocksInOrder, FirstLock, Holds,
   CaseUpdates, PaymentUpdates, CaseRowOf, PaymentRowOf, JobRowOf, Lock

LEMMA InitOrder == StatementInit => OrderInv
<1>1. NoTx.op = "none" /\ NoTx.answer = "none"
  BY DEF NoTx
<1>2. StatementInit => \A t \in Tx : tx[t] = NoTx
  BY DEF StatementInit, LocksInit
<1>3. QED
  BY <1>1, <1>2 DEF OrderInv, OrderStage, OrderedTx

LEMMA StepKeepsOrder ==
  ASSUME StatementInv, OrderInv, [StatementNext]_stmtVars
  PROVE  OrderInv'
<1> LocksTypeOK /\ RowsRefer /\ Stages
  BY DEF StatementInv, RowsAndWorkers
<1>1. CASE UNCHANGED stmtVars
  BY <1>1, SameTxKeepsOrder DEF stmtVars
<1>2. ASSUME NEW r \in Requests, RequestStatement(r)
      PROVE  OrderInv'
  BY <1>2, DeliveryKeepsOrder, AdminKeepsOrder, AcquireKeepsOrder DEF RequestStatement, Tx
<1>3. ASSUME NEW w \in Workers, WorkerStatement(w) \/ Kill(w)
      PROVE  OrderInv'
  <2> w \in Tx
    BY DEF Tx
  <2>1. CASE \E k \in JobIds : SelectJob(w, k)
    BY <2>1, SelectJobKeepsOrder
  <2>2. CASE \/ LockPayment(w) \/ ReadJob(w) \/ Decide(w) \/ LoadRows(w) \/ Acquire(w)
    BY <2>2, LockPaymentKeepsOrder, ReadJobKeepsOrder, DecideKeepsOrder, LoadRowsKeepsOrder,
       AcquireKeepsOrder
  <2>3. CASE CallGateway(w) \/ ReadJobOfOther(w)
    BY <2>3, SameTxKeepsOrder DEF CallGateway, ReadJobOfOther
  <2>4. CASE Close(w)
    BY <2>4, ClosingKeepsOrder
  <2>5. QED
    BY <1>3, <2>1, <2>2, <2>3, <2>4
       DEF WorkerStatement, CommitClaim, CommitFinalize, WorkerAborts, Kill
<1>4. ASSUME NEW j \in JobIds, Expire(j)
      PROVE  OrderInv'
  BY <1>4, SameTxKeepsOrder DEF Expire
<1>5. QED
  BY <1>1, <1>2, <1>3, <1>4 DEF StatementNext

THEOREM OrderInvariant == StatementSpec => []OrderInv
<1>1. StatementInv /\ OrderInv /\ [StatementNext]_stmtVars => OrderInv'
  BY StepKeepsOrder
<1>2. QED
  BY <1>1, InitOrder, StatementInvariant, PTL DEF StatementSpec

(* The rows that transactions with ordered locks have. *)
LEMMA RowsInOrder ==
  ASSUME OrderInv, NEW u \in OrderedTx, NEW h \in tx[u].held
  PROVE  \/ h \in CaseUpdates /\ LockRank(u) > 1
         \/ h \in PaymentUpdates /\ LockRank(u) > 3
         \/ tx[u].op \in {"claim", "finalize"} /\ h.row = JobRowOf(tx[u].job)
         \/ LockRank(u) = 5 /\ \E c \in CaseIds : h.row = CaseRowOf(c)
<1>1. LocksInOrder(u)
  BY DEF OrderInv, OrderStage, OrderedTx
<1>2. h \in FirstLock(u) => tx[u].op = "claim" /\ h.row = JobRowOf(tx[u].job)
  BY DEF FirstLock, Lock
<1>3. CASE tx[u].at = "payment"
  <2>1. h \in FirstLock(u) \cup (IF tx[u].want = {} THEN CaseUpdates ELSE {})
    BY <1>1, <1>3 DEF LocksInOrder
  <2>2. LockRank(u) = IF tx[u].want = {} THEN 2 ELSE 1
    BY <1>3 DEF LockRank
  <2>3. QED
    BY <1>2, <2>1, <2>2
<1>4. CASE tx[u].at = "decide"
  <2>1. h \in FirstLock(u) \cup CaseUpdates \cup (IF tx[u].want = {} THEN PaymentUpdates ELSE {})
    BY <1>1, <1>4 DEF LocksInOrder
  <2>2. LockRank(u) = IF tx[u].want = {} THEN 4 ELSE 3
    BY <1>4 DEF LockRank
  <2>3. QED
    BY <1>2, <2>1, <2>2
<1>5. CASE tx[u].at \notin {"payment", "decide"}
  <2>1. LockRank(u) = 5
    BY <1>5 DEF LockRank
  <2>2. \/ h \in CaseUpdates \cup PaymentUpdates
        \/ /\ tx[u].op = "finalize"
           /\ h = Lock("change", JobRowOf(tx[u].job)) \/ \E c \in CaseIds : h.row = CaseRowOf(c)
    BY <1>1, <1>5 DEF LocksInOrder
  <2>3. h = Lock("change", JobRowOf(tx[u].job)) => h.row = JobRowOf(tx[u].job)
    BY DEF Lock
  <2>4. QED
    BY <2>1, <2>2, <2>3
<1>6. QED
  BY <1>3, <1>4, <1>5

LEMMA UpdateRows ==
  ASSUME NEW l
  PROVE  /\ l \in CaseUpdates => \E c \in CaseIds : l.row = CaseRowOf(c)
         /\ l \in PaymentUpdates => \E p \in PaymentIds : l.row = PaymentRowOf(p)
BY DEF CaseUpdates, PaymentUpdates, Lock

(* The job in hand is RUNNING under a lease that has not expired: no claim *)
(* has locked it, and no other worker has it in hand.                      *)
LEMMA OwnJobIsUnlocked ==
  ASSUME FreshInv, OrderInv, NEW t \in Tx, tx[t].op = "finalize",
         NEW u \in OrderedTx, u # t, NEW h \in tx[u].held
  PROVE  h.row # JobRowOf(tx[t].job)
<1> SUFFICES ASSUME h.row = JobRowOf(tx[t].job) PROVE FALSE
  OBVIOUS
<1>1. StatementInv /\ LiveInv /\ Stages /\ u \in Tx
  BY DEF FreshInv, StatementInv, OrderedTx
<1>2. t \in Workers
  BY <1>1 DEF Stages, Stage, FinalizeStage
<1>3. worker[t].pc # "idle" /\ tx[t].job = Job(t)
  BY <1>1, <1>2, FinalizeKnows
<1>4. tx[u].op \in {"claim", "finalize"} /\ h.row = JobRowOf(tx[u].job)
  BY RowsInOrder, UpdateRows, RowsDiffer
<1>5. tx[u].job = tx[t].job
  BY <1>4 DEF JobRowOf
<1>6. CASE tx[u].op = "claim"
  <2>1. Claimable(tx[t].job)
    BY <1>1, <1>5, <1>6 DEF Stages, Stage, ClaimStage
  <2>2. QED
    BY <1>1, <1>2, <1>3, <2>1 DEF LiveInv, LeasesKept, Claimable
<1>7. CASE tx[u].op = "finalize"
  <2>1. u \in Workers
    BY <1>1, <1>7 DEF Stages, Stage, FinalizeStage
  <2>2. worker[u].pc # "idle" /\ tx[u].job = Job(u)
    BY <1>1, <1>7, <2>1, FinalizeKnows
  <2>3. QED
    BY <1>1, <1>2, <1>3, <1>5, <2>1, <2>2, WorkersApart
<1>8. QED
  BY <1>4, <1>6, <1>7

LEMMA RanksRise == FreshInv /\ OrderInv => WaitsRise
<1> SUFFICES ASSUME FreshInv, OrderInv, NEW t \in OrderedTx, NEW u \in OrderedTx, WaitsFor(t, u)
             PROVE  LockRank(t) < LockRank(u)
  BY DEF WaitsRise
<1> PICK lock \in tx[t].want : Blocks(u, t, lock)
  BY DEF WaitsFor
<1> PICK h \in tx[u].held : h.row = lock.row /\ ~Compatible(h.mode, lock.mode)
  BY DEF Blocks
<1>1. t \in Tx /\ u \in Tx /\ u # t /\ LocksInOrder(t) /\ LocksExclude
  BY DEF Blocks, OrderedTx, OrderInv, OrderStage, FreshInv, StatementInv
<1>2. CASE tx[t].at = "payment"
  <2>1. \E c \in CaseIds : lock = Lock("update", CaseRowOf(c))
    BY <1>1, <1>2 DEF LocksInOrder
  <2>2. \E c \in CaseIds : h.row = CaseRowOf(c)
    BY <2>1 DEF Lock
  <2>3. LockRank(t) = 1
    BY <1>2 DEF LockRank
  <2>4. LockRank(u) \in 1..5
    BY DEF LockRank
  <2>5. LockRank(u) > 1
    BY <2>2, <2>4, RowsInOrder, UpdateRows, RowsDiffer
  <2>6. QED
    BY <2>3, <2>5
<1>3. CASE tx[t].at = "decide"
  <2>1. \E p \in PaymentIds : lock = Lock("update", PaymentRowOf(p))
    BY <1>1, <1>3 DEF LocksInOrder
  <2>2. \E p \in PaymentIds : h.row = PaymentRowOf(p)
    BY <2>1 DEF Lock
  <2>3. LockRank(t) = 3
    BY <1>3 DEF LockRank
  <2>4. LockRank(u) > 3
    BY <2>2, RowsInOrder, UpdateRows, RowsDiffer
  <2>5. QED
    BY <2>3, <2>4
<1>4. CASE tx[t].at \notin {"payment", "decide"}
  <2>1. lock \notin tx[t].held
    BY <1>1 DEF LocksExclude, Compatible
  <2>2. ~Holds(t, "update", lock.row)
    <3>1. Lock("update", lock.row).row = h.row /\ Lock("update", lock.row).mode = "update"
      BY DEF Lock
    <3>2. QED
      BY <1>1, <3>1 DEF LocksExclude, Compatible, Holds
  <2>3. tx[t].op = "finalize" /\ lock = Lock("change", JobRowOf(tx[t].job))
    BY <1>1, <1>4, <2>1, <2>2 DEF LocksInOrder
  <2>4. h.row = JobRowOf(tx[t].job)
    BY <2>3 DEF Lock
  <2>5. QED
    BY <1>1, <2>3, <2>4, OwnJobIsUnlocked
<1>5. QED
  BY <1>2, <1>3, <1>4

(* Whoever is in a circle is in every set that has those it waits for and  *)
(* those they wait for; the ones that have got further than it are such a  *)
(* set, without it.                                                        *)
LEMMA RisingWaitsHaveNoCircle == WaitsRise => OrderedLocksNeverDeadlock
<1> SUFFICES ASSUME WaitsRise, NEW t \in Circle(OrderedTx) PROVE FALSE
  BY DEF OrderedLocksNeverDeadlock
<1> DEFINE waits == {e \in OrderedTx \X OrderedTx : WaitsFor(e[1], e[2])}
           further == {u \in OrderedTx : LockRank(t) < LockRank(u)}
<1>1. t \in OrderedTx
  BY DEF Circle
<1>2. \A S \in SUBSET OrderedTx : (\A e \in waits : e[1] \in S \cup {t} => e[2] \in S) => t \in S
  BY DEF Circle
<1>3. \A u : LockRank(u) \in 1..5
  BY DEF LockRank
<1>4. ASSUME NEW e \in waits, e[1] \in further \cup {t}
      PROVE  e[2] \in further
  <2>1. e[1] \in OrderedTx /\ e[2] \in OrderedTx /\ LockRank(e[1]) < LockRank(e[2])
    BY DEF WaitsRise
  <2>2. QED
    BY <1>3, <1>4, <2>1
<1>5. t \in further
  BY <1>2, <1>4
<1>6. QED
  BY <1>3, <1>5

(* Claims, retries and decisions never wait for one another in a circle:   *)
(* each locks the case before the payment, and what a decision locks after *)
(* them no other of them has.                                              *)
THEOREM OrderedLocksNeverDeadlockHolds ==
  ASSUME LeasesOutlast, CommitsMayAbort
  PROVE  StatementSpec => []OrderedLocksNeverDeadlock
<1>1. FreshInv /\ OrderInv => OrderedLocksNeverDeadlock
  BY RanksRise, RisingWaitsHaveNoCircle
<1>2. QED
  BY <1>1, FreshInvariant, OrderInvariant, PTL

-----------------------------------------------------------------------------
(* The engine's own properties, statement by statement. *)

LEMMA StepKeepsCases == CasesInv /\ [Next]_vars => CasesInv'
BY StepKeepsAttemptsInv, StepKeepsRecovered, StepKeepsNoneStranded
   DEF CasesInv, AttemptsInv, JobsInv

LEMMA CasesInvByStatements ==
  ASSUME LeasesOutlast, CommitsMayAbort
  PROVE  StatementSpec => []CasesInv /\ [][Next]_vars
<1>1. Init => CasesInv
  <2>1. Init => AttemptsInv
    BY InitAttemptsInv
  <2>2. Init => RecoveredIsPaid /\ NoStrandedCase
    BY DEF Init, DbInit, NoCase, RecoveredIsPaid, NoStrandedCase, ActiveCase, CaseExists
  <2>3. QED
    BY <2>1, <2>2 DEF CasesInv
<1>2. TransactionsAreAtomic => Init /\ [][Next]_vars
  BY DEF TransactionsAreAtomic
<1>3. QED
  BY <1>1, <1>2, StepKeepsCases, TransactionsAreAtomicHolds, PTL

(* Statement by statement, too, a job that is finished is not touched. *)
THEOREM FinishedJobsStayByStatements ==
  ASSUME LeasesOutlast, CommitsMayAbort
  PROVE  StatementSpec => FinishedJobsStay
<1>1. ASSUME CasesInv, [Next]_vars, NEW j \in JobIds, JobExists(j), ~LiveJob(j)
      PROVE  jobs'[j] = jobs[j]
  BY <1>1, StepKeepsFinished DEF CasesInv, AttemptsInv
<1>2. CasesInv /\ [Next]_vars =>
        [\A j \in JobIds : JobExists(j) /\ ~LiveJob(j) => jobs'[j] = jobs[j]]_vars
  BY <1>1
<1>3. QED
  BY <1>2, CasesInvByStatements, PTL DEF FinishedJobsStay

(* A job is queued only for a case that is active or has a live job. *)
THEOREM ClosedCaseStaysQuietByStatements ==
  ASSUME LeasesOutlast, CommitsMayAbort
  PROVE  StatementSpec => ClosedCaseStaysQuiet
<1>1. ASSUME CasesInv, [Next]_vars, NEW c \in CaseIds, NoLiveJob(c), ~ActiveCase(c)'
      PROVE  NoLiveJob(c)'
  BY <1>1, StepKeepsQuiet DEF CasesInv, AttemptsInv
<1>2. CasesInv /\ [Next]_vars =>
        [\A c \in CaseIds : ~ActiveCase(c) /\ NoLiveJob(c)
                                => ActiveCase(c)' \/ NoLiveJob(c)']_vars
  BY <1>1
<1>3. QED
  BY <1>2, CasesInvByStatements, PTL DEF ClosedCaseStaysQuiet

(* An attempt is inserted RUNNING, never again, and only an unsettled one  *)
(* is settled.                                                             *)
THEOREM AttemptsFollowMapByStatements ==
  ASSUME LeasesOutlast, CommitsMayAbort
  PROVE  StatementSpec => AttemptsFollowMap
<1>1. ASSUME CasesInv, [Next]_vars, NEW c \in CaseIds, NEW n \in AttemptNos,
             attempts[c][n] # attempts'[c][n]
      PROVE  FollowsMap(attempts[c][n], attempts'[c][n])
  BY <1>1, StepFollowsMap DEF CasesInv
<1>2. CasesInv /\ [Next]_vars => [\A c \in CaseIds, n \in AttemptNos :
          LET old == attempts[c][n]
              new == attempts'[c][n]
          IN  old # new => IF old = "ABSENT" THEN new = "RUNNING"
                           ELSE ValidTransition(old, new, AttemptTransitions)]_vars
  BY <1>1 DEF FollowsMap
<1>3. QED
  BY <1>2, CasesInvByStatements, PTL DEF AttemptsFollowMap

(* A case leaves RECOVERED only for STOPPED, in the commit that records    *)
(* the failure of its last attempt.                                        *)
THEOREM RecoveredLostToLastChargeOnlyByStatements ==
  ASSUME LeasesOutlast, CommitsMayAbort
  PROVE  StatementSpec => RecoveredLostToLastChargeOnly
<1>2. CasesInv /\ [Next]_vars =>
        [\A c \in CaseIds :
            cases[c].status = "RECOVERED" /\ cases'[c].status # "RECOVERED" =>
                /\ cases'[c].status = "STOPPED"
                /\ attempts'[c] = [attempts[c] EXCEPT ![MaxAttempts] = "FAILED"]
                /\ attempts'[c] # attempts[c]]_vars
  BY HowRecoveredIsLost
<1>3. QED
  BY <1>2, CasesInvByStatements, PTL DEF RecoveredLostToLastChargeOnly

(* Between the statements of webhooks, retries and decisions, too, a case  *)
(* never has two jobs that wait or run.                                    *)
THEOREM OneLiveJobPerCaseByStatements ==
  ASSUME LeasesOutlast, CommitsMayAbort
  PROVE  StatementSpec => []OneLiveJobPerCase
<1>1. CasesInv => OneLiveJobPerCase
  BY DEF CasesInv, AttemptsInv, JobsInv
<1>2. QED
  BY <1>1, CasesInvByStatements, PTL

(* An attempt whose outcome is not known has the job that will find it     *)
(* out, or had it cancelled, whatever other transactions are half done.    *)
THEOREM OpenAttemptHasJobByStatements ==
  ASSUME LeasesOutlast, CommitsMayAbort
  PROVE  StatementSpec => []OpenAttemptHasJob
<1>1. CasesInv => OpenAttemptHasJob
  BY DEF CasesInv, AttemptsInv
<1>2. QED
  BY <1>1, CasesInvByStatements, PTL

(* No interleaving of statements drops the last live job of an active,     *)
(* unpaid case, though stops and webhooks look for the jobs to cancel      *)
(* without locking them.                                                   *)
THEOREM NoStrandedCaseByStatements ==
  ASSUME LeasesOutlast, CommitsMayAbort
  PROVE  StatementSpec => []NoStrandedCase
<1>1. CasesInv => NoStrandedCase
  BY DEF CasesInv
<1>2. QED
  BY <1>1, CasesInvByStatements, PTL
=============================================================================
