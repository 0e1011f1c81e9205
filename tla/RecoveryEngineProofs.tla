------------------------ MODULE RecoveryEngineProofs ------------------------
(***************************************************************************)
(* What is proved of RecoveryEngine, for any number of payments, cases,    *)
(* jobs, workers, events, crashes and attempts, in four parts: types,      *)
(* references between rows, the write-ahead of attempts and the budget;    *)
(* charges (that there is at most one as long as no finalizing transaction *)
(* aborts, and the refinement of ChargeLedger); jobs and attempts; cases   *)
(* and payments.  Only the second part asks that commits do not abort.     *)
(***************************************************************************)
EXTENDS RecoveryInvariant, TLAPS

-----------------------------------------------------------------------------
(* Type correctness.  A step keeps the types because rows refer to rows    *)
(* that exist and workers hold jobs that exist.                            *)

LEMMA InitTypeOK == Init => TypeOK
<1> SUFFICES ASSUME Init
             PROVE  TypeOK
  OBVIOUS
<1>1. NoPayment \in PaymentRow /\ NoCase \in CaseRow
  BY DEF NoPayment, NoCase, PaymentRow, CaseRow
<1>2. NoJob \in JobRow
  BY DEF NoJob, NewJob, JobRow, JobType
<1>3. Idle \in WorkerState
  BY DEF Idle, WorkerState, WorkerPc
<1>4. DbTypeOK
  BY <1>1, <1>2 DEF Init, DbInit, DbTypeOK
<1>5. GatewayTypeOK
  BY DEF Init, GatewayInit, GatewayTypeOK
<1>6. WorkerTypeOK
  BY <1>3, WorkerAssumption DEF Init, WorkerInit, WorkerTypeOK
<1>7. QED
  BY <1>4, <1>5, <1>6 DEF TypeOK

(* Cancelling touches the status only. *)
LEMMA CancelPendingType ==
  ASSUME TypeOK, NEW S
  PROVE  CancelPending(S) \in [JobIds -> JobRow]
<1> SUFFICES ASSUME NEW j \in JobIds
             PROVE  [jobs[j] EXCEPT !.status = "CANCELLED"] \in JobRow
  BY DEF CancelPending, TypeOK, DbTypeOK
<1> QED
  BY DEF TypeOK, DbTypeOK, JobRow, JobState

LEMMA WebhookKeepsType ==
  ASSUME TypeOK, Webhook
  PROVE  DbTypeOK'
<1> PICK e \in Events : ProcessWebhook(e)
  BY DEF Webhook
<1> e \in WebhookEvent
  BY EventsAssumption
<1> USE DEF TypeOK, DbTypeOK, PaymentRow, CaseRow, JobRow, WebhookEvent, PutPayment
<1>1. CASE AcknowledgeTerminal(e)
  BY <1>1 DEF AcknowledgeTerminal
<1>2. CASE RecordRepeatedFailure(e)
  BY <1>2 DEF RecordRepeatedFailure, PaymentState
<1>3. CASE \E c \in CaseIds, j \in JobIds : OpenCase(e, c, j)
  BY <1>3 DEF OpenCase, PaymentState, RecoveryState, JobState, JobType, NewJob
<1>4. CASE RecordSuccess(e)
  <2>1. payments' \in [PaymentIds -> PaymentRow]
    BY <1>4 DEF RecordSuccess, PaymentState
  <2>2. cases' \in [CaseIds -> CaseRow]
    BY <1>4 DEF RecordSuccess, RecoveryState
  <2>3. QED
    BY <1>4, <2>1, <2>2, CancelPendingType DEF RecordSuccess
<1>5. QED
  BY <1>1, <1>2, <1>3, <1>4 DEF ProcessWebhook

LEMMA AdminKeepsType ==
  ASSUME TypeOK, Admin
  PROVE  DbTypeOK'
<1> PICK c \in CaseIds : StopCase(c) \/ RetryCase(c)
  BY DEF Admin
<1> USE DEF TypeOK, DbTypeOK, CaseRow, JobRow
<1>1. CASE RejectForPaid(c)
  BY <1>1 DEF RejectForPaid, RecoveryState
<1>2. CASE CloseCase(c)
  BY <1>2, CancelPendingType DEF CloseCase, RecoveryState
<1>3. CASE \E j \in JobIds : ReopenCase(c, j)
  BY <1>3 DEF ReopenCase, RecoveryState, JobState, JobType, NewJob
<1>4. QED
  BY <1>1, <1>2, <1>3 DEF StopCase, RetryCase

(* The rows a worker writes. *)
LEMMA JobRows ==
  ASSUME TypeOK, NEW j \in JobIds
  PROVE  /\ \A w \in Workers : Claimed(w, j) \in JobRow
         /\ \A s \in JobState : Ended(j, s) \in JobRow
         /\ \A t \in JobType : NewJob(jobs[j].case, t, jobs[j].count) \in JobRow
  BY DEF TypeOK, DbTypeOK, JobRow, JobState, Claimed, Ended, NewJob

(* The end of a job, with or without a next one. *)
LEMMA EndJobType ==
  ASSUME TypeOK, NEW j \in JobIds, NEW s \in JobState, NEW t \in JobType
  PROVE  /\ EndJob(j, s) => jobs' \in [JobIds -> JobRow]
         /\ \A k \in JobIds : EndJobAndQueue(j, s, k, t)
                                  => jobs' \in [JobIds -> JobRow]
  BY JobRows DEF TypeOK, DbTypeOK, EndJob, EndJobAndQueue

(* What a worker keeps in memory. *)
LEMMA WorkerRows ==
  ASSUME TypeOK, NEW w \in Workers
  PROVE  /\ Release(w) => worker' \in [Workers -> WorkerState]
         /\ \A pc \in WorkerPc : Goto(w, pc) => worker' \in [Workers -> WorkerState]
         /\ \A pc \in WorkerPc, r \in GatewayResult :
               worker' = [worker EXCEPT ![w].pc = pc, ![w].result = r]
                 => worker' \in [Workers -> WorkerState]
         /\ \A pc \in WorkerPc, j \in JobIds, n \in AttemptNos \cup {0} :
               worker' = [worker EXCEPT ![w] = [Idle EXCEPT !.pc = pc, !.job = j,
                                                            !.attempt = n]]
                 => worker' \in [Workers -> WorkerState]
<1>1. worker \in [Workers -> WorkerState]
  BY DEF TypeOK, WorkerTypeOK
<1>2. Idle \in WorkerState
  BY DEF Idle, WorkerState, WorkerPc
<1>3. Release(w) => worker' \in [Workers -> WorkerState]
  BY <1>1, <1>2 DEF Release
<1>4. ASSUME NEW pc \in WorkerPc
      PROVE  Goto(w, pc) => worker' \in [Workers -> WorkerState]
  <2>1. [worker[w] EXCEPT !.pc = pc] \in WorkerState
    BY <1>1 DEF WorkerState
  <2>2. QED
    BY <1>1, <2>1 DEF Goto
<1>5. ASSUME NEW pc \in WorkerPc, NEW r \in GatewayResult
      PROVE  worker' = [worker EXCEPT ![w].pc = pc, ![w].result = r]
               => worker' \in [Workers -> WorkerState]
  <2>1. [worker[w] EXCEPT !.pc = pc, !.result = r] \in WorkerState
    BY <1>1 DEF WorkerState
  <2>2. QED
    BY <1>1, <2>1
<1>6. ASSUME NEW pc \in WorkerPc, NEW j \in JobIds, NEW n \in AttemptNos \cup {0}
      PROVE  worker' = [worker EXCEPT ![w] = [Idle EXCEPT !.pc = pc, !.job = j,
                                                             !.attempt = n]]
               => worker' \in [Workers -> WorkerState]
  <2>1. [Idle EXCEPT !.pc = pc, !.job = j, !.attempt = n] \in WorkerState
    BY <1>2 DEF WorkerState
  <2>2. QED
    BY <1>1, <2>1
<1>7. QED
  BY <1>3, <1>4, <1>5, <1>6

LEMMA Pcs == {"idle", "evaluating", "verifying", "charging", "ambiguous",
              "reconciled", "finalizing", "refinalizing"} = WorkerPc
  BY DEF WorkerPc, ChargePc, FinalizePc

(* The payment and the attempt number a worker asks the gateway about. *)
LEMMA KeyInHand ==
  ASSUME RowsAndWorkers, NEW w \in Workers, worker[w].pc \in ChargePc
  PROVE  /\ Job(w) \in JobIds /\ JobExists(Job(w))
         /\ jobs[Job(w)].case \in CaseIds
         /\ PaymentOf(Job(w)) \in PaymentIds
         /\ worker[w].attempt \in AttemptNos
<1>1. worker[w].pc # "idle"
  BY DEF ChargePc, FinalizePc
<1>2. worker[w].attempt \in AttemptNos \cup {0}
  BY DEF RowsAndWorkers, TypeOK, WorkerTypeOK, WorkerState
<1>3. QED
  BY <1>1, <1>2 DEF RowsAndWorkers, WorkersAreSound, RowsRefer, PaymentOf

LEMMA ClaimKeepsType ==
  ASSUME TypeOK, NEW w \in Workers, Claim(w)
  PROVE  TypeOK'
<1> PICK j \in JobIds : \/ ClaimForPaid(w, j)
                        \/ BeginEvaluation(w, j)
                        \/ StartAttempt(w, j)
                        \/ ResumeAttempt(w, j)
  BY DEF Claim
<1>1. Claimed(w, j) \in JobRow /\ jobs \in [JobIds -> JobRow]
  BY JobRows DEF TypeOK, DbTypeOK
<1>2. CASE ClaimForPaid(w, j)
  <2>1. [Claimed(w, j) EXCEPT !.status = "CANCELLED"] \in JobRow
    BY <1>1 DEF JobRow, JobState
  <2>2. jobs' \in [JobIds -> JobRow]
    BY <1>1, <1>2, <2>1 DEF ClaimForPaid
  <2>3. QED
    BY <1>2, <2>2 DEF ClaimForPaid, workerVars, TypeOK, DbTypeOK, GatewayTypeOK,
                      WorkerTypeOK
<1>3. CASE BeginEvaluation(w, j)
  <2>1. jobs' \in [JobIds -> JobRow]
    BY <1>1, <1>3 DEF BeginEvaluation
  <2>2. worker' \in [Workers -> WorkerState]
    BY <1>3 DEF BeginEvaluation, TypeOK, WorkerTypeOK, Idle, WorkerState, WorkerPc
  <2>3. QED
    BY <1>3, <2>1, <2>2 DEF BeginEvaluation, TypeOK, DbTypeOK, GatewayTypeOK,
                            WorkerTypeOK
<1>4. CASE StartAttempt(w, j)
  <2> DEFINE c == jobs[j].case
             n == jobs[j].count + 1
  <2>1. n \in AttemptNos
    BY <1>4 DEF StartAttempt
  <2>2. [Claimed(w, j) EXCEPT !.attempt = n, !.count = n] \in JobRow
    BY <1>1, <2>1 DEF JobRow
  <2>3. jobs' \in [JobIds -> JobRow]
    BY <1>1, <1>4, <2>2 DEF StartAttempt
  <2>4. attempts' \in [CaseIds -> [AttemptNos -> AttemptState \cup {"ABSENT"}]]
    BY <1>4 DEF StartAttempt, InsertAttempt, AttemptState, TypeOK, DbTypeOK
  <2>5. worker' \in [Workers -> WorkerState]
    BY <1>4, <2>1, WorkerRows, Pcs DEF StartAttempt
  <2>6. QED
    BY <1>4, <2>3, <2>4, <2>5 DEF StartAttempt, TypeOK, DbTypeOK, GatewayTypeOK,
                                  WorkerTypeOK
<1>5. CASE ResumeAttempt(w, j)
  <2>1. jobs' \in [JobIds -> JobRow]
    BY <1>1, <1>5 DEF ResumeAttempt
  <2>2. jobs[j].attempt \in AttemptNos \cup {0}
    BY <1>1 DEF JobRow
  <2>3. worker' \in [Workers -> WorkerState]
    BY ZenonT(30), <1>5, <2>2, WorkerRows, Pcs DEF ResumeAttempt
  <2>4. QED
    BY <1>5, <2>1, <2>3 DEF ResumeAttempt, TypeOK, DbTypeOK, GatewayTypeOK,
                            WorkerTypeOK
<1>6. QED
  BY <1>2, <1>3, <1>4, <1>5

LEMMA CallKeepsType ==
  ASSUME RowsAndWorkers, NEW w \in Workers, VerifyPayment(w) \/ Charge(w)
  PROVE  TypeOK'
<1> DEFINE p == PaymentOf(Job(w))
           n == worker[w].attempt
<1> TypeOK
  BY DEF RowsAndWorkers
<1>1. CASE VerifyPayment(w)
  <2> DEFINE status == VerifyPaymentStatus(p, n)
  <2>1. p \in PaymentIds /\ n \in AttemptNos
    BY <1>1, KeyInHand DEF VerifyPayment, ChargePc
  <2>2. status \in GatewayResult \cup {"not_found"}
    BY <2>1 DEF VerifyPaymentStatus, TypeOK, GatewayTypeOK
  <2>3. worker' \in [Workers -> WorkerState]
    <3> HIDE DEF status
    <3>1. CASE status = "not_found"
      BY <1>1, <3>1, WorkerRows, Pcs DEF VerifyPayment, status
    <3>2. CASE status # "not_found"
      <4>1. worker' = [worker EXCEPT ![w].pc = "reconciled", ![w].result = status]
        BY <1>1, <3>2 DEF VerifyPayment, status
      <4>2. QED
        BY <2>2, <3>2, <4>1, WorkerRows, Pcs
    <3>3. QED
      BY <3>1, <3>2
  <2>4. UNCHANGED <<dbVars, store, crashes>>
    BY <1>1 DEF VerifyPayment
  <2>5. QED
    BY <2>3, <2>4 DEF TypeOK, DbTypeOK, GatewayTypeOK, WorkerTypeOK, dbVars
<1>2. CASE Charge(w)
  <2> PICK reply \in GatewayResult \cup {"timeout"} :
        /\ ChargeAnswer(p, n, reply)
        /\ IF reply = "timeout"
           THEN Goto(w, "ambiguous")
           ELSE worker' = [worker EXCEPT ![w].pc = "finalizing",
                                         ![w].result = reply]
    BY <1>2 DEF Charge
  <2>1. store' \in [PaymentIds -> [AttemptNos -> GatewayResult \cup {"none"}]]
    BY DEF ChargeAnswer, GatewayResult, TypeOK, GatewayTypeOK
  <2>2. worker' \in [Workers -> WorkerState]
    BY WorkerRows, Pcs
  <2>3. UNCHANGED <<dbVars, crashes>>
    BY <1>2 DEF Charge
  <2>4. QED
    BY <2>1, <2>2, <2>3 DEF TypeOK, DbTypeOK, GatewayTypeOK, WorkerTypeOK, dbVars
<1>3. QED
  BY <1>1, <1>2

(* The other tables a finalizing transaction writes. *)
LEMMA WrittenRows ==
  ASSUME TypeOK, NEW w \in Workers
  PROVE  /\ \A c \in CaseIds, s \in RecoveryState :
               SetCase(c, s) => cases' \in [CaseIds -> CaseRow]
         /\ \A s \in AttemptState : SettleAttempt(w, s) =>
               attempts' \in [CaseIds -> [AttemptNos -> AttemptState \cup {"ABSENT"}]]
<1>1. ASSUME NEW c \in CaseIds, NEW s \in RecoveryState, SetCase(c, s)
      PROVE  cases' \in [CaseIds -> CaseRow]
  BY <1>1 DEF SetCase, TypeOK, DbTypeOK, CaseRow
<1>2. ASSUME NEW s \in AttemptState, SettleAttempt(w, s)
      PROVE  attempts' \in [CaseIds -> [AttemptNos -> AttemptState \cup {"ABSENT"}]]
  BY <1>2 DEF SettleAttempt, TypeOK, DbTypeOK
<1>3. QED
  BY <1>1, <1>2

(* The job of a worker that is not idle. *)
LEMMA JobInHand ==
  ASSUME RowsAndWorkers, NEW w \in Workers, worker[w].pc # "idle"
  PROVE  /\ Job(w) \in JobIds /\ JobExists(Job(w))
         /\ jobs[Job(w)].case \in CaseIds /\ CaseExists(jobs[Job(w)].case)
         /\ PaymentOf(Job(w)) \in PaymentIds
  BY DEF RowsAndWorkers, WorkersAreSound, RowsRefer, PaymentOf

LEMMA FinalizeEvaluationKeepsType ==
  ASSUME RowsAndWorkers, NEW w \in Workers, FinalizeEvaluation(w)
  PROVE  TypeOK'
<1> TypeOK
  BY DEF RowsAndWorkers
<1>1. /\ worker[w].pc = "evaluating"
      /\ Release(w)
      /\ UNCHANGED <<payments, attempts, handled, store, crashes>>
  BY DEF FinalizeEvaluation, EvaluationFails, DecisionTooLate, DecideCharge,
         DecideDelay, DecideAbort, Deciding
<1>2. Job(w) \in JobIds /\ jobs[Job(w)].case \in CaseIds
  BY <1>1, JobInHand
<1>3. {"SUCCEEDED", "FAILED", "CANCELLED"} \subseteq JobState
  BY DEF JobState
<1>4. {"EVALUATE_RECOVERY", "EXECUTE_CHARGE"} \subseteq JobType
  BY DEF JobType
<1>5. jobs' \in [JobIds -> JobRow]
  BY <1>2, <1>3, <1>4, EndJobType
  DEF FinalizeEvaluation, EvaluationFails, DecisionTooLate, DecideCharge,
      DecideDelay, DecideAbort
<1>6. cases' \in [CaseIds -> CaseRow]
  <2>1. cases' = cases \/ SetCase(jobs[Job(w)].case, "STOPPED")
    BY DEF FinalizeEvaluation, EvaluationFails, DecisionTooLate, DecideCharge,
           DecideDelay, DecideAbort
  <2>2. QED
    BY <1>2, <2>1, WrittenRows DEF TypeOK, DbTypeOK, RecoveryState
<1>7. worker' \in [Workers -> WorkerState]
  BY <1>1, WorkerRows
<1>8. QED
  BY <1>1, <1>5, <1>6, <1>7 DEF TypeOK, DbTypeOK, GatewayTypeOK, WorkerTypeOK

LEMMA FinalizeJobKeepsType ==
  ASSUME RowsAndWorkers, NEW w \in Workers, FinalizeJob(w)
  PROVE  TypeOK'
<1> TypeOK
  BY DEF RowsAndWorkers
<1>1. /\ worker[w].pc \in ChargePc
      /\ Release(w)
      /\ UNCHANGED <<handled, store, crashes>>
  BY DEF FinalizeJob, FinalizeSuccess, FinalizeFailure, FinalizeExhausted,
         FinalizeAmbiguous, Finalizing, ChargePc
<1>2. /\ Job(w) \in JobIds
      /\ jobs[Job(w)].case \in CaseIds
      /\ PaymentOf(Job(w)) \in PaymentIds
  BY <1>1, KeyInHand
<1>3. {"SUCCEEDED", "PENDING"} \subseteq JobState /\ "EVALUATE_RECOVERY" \in JobType
  BY DEF JobState, JobType
<1>4. jobs' \in [JobIds -> JobRow]
  BY <1>2, <1>3, EndJobType
  DEF FinalizeJob, FinalizeSuccess, FinalizeFailure, FinalizeExhausted,
      FinalizeAmbiguous
<1>5. cases' \in [CaseIds -> CaseRow]
  <2>1. \/ cases' = cases
        \/ SetCase(jobs[Job(w)].case, "STOPPED")
        \/ SetCase(jobs[Job(w)].case, "RECOVERED")
    BY DEF FinalizeJob, FinalizeSuccess, FinalizeFailure, FinalizeExhausted,
           FinalizeAmbiguous
  <2>2. QED
    BY <1>2, <2>1, WrittenRows DEF TypeOK, DbTypeOK, RecoveryState
<1>6. attempts' \in [CaseIds -> [AttemptNos -> AttemptState \cup {"ABSENT"}]]
  <2>1. \E s \in AttemptState : SettleAttempt(w, s)
    BY DEF FinalizeJob, FinalizeSuccess, FinalizeFailure, FinalizeExhausted,
           FinalizeAmbiguous, AttemptState
  <2>2. QED
    BY <2>1, WrittenRows
<1>7. payments' \in [PaymentIds -> PaymentRow]
  <2>1. \/ payments' = payments
        \/ payments' = [payments EXCEPT ![PaymentOf(Job(w))].status = "SUCCEEDED"]
    BY DEF FinalizeJob, FinalizeSuccess, FinalizeFailure, FinalizeExhausted,
           FinalizeAmbiguous
  <2>2. QED
    BY <1>2, <2>1 DEF TypeOK, DbTypeOK, PaymentRow, PaymentState
<1>8. worker' \in [Workers -> WorkerState]
  BY <1>1, WorkerRows
<1>9. QED
  BY <1>1, <1>4, <1>5, <1>6, <1>7, <1>8 DEF TypeOK, DbTypeOK, GatewayTypeOK,
                                          WorkerTypeOK

LEMMA StepKeepsType ==
  ASSUME RowsAndWorkers, [Next]_vars
  PROVE  TypeOK'
<1> TypeOK
  BY DEF RowsAndWorkers
<1>1. CASE Webhook
  <2>1. UNCHANGED <<store, worker, crashes>>
    BY <1>1 DEF Webhook, workerVars
  <2>2. QED
    BY <1>1, <2>1, WebhookKeepsType DEF TypeOK, GatewayTypeOK, WorkerTypeOK
<1>2. CASE Admin
  <2>1. UNCHANGED <<store, worker, crashes>>
    BY <1>2 DEF Admin, workerVars
  <2>2. QED
    BY <1>2, <2>1, AdminKeepsType DEF TypeOK, GatewayTypeOK, WorkerTypeOK
<1>3. ASSUME NEW w \in Workers, WorkerStep(w)
      PROVE  TypeOK'
  <2>1. CASE FinalizeRaises(w)
    <3>1. UNCHANGED <<dbVars, store, crashes>>
      BY <2>1 DEF FinalizeRaises
    <3>2. worker' \in [Workers -> WorkerState]
      BY <2>1, WorkerRows, Pcs DEF FinalizeRaises, GatewayResult
    <3>3. QED
      BY <3>1, <3>2 DEF TypeOK, DbTypeOK, GatewayTypeOK, WorkerTypeOK, dbVars
  <2>2. QED
    BY <1>3, <2>1, ClaimKeepsType, CallKeepsType, FinalizeEvaluationKeepsType,
       FinalizeJobKeepsType DEF WorkerStep
<1>4. ASSUME NEW w \in Workers, Crash(w)
      PROVE  TypeOK'
  <2>1. UNCHANGED <<dbVars, store>> /\ worker' \in [Workers -> WorkerState]
    BY <1>4, WorkerRows DEF Crash
  <2>2. crashes' \in 0 .. MaxCrashes
    BY <1>4, WorkerAssumption DEF Crash, TypeOK, WorkerTypeOK
  <2>3. QED
    BY <2>1, <2>2 DEF TypeOK, DbTypeOK, GatewayTypeOK, WorkerTypeOK, dbVars
<1>5. ASSUME NEW j \in JobIds, LeaseExpires(j)
      PROVE  TypeOK'
  <2>1. jobs \in [JobIds -> JobRow]
    BY DEF TypeOK, DbTypeOK
  <2>2. [jobs[j] EXCEPT !.expired = TRUE] \in JobRow
    BY <2>1 DEF JobRow
  <2>3. jobs' \in [JobIds -> JobRow]
    BY <1>5, <2>1, <2>2 DEF LeaseExpires
  <2>4. QED
    BY <1>5, <2>3 DEF LeaseExpires, TypeOK, DbTypeOK, GatewayTypeOK, WorkerTypeOK, workerVars
<1>6. CASE UNCHANGED vars
  BY <1>6 DEF vars, dbVars, workerVars, TypeOK, DbTypeOK, GatewayTypeOK,
              WorkerTypeOK
<1>7. QED
  BY <1>1, <1>2, <1>3, <1>4, <1>5, <1>6 DEF Next

-----------------------------------------------------------------------------
(* Most steps are quiet: they change states, leases and memories, and may  *)
(* add rows, but nothing that a key of the gateway is made of.             *)

CasesKept ==
    \A c \in CaseIds :
        /\ CaseExists(c) => CaseExists(c)' /\ cases'[c].payment = cases[c].payment
        /\ CaseExists(c)' => cases'[c].payment \in PaymentIds

SameJob(j) == /\ jobs'[j].case = jobs[j].case
              /\ jobs'[j].type = jobs[j].type
              /\ jobs'[j].attempt = jobs[j].attempt
              /\ jobs'[j].count = jobs[j].count

FitsIn(j) == /\ jobs'[j].case \in CaseIds
             /\ CaseExists(jobs[j].case)'
             /\ jobs'[j].attempt = 0
             /\ jobs'[j].count < MaxAttempts

JobsKept ==
    \A j \in JobIds :
        /\ JobExists(j) => JobExists(j)' /\ SameJob(j)
        /\ ~JobExists(j) /\ JobExists(j)' => FitsIn(j)

AttemptsKept ==
    \A c \in CaseIds, n \in AttemptNos :
        attempts'[c][n] = "ABSENT" <=> attempts[c][n] = "ABSENT"

Quiet == CasesKept /\ JobsKept /\ AttemptsKept /\ UNCHANGED store

(* No row of the engine's tables is orphaned by a quiet step. *)
LEMMA QuietKeepsRows ==
  ASSUME RowsAndWorkers, TypeOK', Quiet
  PROVE  RowsRefer' /\ JobsAreSound' /\ WriteAhead'
<1>1. RowsRefer'
  BY DEF RowsAndWorkers, RowsRefer, Quiet, CasesKept, JobsKept, AttemptsKept,
         SameJob, FitsIn
<1>2. JobsAreSound'
  <2> SUFFICES ASSUME NEW j \in JobIds, JobExists(j)'
               PROVE  /\ NextNumber(j)' <= MaxAttempts
                      /\ jobs'[j].attempt # 0 =>
                            /\ jobs'[j].type = "EXECUTE_CHARGE"
                            /\ jobs'[j].count = jobs'[j].attempt
                            /\ attempts'[jobs'[j].case][jobs'[j].attempt] # "ABSENT"
    BY DEF JobsAreSound
  <2>1. CASE JobExists(j)
    <3>1. SameJob(j)
      BY <2>1 DEF Quiet, JobsKept
    <3>2. jobs[j].case \in CaseIds /\ jobs[j].attempt \in AttemptNos \cup {0}
      BY <2>1 DEF RowsAndWorkers, RowsRefer, TypeOK, DbTypeOK, JobRow
    <3>3. QED
      BY <2>1, <3>1, <3>2 DEF RowsAndWorkers, JobsAreSound, NextNumber, SameJob,
                              Quiet, AttemptsKept
  <2>2. CASE ~JobExists(j)
    <3>1. FitsIn(j)
      BY <2>2 DEF Quiet, JobsKept
    <3>2. jobs'[j].count \in Int
      BY DEF TypeOK, DbTypeOK, JobRow, AttemptNos
    <3>3. QED
      BY <3>1, <3>2, MaxAttemptsAssumption DEF FitsIn, NextNumber
  <2>3. QED
    BY <2>1, <2>2
<1>3. WriteAhead'
  <2> SUFFICES ASSUME NEW p \in PaymentIds, NEW n \in AttemptNos,
                      store'[p][n] # "none"
               PROVE  \E c \in CaseIds : /\ cases'[c].payment = p
                                         /\ attempts'[c][n] # "ABSENT"
    BY DEF WriteAhead
  <2>1. PICK c \in CaseIds : cases[c].payment = p /\ attempts[c][n] # "ABSENT"
    BY DEF RowsAndWorkers, WriteAhead, Quiet
  <2>2. CaseExists(c)
    BY <2>1 DEF RowsAndWorkers, RowsRefer
  <2>3. QED
    BY <2>1, <2>2 DEF Quiet, CasesKept, AttemptsKept
<1>4. QED
  BY <1>1, <1>2, <1>3

LEMMA WebhookIsQuiet ==
  ASSUME RowsAndWorkers, Webhook
  PROVE  Quiet
<1> PICK e \in Events : ProcessWebhook(e)
  BY DEF Webhook
<1> e.payment \in PaymentIds
  BY EventsAssumption DEF WebhookEvent
<1> UNCHANGED store
  BY DEF Webhook
<1> USE DEF RowsAndWorkers, TypeOK, DbTypeOK, Quiet, CasesKept, JobsKept,
            AttemptsKept, SameJob, CaseExists, JobExists
<1>1. CASE AcknowledgeTerminal(e)
  BY <1>1 DEF AcknowledgeTerminal, RowsRefer
<1>2. CASE RecordRepeatedFailure(e)
  BY <1>2 DEF RecordRepeatedFailure, RowsRefer
<1>3. ASSUME NEW c \in CaseIds, NEW j \in JobIds, OpenCase(e, c, j)
      PROVE  Quiet
  <2>1. CasesKept
    BY <1>3 DEF OpenCase, RowsRefer
  <2>2. JobsKept
    BY <1>3, MaxAttemptsAssumption DEF OpenCase, NewJob, FitsIn
  <2>3. QED
    BY <1>3, <2>1, <2>2 DEF OpenCase
<1>4. CASE RecordSuccess(e)
  <2>1. CasesKept
    <3> SUFFICES ASSUME NEW c \in CaseIds
                 PROVE  /\ cases'[c].payment = cases[c].payment
                        /\ CaseExists(c)' <=> CaseExists(c)
      BY DEF RowsRefer
    <3>1. cases[c] \in CaseRow
      OBVIOUS
    <3>2. cases'[c] = IF c \in ActiveCases(e.payment)
                      THEN [cases[c] EXCEPT !.status = "RECOVERED"] ELSE cases[c]
      BY <1>4 DEF RecordSuccess
    <3>3. c \in ActiveCases(e.payment) => CaseExists(c)
      BY DEF ActiveCases, ActiveCase
    <3>4. QED
      BY <3>1, <3>2, <3>3 DEF CaseRow
  <2>2. JobsKept
    BY <1>4 DEF RecordSuccess, CancelPending, JobRow
  <2>3. QED
    BY <1>4, <2>1, <2>2 DEF RecordSuccess
<1>5. QED
  BY <1>1, <1>2, <1>3, <1>4 DEF ProcessWebhook

LEMMA AdminIsQuiet ==
  ASSUME RowsAndWorkers, Admin
  PROVE  Quiet
<1> PICK c \in CaseIds : StopCase(c) \/ RetryCase(c)
  BY DEF Admin
<1> UNCHANGED store
  BY DEF Admin
<1> USE DEF RowsAndWorkers, TypeOK, DbTypeOK, Quiet, CasesKept, JobsKept,
            AttemptsKept, SameJob, CaseExists, JobExists
<1>1. CASE RejectForPaid(c)
  BY <1>1 DEF RejectForPaid, RowsRefer, CaseRow
<1>2. CASE CloseCase(c)
  <2>1. CasesKept
    BY <1>2 DEF CloseCase, RowsRefer, CaseRow, ActiveCase
  <2>2. JobsKept
    BY <1>2 DEF CloseCase, CancelPending, JobRow
  <2>3. QED
    BY <1>2, <2>1, <2>2 DEF CloseCase
<1>3. ASSUME NEW j \in JobIds, ReopenCase(c, j)
      PROVE  Quiet
  <2>1. CasesKept
    BY <1>3 DEF ReopenCase, RowsRefer, CaseRow
  <2>2. JobsKept
    BY <1>3, MaxAttemptsAssumption DEF ReopenCase, NewJob, FitsIn, CaseRow
  <2>3. QED
    BY <1>3, <2>1, <2>2 DEF ReopenCase
<1>4. QED
  BY <1>1, <1>2, <1>3 DEF StopCase, RetryCase

(* The writes quiet worker steps are made of. *)
LEMMA CaseWritesKeep ==
  ASSUME RowsAndWorkers
  PROVE  /\ UNCHANGED cases => CasesKept
         /\ \A c \in CaseIds, s \in RecoveryState :
               CaseExists(c) /\ SetCase(c, s) => CasesKept
<1>1. UNCHANGED cases => CasesKept
  BY DEF RowsAndWorkers, RowsRefer, CasesKept, CaseExists
<1>2. ASSUME NEW c \in CaseIds, NEW s \in RecoveryState, CaseExists(c), SetCase(c, s)
      PROVE  CasesKept
  <2>1. s # "ABSENT"
    BY DEF RecoveryState
  <2>2. cases \in [CaseIds -> CaseRow]
    BY DEF RowsAndWorkers, TypeOK, DbTypeOK
  <2>3. QED
    BY <1>2, <2>1, <2>2 DEF SetCase, CasesKept, RowsAndWorkers, RowsRefer,
                            CaseExists, CaseRow
<1>3. QED
  BY <1>1, <1>2

LEMMA JobWritesKeep ==
  ASSUME RowsAndWorkers, CasesKept, NEW j \in JobIds, JobExists(j),
         NEW s \in JobState, NEW t \in JobType
  PROVE  /\ EndJob(j, s) => JobsKept
         /\ \A k \in JobIds :
               EndJobAndQueue(j, s, k, t) /\ jobs[j].count < MaxAttempts => JobsKept
<1>1. jobs \in [JobIds -> JobRow] /\ s # "ABSENT"
  BY DEF RowsAndWorkers, TypeOK, DbTypeOK, JobState
<1>2. EndJob(j, s) => JobsKept
  BY <1>1 DEF EndJob, Ended, JobsKept, SameJob, JobExists, JobRow
<1>3. ASSUME NEW k \in JobIds, EndJobAndQueue(j, s, k, t),
             jobs[j].count < MaxAttempts
      PROVE  JobsKept
  <2>1. k # j /\ ~JobExists(k)
    BY <1>3 DEF EndJobAndQueue
  <2>2. jobs'[k] = NewJob(jobs[j].case, t, jobs[j].count)
    BY <1>1, <1>3, <2>1 DEF EndJobAndQueue
  <2>3. FitsIn(k)
    BY <1>3, <2>2 DEF FitsIn, NewJob, RowsAndWorkers, RowsRefer, CasesKept
  <2>4. jobs'[j] = Ended(j, s)
    BY <1>1, <1>3, <2>1 DEF EndJobAndQueue
  <2>5. \A i \in JobIds \ {j, k} : jobs'[i] = jobs[i]
    BY <1>1, <1>3 DEF EndJobAndQueue
  <2>6. JobExists(j)' /\ SameJob(j)
    BY <1>1, <2>4 DEF Ended, JobExists, SameJob, JobRow
  <2>7. QED
    BY <2>1, <2>3, <2>5, <2>6 DEF JobsKept, JobExists, SameJob
<1>4. QED
  BY <1>2, <1>3

LEMMA UnchangedIsQuiet ==
  ASSUME RowsAndWorkers, UNCHANGED <<cases, jobs, attempts, store>>
  PROVE  Quiet
  BY CaseWritesKeep DEF Quiet, JobsKept, SameJob, JobExists, AttemptsKept

LEMMA LeaseStepIsQuiet ==
  ASSUME RowsAndWorkers, NEW j \in JobIds,
         \/ LeaseExpires(j)
         \/ \E w \in Workers : \/ ClaimForPaid(w, j)
                              \/ BeginEvaluation(w, j)
                              \/ ResumeAttempt(w, j)
  PROVE  Quiet
<1>1. jobs \in [JobIds -> JobRow]
  BY DEF RowsAndWorkers, TypeOK, DbTypeOK
<1>2. UNCHANGED <<cases, attempts, store>>
  BY DEF LeaseExpires, ClaimForPaid, BeginEvaluation, ResumeAttempt
<1>3. JobExists(j)
  BY DEF LeaseExpires, ClaimForPaid, BeginEvaluation, ResumeAttempt, Claimable,
         JobExists
<1>4. JobsKept
  <2>1. CASE LeaseExpires(j)
    BY <1>1, <2>1 DEF LeaseExpires, JobsKept, SameJob, JobExists, JobRow
  <2>2. ASSUME NEW w \in Workers, ClaimForPaid(w, j)
        PROVE  JobsKept
    <3> DEFINE r == [Claimed(w, j) EXCEPT !.status = "CANCELLED"]
    <3>1. /\ r.status = "CANCELLED" /\ r.case = jobs[j].case /\ r.type = jobs[j].type
          /\ r.attempt = jobs[j].attempt /\ r.count = jobs[j].count
      BY <1>1 DEF Claimed, JobRow
    <3>2. jobs' = [jobs EXCEPT ![j] = r]
      BY <2>2 DEF ClaimForPaid
    <3>3. QED
      BY <1>1, <1>3, <3>1, <3>2 DEF JobsKept, SameJob, JobExists
  <2>3. ASSUME NEW w \in Workers, BeginEvaluation(w, j) \/ ResumeAttempt(w, j)
        PROVE  JobsKept
    <3>1. jobs' = [jobs EXCEPT ![j] = Claimed(w, j)]
      BY <2>3 DEF BeginEvaluation, ResumeAttempt
    <3> DEFINE r == Claimed(w, j)
    <3>2. /\ r.status = "RUNNING" /\ r.case = jobs[j].case /\ r.type = jobs[j].type
          /\ r.attempt = jobs[j].attempt /\ r.count = jobs[j].count
      BY <1>1 DEF Claimed, JobRow
    <3>3. QED
      BY <1>1, <1>3, <3>1, <3>2 DEF JobsKept, SameJob, JobExists
  <2>4. QED
    BY <2>1, <2>2, <2>3
<1>5. QED
  BY <1>2, <1>4, CaseWritesKeep DEF Quiet, AttemptsKept

LEMMA FinalizeEvaluationIsQuiet ==
  ASSUME RowsAndWorkers, NEW w \in Workers, FinalizeEvaluation(w)
  PROVE  Quiet
<1>1. /\ worker[w].pc = "evaluating"
      /\ UNCHANGED <<attempts, store>>
  BY DEF FinalizeEvaluation, EvaluationFails, DecisionTooLate, DecideCharge,
         DecideDelay, DecideAbort, Deciding
<1>2. /\ Job(w) \in JobIds /\ JobExists(Job(w))
      /\ jobs[Job(w)].case \in CaseIds /\ CaseExists(jobs[Job(w)].case)
  BY <1>1, JobInHand
<1>3. jobs[Job(w)].count < MaxAttempts
  <2>1. jobs[Job(w)].attempt = 0
    BY <1>1, <1>2 DEF RowsAndWorkers, WorkersAreSound, JobsAreSound
  <2>2. jobs[Job(w)].count + 1 <= MaxAttempts /\ jobs[Job(w)].count \in Int
    BY <1>2, <2>1 DEF RowsAndWorkers, JobsAreSound, NextNumber, TypeOK, DbTypeOK,
                      JobRow, AttemptNos
  <2>3. QED
    BY <2>2, MaxAttemptsAssumption
<1>4. CasesKept
  <2>1. UNCHANGED cases \/ SetCase(jobs[Job(w)].case, "STOPPED")
    BY DEF FinalizeEvaluation, EvaluationFails, DecisionTooLate, DecideCharge,
           DecideDelay, DecideAbort
  <2>2. QED
    BY <1>2, <2>1, CaseWritesKeep DEF RecoveryState
<1>5. {"SUCCEEDED", "FAILED", "CANCELLED"} \subseteq JobState
  BY DEF JobState
<1>6. {"EVALUATE_RECOVERY", "EXECUTE_CHARGE"} \subseteq JobType
  BY DEF JobType
<1>7. JobsKept
  BY <1>2, <1>3, <1>4, <1>5, <1>6, JobWritesKeep
  DEF FinalizeEvaluation, EvaluationFails, DecisionTooLate, DecideCharge,
      DecideDelay, DecideAbort
<1>8. QED
  BY <1>1, <1>4, <1>7 DEF Quiet, AttemptsKept

LEMMA FinalizeJobIsQuiet ==
  ASSUME RowsAndWorkers, NEW w \in Workers, FinalizeJob(w)
  PROVE  Quiet
<1>1. worker[w].pc \in ChargePc /\ UNCHANGED store
  BY DEF FinalizeJob, FinalizeSuccess, FinalizeFailure, FinalizeExhausted,
         FinalizeAmbiguous, Finalizing, ChargePc
<1>2. worker[w].pc # "idle"
  BY <1>1 DEF ChargePc, FinalizePc
<1>3. /\ Job(w) \in JobIds /\ JobExists(Job(w))
      /\ jobs[Job(w)].case \in CaseIds /\ CaseExists(jobs[Job(w)].case)
  BY <1>2, JobInHand
<1>4. CasesKept
  <2>1. \/ UNCHANGED cases
        \/ SetCase(jobs[Job(w)].case, "STOPPED")
        \/ SetCase(jobs[Job(w)].case, "RECOVERED")
    BY DEF FinalizeJob, FinalizeSuccess, FinalizeFailure, FinalizeExhausted,
           FinalizeAmbiguous
  <2>2. QED
    BY <1>3, <2>1, CaseWritesKeep DEF RecoveryState
<1>5. JobsKept
  <2>1. {"SUCCEEDED", "PENDING"} \subseteq JobState
    BY DEF JobState
  <2>2. "EVALUATE_RECOVERY" \in JobType
    BY DEF JobType
  <2>3. QED
    BY <1>3, <1>4, <2>1, <2>2, JobWritesKeep
    DEF FinalizeJob, FinalizeSuccess, FinalizeFailure, FinalizeExhausted,
        FinalizeAmbiguous, AttemptsLeft
<1>6. AttemptsKept
  <2>1. attempts[jobs[Job(w)].case][worker[w].attempt] # "ABSENT"
    BY <1>1, <1>2, <1>3 DEF RowsAndWorkers, WorkersAreSound, JobsAreSound
  <2>2. PICK s \in AttemptState : SettleAttempt(w, s)
    BY DEF FinalizeJob, FinalizeSuccess, FinalizeFailure, FinalizeExhausted,
           FinalizeAmbiguous, AttemptState
  <2>3. s # "ABSENT"
    BY DEF AttemptState
  <2>4. QED
    BY <1>3, <2>1, <2>2, <2>3 DEF SettleAttempt, AttemptsKept, RowsAndWorkers,
                                  TypeOK, DbTypeOK
<1>7. QED
  BY <1>1, <1>4, <1>5, <1>6 DEF Quiet

(* The two steps that are not quiet. *)
LEMMA StartAttemptKeepsRows ==
  ASSUME RowsAndWorkers, TypeOK', NEW w \in Workers, NEW j \in JobIds,
         StartAttempt(w, j)
  PROVE  RowsRefer' /\ JobsAreSound' /\ WriteAhead'
<1> DEFINE c == jobs[j].case
           n == jobs[j].count + 1
           r == [Claimed(w, j) EXCEPT !.attempt = n, !.count = n]
<1>1. /\ jobs \in [JobIds -> JobRow]
      /\ attempts \in [CaseIds -> [AttemptNos -> AttemptState \cup {"ABSENT"}]]
  BY DEF RowsAndWorkers, TypeOK, DbTypeOK
<1>2. /\ JobExists(j) /\ jobs[j].attempt = 0 /\ n \in AttemptNos
      /\ jobs[j].type = "EXECUTE_CHARGE"
      /\ jobs' = [jobs EXCEPT ![j] = r]
      /\ attempts' = [attempts EXCEPT ![c][n] = "RUNNING"]
      /\ UNCHANGED <<cases, store>>
  BY DEF StartAttempt, Claimable, JobExists, InsertAttempt
<1>3. c \in CaseIds /\ CaseExists(c) /\ n <= MaxAttempts
  BY <1>2 DEF RowsAndWorkers, RowsRefer, JobsAreSound, NextNumber
<1>4. /\ r.status = "RUNNING" /\ r.case = c /\ r.type = "EXECUTE_CHARGE"
      /\ r.attempt = n /\ r.count = n
  BY <1>1, <1>2 DEF Claimed, JobRow
<1>5. \A d \in CaseIds, m \in AttemptNos :
         attempts'[d][m] # "ABSENT" <=> attempts[d][m] # "ABSENT" \/ (d = c /\ m = n)
  BY <1>1, <1>2, <1>3
<1>6. \A i \in JobIds : i # j => jobs'[i] = jobs[i]
  BY <1>1, <1>2
<1>7. jobs'[j] = r
  BY <1>1, <1>2
<1> HIDE DEF r, c, n
<1>8. RowsRefer'
  <2>1. \A i \in JobIds : JobExists(i)' => jobs'[i].case \in CaseIds /\ CaseExists(jobs[i].case)'
    BY <1>2, <1>3, <1>4, <1>6, <1>7 DEF RowsAndWorkers, RowsRefer, JobExists, CaseExists
  <2>2. QED
    BY <1>2, <1>3, <1>5, <2>1 DEF RowsAndWorkers, RowsRefer, CaseExists
<1>9. JobsAreSound'
  <2> SUFFICES ASSUME NEW i \in JobIds, JobExists(i)'
               PROVE  /\ NextNumber(i)' <= MaxAttempts
                      /\ jobs'[i].attempt # 0 =>
                            /\ jobs'[i].type = "EXECUTE_CHARGE"
                            /\ jobs'[i].count = jobs'[i].attempt
                            /\ attempts'[jobs'[i].case][jobs'[i].attempt] # "ABSENT"
    BY DEF JobsAreSound
  <2>1. CASE i = j
    <3>1. n # 0
      BY <1>2 DEF AttemptNos
    <3>2. QED
      BY <1>2, <1>3, <1>4, <1>5, <1>7, <2>1, <3>1 DEF NextNumber
  <2>2. CASE i # j
    <3>1. JobExists(i) /\ jobs'[i] = jobs[i]
      BY <1>6, <2>2 DEF JobExists
    <3>2. jobs[i].case \in CaseIds /\ jobs[i].attempt \in AttemptNos \cup {0}
      BY <1>1, <3>1 DEF RowsAndWorkers, RowsRefer, JobRow
    <3>3. QED
      BY <1>5, <3>1, <3>2 DEF RowsAndWorkers, JobsAreSound, NextNumber
  <2>3. QED
    BY <2>1, <2>2
<1>10. WriteAhead'
  BY <1>2, <1>5 DEF RowsAndWorkers, WriteAhead
<1>11. QED
  BY <1>8, <1>9, <1>10

LEMMA ChargeKeepsRows ==
  ASSUME RowsAndWorkers, NEW w \in Workers, Charge(w)
  PROVE  RowsRefer' /\ JobsAreSound' /\ WriteAhead'
<1> DEFINE p == PaymentOf(Job(w))
           n == worker[w].attempt
           c == jobs[Job(w)].case
<1>1. UNCHANGED <<cases, jobs, attempts>>
  BY DEF Charge, dbVars
<1>2. RowsRefer' /\ JobsAreSound'
  BY <1>1 DEF RowsAndWorkers, RowsRefer, JobsAreSound, CaseExists, JobExists, NextNumber
<1>3. worker[w].pc \in ChargePc /\ worker[w].pc # "idle"
  BY DEF Charge, ChargePc
<1>4. c \in CaseIds /\ attempts[c][n] # "ABSENT"
  BY <1>3, KeyInHand DEF RowsAndWorkers, WorkersAreSound, JobsAreSound
<1>5. \A q \in PaymentIds, m \in AttemptNos :
         store'[q][m] = store[q][m] \/ (q = p /\ m = n)
  BY DEF Charge, ChargeAnswer, RowsAndWorkers, TypeOK, GatewayTypeOK
<1>6. WriteAhead'
  BY <1>1, <1>4, <1>5 DEF WriteAhead, RowsAndWorkers, PaymentOf
<1>7. QED
  BY <1>2, <1>6

-----------------------------------------------------------------------------
(* Workers: those that go on with what they hold, and those that claim. *)

GoesOn(v) ==
    worker'[v].pc # "idle" =>
        /\ worker[v].pc # "idle"
        /\ worker'[v].job = worker[v].job
        /\ worker'[v].attempt = worker[v].attempt
        /\ worker'[v].pc = "evaluating" => worker[v].pc = "evaluating"
        /\ worker'[v].pc \in ChargePc => worker[v].pc \in ChargePc

LEMMA GoingOnIsSound ==
  ASSUME RowsAndWorkers, JobsKept, \A v \in Workers : GoesOn(v)
  PROVE  WorkersAreSound'
<1> SUFFICES ASSUME NEW v \in Workers, worker'[v].pc # "idle"
             PROVE  /\ Job(v)' \in JobIds
                    /\ JobExists(Job(v))'
                    /\ worker'[v].pc = "evaluating"
                          => jobs'[Job(v)'].type = "EVALUATE_RECOVERY"
                    /\ worker'[v].pc \in ChargePc =>
                          /\ worker'[v].attempt # 0
                          /\ jobs'[Job(v)'].attempt = worker'[v].attempt
  BY DEF WorkersAreSound
<1>1. Job(v)' = Job(v) /\ worker[v].pc # "idle"
  BY DEF GoesOn, Job
<1>2. Job(v) \in JobIds /\ JobExists(Job(v))
  BY <1>1, JobInHand
<1>3. SameJob(Job(v)) /\ JobExists(Job(v))'
  BY <1>1, <1>2 DEF JobsKept, JobExists
<1>4. QED
  BY <1>1, <1>2, <1>3 DEF RowsAndWorkers, WorkersAreSound, GoesOn, SameJob

(* Every step but the claims leaves the workers going on. *)
LEMMA OthersGoOn ==
  ASSUME RowsAndWorkers,
         \/ Webhook \/ Admin \/ UNCHANGED vars
         \/ \E j \in JobIds : LeaseExpires(j)
         \/ \E w \in Workers, j \in JobIds : ClaimForPaid(w, j)
         \/ \E w \in Workers : \/ VerifyPayment(w) \/ Charge(w)
                              \/ FinalizeEvaluation(w) \/ FinalizeJob(w)
                              \/ FinalizeRaises(w) \/ Crash(w)
  PROVE  \A v \in Workers : GoesOn(v)
<1>1. worker \in [Workers -> WorkerState]
  BY DEF RowsAndWorkers, TypeOK, WorkerTypeOK
<1>2. CASE UNCHANGED worker
  BY <1>2 DEF GoesOn
<1>3. ASSUME NEW w \in Workers, Release(w)
      PROVE  \A v \in Workers : GoesOn(v)
  BY <1>1, <1>3 DEF GoesOn, Release, Idle
<1>4. ASSUME NEW w \in Workers, worker[w].pc \in ChargePc, NEW pc \in ChargePc,
             \/ Goto(w, pc)
             \/ \E r : worker' = [worker EXCEPT ![w].pc = pc, ![w].result = r]
      PROVE  \A v \in Workers : GoesOn(v)
  BY <1>1, <1>4 DEF GoesOn, Goto, WorkerState, ChargePc, FinalizePc
<1>5. {"verifying", "charging", "ambiguous", "reconciled", "finalizing",
       "refinalizing"} = ChargePc
  BY DEF ChargePc, FinalizePc
<1>6. ASSUME NEW w \in Workers, VerifyPayment(w) \/ Charge(w) \/ FinalizeRaises(w)
      PROVE  \A v \in Workers : GoesOn(v)
  <2>1. CASE VerifyPayment(w)
    BY <1>4, <1>5, <2>1 DEF VerifyPayment
  <2>2. CASE Charge(w)
    BY <1>4, <1>5, <2>2 DEF Charge
  <2>3. CASE FinalizeRaises(w)
    BY <1>3, <1>4, <1>5, <2>3 DEF FinalizeRaises
  <2>4. QED
    BY <1>6, <2>1, <2>2, <2>3
<1>7. \/ UNCHANGED worker
      \/ \E w \in Workers : Release(w)
      \/ \E w \in Workers : VerifyPayment(w) \/ Charge(w) \/ FinalizeRaises(w)
  BY DEF Webhook, Admin, vars, LeaseExpires, ClaimForPaid, workerVars, Crash,
         FinalizeEvaluation, EvaluationFails, DecisionTooLate, DecideCharge,
         DecideDelay, DecideAbort, FinalizeJob, FinalizeSuccess, FinalizeFailure,
         FinalizeExhausted, FinalizeAmbiguous
<1>8. QED
  BY <1>2, <1>3, <1>6, <1>7

(* A claim gives worker w job j; the others keep what they hold. *)
LEMMA ClaimsAreSound ==
  ASSUME RowsAndWorkers, NEW w \in Workers, NEW j \in JobIds,
         BeginEvaluation(w, j) \/ StartAttempt(w, j) \/ ResumeAttempt(w, j)
  PROVE  WorkersAreSound'
<1>1. /\ jobs \in [JobIds -> JobRow] /\ worker \in [Workers -> WorkerState]
  BY DEF RowsAndWorkers, TypeOK, DbTypeOK, WorkerTypeOK
<1>2. JobExists(j)
  BY DEF BeginEvaluation, StartAttempt, ResumeAttempt, Claimable, JobExists
<1> DEFINE r == jobs'[j]
<1>3. /\ r.status = "RUNNING" /\ r.type = jobs[j].type
      /\ jobs[j].attempt # 0 => r.attempt = jobs[j].attempt
      /\ \A i \in JobIds \ {j} : jobs'[i] = jobs[i]
  <2>1. CASE jobs' = [jobs EXCEPT ![j] = Claimed(w, j)]
    BY <1>1, <2>1 DEF Claimed, JobRow
  <2>2. CASE StartAttempt(w, j)
    <3>1. PICK n : jobs' = [jobs EXCEPT ![j] = [Claimed(w, j) EXCEPT !.attempt = n,
                                                                     !.count = n]]
      BY <2>2 DEF StartAttempt
    <3>2. jobs[j].attempt = 0
      BY <2>2 DEF StartAttempt
    <3>3. QED
      BY <1>1, <3>1, <3>2 DEF Claimed, JobRow
  <2>3. QED
    BY <2>1, <2>2 DEF BeginEvaluation, ResumeAttempt
<1>4. \A i \in JobIds \ {j} : jobs'[i] = jobs[i]
  BY <1>3
<1>5. jobs[j].attempt # 0 => jobs'[j].attempt = jobs[j].attempt
  BY <1>3
<1>6. \A v \in Workers \ {w} : worker'[v] = worker[v]
  <2>1. PICK x : worker' = [worker EXCEPT ![w] = x]
    <3>1. \/ \E x : BeginEvaluation(w, j) /\ worker' = [worker EXCEPT ![w] = x]
          \/ \E x : StartAttempt(w, j) /\ worker' = [worker EXCEPT ![w] = x]
          \/ \E x : ResumeAttempt(w, j) /\ worker' = [worker EXCEPT ![w] = x]
      BY DEF BeginEvaluation, StartAttempt, ResumeAttempt
    <3>2. QED
      BY <3>1
  <2>2. QED
    BY <1>1, <2>1
<1>7. /\ worker'[w].job = j
      /\ \/ worker'[w].pc = "evaluating" /\ jobs[j].type = "EVALUATE_RECOVERY"
         \/ /\ worker'[w].pc \in {"verifying", "charging"}
            /\ worker'[w].attempt # 0
            /\ worker'[w].attempt = jobs'[j].attempt
  <2>1. CASE BeginEvaluation(w, j)
    BY <1>1, <2>1 DEF BeginEvaluation, Idle
  <2>2. CASE StartAttempt(w, j)
    <3> DEFINE n == jobs[j].count + 1
    <3>1. n # 0
      BY <2>2 DEF StartAttempt, AttemptNos
    <3>2. /\ worker' = [worker EXCEPT ![w] = [Idle EXCEPT !.pc = "verifying",
                                                          !.job = j, !.attempt = n]]
          /\ jobs' = [jobs EXCEPT ![j] = [Claimed(w, j) EXCEPT !.attempt = n,
                                                               !.count = n]]
      BY <2>2 DEF StartAttempt
    <3> HIDE DEF n
    <3>3. worker'[w].pc = "verifying" /\ worker'[w].job = j /\ worker'[w].attempt = n
      BY <1>1, <3>2 DEF Idle
    <3>4. jobs'[j].attempt = n
      BY <1>1, <3>2 DEF Claimed, JobRow
    <3>5. QED
      BY <3>1, <3>3, <3>4
  <2>3. CASE ResumeAttempt(w, j)
    <3> DEFINE n == jobs[j].attempt
    <3>1. PICK pc \in {"verifying", "charging"} :
            worker' = [worker EXCEPT ![w] = [Idle EXCEPT !.pc = pc, !.job = j,
                                                         !.attempt = n]]
      BY <2>3 DEF ResumeAttempt
    <3>2. worker'[w].pc = pc /\ worker'[w].job = j /\ worker'[w].attempt = n
      BY <1>1, <3>1 DEF Idle
    <3>3. n # 0
      BY <2>3 DEF ResumeAttempt
    <3>4. QED
      BY <1>5, <3>2, <3>3
  <2>4. QED
    BY <2>1, <2>2, <2>3
<1>8. ASSUME NEW v \in Workers, worker'[v].pc # "idle"
      PROVE  /\ Job(v)' \in JobIds
             /\ JobExists(Job(v))'
             /\ worker'[v].pc = "evaluating"
                   => jobs'[Job(v)'].type = "EVALUATE_RECOVERY"
             /\ worker'[v].pc \in ChargePc =>
                   worker'[v].attempt # 0 /\ jobs'[Job(v)'].attempt = worker'[v].attempt
  <2>1. CASE v = w
    BY <1>3, <1>7, <2>1 DEF Job, JobExists, ChargePc, FinalizePc
  <2>2. CASE v # w
    <3>1. worker'[v] = worker[v] /\ worker[v].pc # "idle" /\ Job(v)' = Job(v)
      BY <1>6, <1>8, <2>2 DEF Job
    <3>2. Job(v) \in JobIds /\ JobExists(Job(v))
      BY <3>1, JobInHand
    <3>3. JobExists(Job(v))' /\ jobs'[Job(v)].type = jobs[Job(v)].type
      BY <1>3, <1>4, <3>1, <3>2 DEF JobExists
    <3>4. jobs[Job(v)].attempt # 0 => jobs'[Job(v)].attempt = jobs[Job(v)].attempt
      BY <1>4, <1>5, <3>2
    <3>5. QED
      BY <3>1, <3>2, <3>3, <3>4 DEF RowsAndWorkers, WorkersAreSound
  <2>3. QED
    BY <2>1, <2>2
<1>9. QED
  BY <1>8 DEF WorkersAreSound

(* Quiet steps, a new attempt, a charge: there are no others. *)
LEMMA StepKinds ==
  ASSUME RowsAndWorkers, [Next]_vars
  PROVE  \/ Quiet /\ \A v \in Workers : GoesOn(v)
         \/ Quiet /\ \E w \in Workers, j \in JobIds :
                        BeginEvaluation(w, j) \/ ResumeAttempt(w, j)
         \/ \E w \in Workers, j \in JobIds : StartAttempt(w, j)
         \/ \E w \in Workers : Charge(w)
<1>1. CASE Webhook \/ Admin
  BY <1>1, WebhookIsQuiet, AdminIsQuiet, OthersGoOn
<1>2. ASSUME NEW j \in JobIds, LeaseExpires(j)
      PROVE  Quiet /\ \A v \in Workers : GoesOn(v)
  BY <1>2, LeaseStepIsQuiet, OthersGoOn
<1>3. ASSUME NEW w \in Workers, NEW j \in JobIds, ClaimForPaid(w, j)
      PROVE  Quiet /\ \A v \in Workers : GoesOn(v)
  BY <1>3, LeaseStepIsQuiet, OthersGoOn
<1>4. ASSUME NEW w \in Workers, FinalizeEvaluation(w) \/ FinalizeJob(w)
      PROVE  Quiet /\ \A v \in Workers : GoesOn(v)
  BY <1>4, FinalizeEvaluationIsQuiet, FinalizeJobIsQuiet, OthersGoOn
<1>5. ASSUME NEW w \in Workers, VerifyPayment(w) \/ FinalizeRaises(w) \/ Crash(w)
      PROVE  Quiet /\ \A v \in Workers : GoesOn(v)
  <2>1. UNCHANGED <<cases, jobs, attempts, store>>
    BY <1>5 DEF VerifyPayment, FinalizeRaises, Crash, dbVars
  <2>2. QED
    BY <1>5, <2>1, UnchangedIsQuiet, OthersGoOn
<1>6. CASE UNCHANGED vars
  <2>1. UNCHANGED <<cases, jobs, attempts, store>>
    BY <1>6 DEF vars, dbVars
  <2>2. QED
    BY <1>6, <2>1, UnchangedIsQuiet, OthersGoOn
<1>7. ASSUME NEW w \in Workers, NEW j \in JobIds,
             BeginEvaluation(w, j) \/ ResumeAttempt(w, j)
      PROVE  Quiet
  BY <1>7, LeaseStepIsQuiet
<1>8. QED
  BY <1>1, <1>2, <1>3, <1>4, <1>5, <1>6, <1>7 DEF Next, WorkerStep, Claim

LEMMA InitRowsAndWorkers == Init => RowsAndWorkers
<1> SUFFICES ASSUME Init
             PROVE  RowsAndWorkers
  OBVIOUS
<1>1. TypeOK
  BY InitTypeOK
<1>2. /\ \A c \in CaseIds : ~CaseExists(c)
      /\ \A j \in JobIds : ~JobExists(j)
      /\ \A c \in CaseIds, n \in AttemptNos : attempts[c][n] = "ABSENT"
  BY DEF Init, DbInit, NoCase, NoJob, NewJob, CaseExists, JobExists
<1>3. \A p \in PaymentIds, n \in AttemptNos : store[p][n] = "none"
  BY DEF Init, GatewayInit
<1>4. \A w \in Workers : worker[w].pc = "idle"
  BY DEF Init, WorkerInit, Idle
<1>5. QED
  BY <1>1, <1>2, <1>3, <1>4 DEF RowsAndWorkers, RowsRefer, JobsAreSound,
                                WorkersAreSound, WriteAhead

LEMMA StepKeepsRowsAndWorkers == RowsAndWorkers /\ [Next]_vars => RowsAndWorkers'
<1> SUFFICES ASSUME RowsAndWorkers, [Next]_vars
             PROVE  RowsAndWorkers'
  OBVIOUS
<1>1. TypeOK'
  BY StepKeepsType
<1>2. CASE Quiet /\ \A v \in Workers : GoesOn(v)
  BY <1>1, <1>2, QuietKeepsRows, GoingOnIsSound DEF Quiet, RowsAndWorkers
<1>3. ASSUME Quiet, NEW w \in Workers, NEW j \in JobIds,
             BeginEvaluation(w, j) \/ ResumeAttempt(w, j)
      PROVE  RowsAndWorkers'
  BY <1>1, <1>3, QuietKeepsRows, ClaimsAreSound DEF RowsAndWorkers
<1>4. ASSUME NEW w \in Workers, NEW j \in JobIds, StartAttempt(w, j)
      PROVE  RowsAndWorkers'
  BY <1>1, <1>4, StartAttemptKeepsRows, ClaimsAreSound DEF RowsAndWorkers
<1>5. ASSUME NEW w \in Workers, Charge(w)
      PROVE  RowsAndWorkers'
  <2>1. JobsKept
    BY <1>5 DEF Charge, dbVars, JobsKept, SameJob, JobExists
  <2>2. WorkersAreSound'
    BY <1>5, <2>1, OthersGoOn, GoingOnIsSound
  <2>3. QED
    BY <1>1, <1>5, <2>2, ChargeKeepsRows DEF RowsAndWorkers
<1>6. QED
  BY <1>2, <1>3, <1>4, <1>5, StepKinds

(* Type correctness, and with it that rows refer to rows that exist and    *)
(* that workers remember their jobs as they are.                           *)
THEOREM RowsAndWorkersInvariant == Spec => []RowsAndWorkers
<1>1. QED
  BY InitRowsAndWorkers, StepKeepsRowsAndWorkers, PTL DEF Spec

(* Every row and every worker always has the shape its table gives it. *)
THEOREM TypeCorrect == Spec => []TypeOK
<1>1. RowsAndWorkers => TypeOK
  BY DEF RowsAndWorkers
<1>2. QED
  BY <1>1, RowsAndWorkersInvariant, PTL

(* No charge reaches the gateway before its attempt row is committed, even *)
(* when finalizing transactions abort.                                     *)
THEOREM WriteAheadHolds == Spec => []WriteAhead
<1>1. RowsAndWorkers => WriteAhead
  BY DEF RowsAndWorkers
<1>2. QED
  BY <1>1, RowsAndWorkersInvariant, PTL

LEMMA BudgetIsKept == RowsAndWorkers => RetryBudget
<1> SUFFICES ASSUME RowsAndWorkers
             PROVE  RetryBudget
  OBVIOUS
<1>1. ASSUME NEW c \in CaseIds
      PROVE  attempts[c][MaxAttempts + 1] = "ABSENT"
  <2>1. MaxAttempts + 1 \in AttemptNos /\ ~(MaxAttempts + 1 <= MaxAttempts)
    BY MaxAttemptsAssumption DEF AttemptNos
  <2>2. QED
    BY <2>1 DEF RowsAndWorkers, RowsRefer
<1>2. ASSUME NEW j \in JobIds, JobExists(j), jobs[j].type = "EVALUATE_RECOVERY"
      PROVE  jobs[j].count < MaxAttempts
  <2>1. jobs[j].attempt = 0 /\ NextNumber(j) <= MaxAttempts
    BY <1>2 DEF RowsAndWorkers, JobsAreSound
  <2>2. jobs[j].count \in Int
    BY DEF RowsAndWorkers, TypeOK, DbTypeOK, JobRow, AttemptNos
  <2>3. QED
    BY <2>1, <2>2, MaxAttemptsAssumption DEF NextNumber
<1>3. QED
  BY <1>1, <1>2 DEF RetryBudget

(* No interleaving gives a case more than max_attempts attempts. *)
THEOREM RetryBudgetHolds == Spec => []RetryBudget
BY BudgetIsKept, RowsAndWorkersInvariant, PTL

LEMMA StepKeepsPaid ==
  ASSUME RowsAndWorkers, [Next]_vars, NEW p \in PaymentIds, Paid(p)
  PROVE  Paid(p)'
<1>1. payments \in [PaymentIds -> PaymentRow]
  BY DEF RowsAndWorkers, TypeOK, DbTypeOK
<1>2. CASE Webhook
  <2>1. PICK e \in Events : ProcessWebhook(e)
    BY <1>2 DEF Webhook
  <2>2. CASE AcknowledgeTerminal(e)
    BY <2>2 DEF AcknowledgeTerminal, Paid
  <2>3. ASSUME NEW s, ~Terminal(e.payment), PutPayment(e, s)
        PROVE  Paid(p)'
    BY <1>1, <2>3 DEF Terminal, PutPayment, Paid
  <2>4. QED
    BY <2>1, <2>2, <2>3 DEF ProcessWebhook, RecordRepeatedFailure, OpenCase,
                            RecordSuccess
<1>3. ASSUME NEW w \in Workers, FinalizeSuccess(w)
      PROVE  Paid(p)'
  BY <1>1, <1>3 DEF FinalizeSuccess, Paid, PaymentRow
<1>4. \/ UNCHANGED payments
      \/ Webhook
      \/ \E w \in Workers : FinalizeSuccess(w)
  BY ZenonT(30) DEF Next, WorkerStep, Claim, Admin, StopCase, RetryCase, RejectForPaid,
     CloseCase, ReopenCase, LeaseExpires, ClaimForPaid, BeginEvaluation,
     StartAttempt, ResumeAttempt, VerifyPayment, Charge, FinalizeRaises, Crash,
     FinalizeEvaluation, EvaluationFails, DecisionTooLate, DecideCharge,
     DecideDelay, DecideAbort, FinalizeJob, FinalizeFailure, FinalizeExhausted,
     FinalizeAmbiguous, vars, dbVars
<1>5. QED
  BY <1>2, <1>3, <1>4 DEF Paid

(* No late failure event, stale worker or administrator takes a payment    *)
(* out of SUCCEEDED.                                                       *)
THEOREM PaymentSuccessIsFinalHolds == Spec => PaymentSuccessIsFinal
<1>1. RowsAndWorkers /\ [Next]_vars =>
         [\A p \in PaymentIds : Paid(p) => Paid(p)']_vars
  BY StepKeepsPaid
<1>2. QED
  BY <1>1, RowsAndWorkersInvariant, PTL DEF Spec, PaymentSuccessIsFinal

-----------------------------------------------------------------------------
(***************************************************************************)
(* Charges: AtMostOneCharge, LedgerAgrees and the refinement of            *)
(* ChargeLedger, with CommitsMayAbort = FALSE (run double_charge shows     *)
(* that the hypothesis is needed).  IInv is inductive: its first conjunct  *)
(* is proved above, the other three are taken one by one here.             *)
(***************************************************************************)

(* What no step does to rows, to leases and to the store.                  *)

KeysKept ==
    \A j \in JobIds : JobExists(j) =>
        /\ jobs'[j].case = jobs[j].case
        /\ PaymentOf(j)' = PaymentOf(j)

(* No step changes what case a job belongs to, or what payment a case does. *)
LEMMA StepKeepsKeys ==
  ASSUME RowsAndWorkers, [Next]_vars
  PROVE  KeysKept
<1>1. CASE Quiet
  BY <1>1 DEF Quiet, CasesKept, JobsKept, SameJob, KeysKept, PaymentOf,
              RowsAndWorkers, RowsRefer
<1>2. ASSUME NEW w \in Workers, NEW i \in JobIds, StartAttempt(w, i)
      PROVE  KeysKept
  <2>1. jobs \in [JobIds -> JobRow]
    BY DEF RowsAndWorkers, TypeOK, DbTypeOK
  <2>2. PICK n : jobs' = [jobs EXCEPT ![i] = [Claimed(w, i) EXCEPT !.attempt = n,
                                                                   !.count = n]]
    BY <1>2 DEF StartAttempt
  <2>3. \A j \in JobIds : jobs'[j].case = jobs[j].case
    BY <2>1, <2>2 DEF Claimed, JobRow
  <2>4. UNCHANGED cases
    BY <1>2 DEF StartAttempt
  <2>5. QED
    BY <2>3, <2>4 DEF KeysKept, PaymentOf
<1>3. ASSUME NEW w \in Workers, Charge(w)
      PROVE  KeysKept
  BY <1>3 DEF Charge, dbVars, KeysKept, PaymentOf
<1>4. QED
  BY <1>1, <1>2, <1>3, StepKinds

(* The store changes only in a charge, at the key the worker has in hand,  *)
(* and only if nothing was stored there.                                   *)
StoreKept ==
    \A p \in PaymentIds, n \in AttemptNos :
        store[p][n] # "none" => store'[p][n] = store[p][n]

LEMMA ChargeStores ==
  ASSUME RowsAndWorkers, NEW w \in Workers, Charge(w),
         NEW p, p = PaymentOf(Job(w)), NEW n, n = worker[w].attempt
  PROVE  /\ p \in PaymentIds /\ n \in AttemptNos /\ n <= MaxAttempts
         /\ n = NextNumber(Job(w)) /\ Job(w) \in JobIds /\ JobExists(Job(w))
         /\ \/ UNCHANGED store
            \/ /\ store[p][n] = "none"
               /\ \E outcome \in GatewayResult :
                     store' = [store EXCEPT ![p][n] = outcome]
<1>1. worker[w].pc \in ChargePc /\ worker[w].pc # "idle"
  BY DEF Charge, ChargePc
<1>2. Job(w) \in JobIds /\ JobExists(Job(w)) /\ n # 0 /\ jobs[Job(w)].attempt = n
  BY <1>1 DEF RowsAndWorkers, WorkersAreSound
<1>3. n = NextNumber(Job(w)) /\ n <= MaxAttempts
  BY <1>2 DEF NextNumber, RowsAndWorkers, JobsAreSound
<1>4. p \in PaymentIds /\ n \in AttemptNos
  BY <1>1, KeyInHand
<1>5. \/ UNCHANGED store
      \/ store[p][n] = "none" /\ \E outcome \in GatewayResult :
                                    store' = [store EXCEPT ![p][n] = outcome]
  <2>1. PICK reply \in GatewayResult \cup {"timeout"} : ChargeAnswer(p, n, reply)
    BY DEF Charge
  <2>2. QED
    BY <2>1 DEF ChargeAnswer, GatewayResult
<1>6. QED
  BY <1>2, <1>3, <1>4, <1>5

LEMMA StepKeepsStore ==
  ASSUME RowsAndWorkers, [Next]_vars
  PROVE  StoreKept
<1>1. ASSUME NEW w \in Workers, Charge(w)
      PROVE  StoreKept
  BY <1>1, ChargeStores DEF RowsAndWorkers, TypeOK, GatewayTypeOK, StoreKept
<1>2. CASE UNCHANGED store
  BY <1>2 DEF StoreKept
<1>3. QED
  BY <1>1, <1>2, StepKinds DEF Quiet, StartAttempt

-----------------------------------------------------------------------------
(* A lease goes to a worker that is idle, never to one with a job in hand. *)
OwnersKept ==
    \A j \in JobIds, v \in Workers :
        /\ JobExists(j)
        /\ worker[v].pc # "idle"
        /\ jobs'[j].owner = v
        => jobs[j].owner = v

LEMMA WritesKeepOwners ==
  ASSUME RowsAndWorkers, NEW j \in JobIds, NEW s
  PROVE  /\ EndJob(j, s) => OwnersKept
         /\ \A k \in JobIds : \A t : EndJobAndQueue(j, s, k, t) => OwnersKept
<1>1. jobs \in [JobIds -> JobRow]
  BY DEF RowsAndWorkers, TypeOK, DbTypeOK
<1>2. Ended(j, s).owner = jobs[j].owner
  BY <1>1 DEF Ended, JobRow
<1>3. EndJob(j, s) => OwnersKept
  BY <1>1, <1>2 DEF EndJob, OwnersKept
<1>4. ASSUME NEW k \in JobIds, NEW t, EndJobAndQueue(j, s, k, t)
      PROVE  OwnersKept
  <2>1. jobs' = [jobs EXCEPT ![j] = Ended(j, s),
                             ![k] = NewJob(jobs[j].case, t, jobs[j].count)]
    BY <1>4 DEF EndJobAndQueue
  <2>2. \A i \in JobIds : i # k => jobs'[i].owner = jobs[i].owner
    BY <1>1, <1>2, <2>1
  <2>3. ~JobExists(k)
    BY <1>4 DEF EndJobAndQueue
  <2>4. QED
    BY <2>2, <2>3 DEF OwnersKept
<1>5. QED
  BY <1>3, <1>4

LEMMA StepKeepsOwners ==
  ASSUME RowsAndWorkers, [Next]_vars
  PROVE  OwnersKept
<1>1. jobs \in [JobIds -> JobRow]
  BY DEF RowsAndWorkers, TypeOK, DbTypeOK
<1>2. CASE UNCHANGED jobs
  BY <1>2 DEF OwnersKept
<1>3. ASSUME NEW S, jobs' = CancelPending(S)
      PROVE  OwnersKept
  BY <1>1, <1>3 DEF CancelPending, OwnersKept, JobRow
<1>4. ASSUME NEW k \in JobIds, ~JobExists(k), NEW r, jobs' = [jobs EXCEPT ![k] = r]
      PROVE  OwnersKept
  BY <1>1, <1>4 DEF OwnersKept
<1>5. ASSUME NEW w \in Workers, worker[w].pc = "idle", NEW j \in JobIds, NEW r,
             jobs' = [jobs EXCEPT ![j] = r], r.owner = w
      PROVE  OwnersKept
  BY <1>1, <1>5 DEF OwnersKept
<1>6. CASE Webhook
  <2>1. PICK e \in Events : ProcessWebhook(e)
    BY <1>6 DEF Webhook
  <2>2. QED
    BY <2>1, <1>2, <1>3, <1>4 DEF ProcessWebhook, AcknowledgeTerminal,
                                  RecordRepeatedFailure, OpenCase, RecordSuccess
<1>7. CASE Admin
  BY <1>7, <1>2, <1>3, <1>4 DEF Admin, StopCase, RetryCase, RejectForPaid,
                                CloseCase, ReopenCase
<1>8. ASSUME NEW j \in JobIds, LeaseExpires(j)
      PROVE  OwnersKept
  BY <1>1, <1>8 DEF LeaseExpires, OwnersKept, JobRow
<1>9. ASSUME NEW w \in Workers, Claim(w)
      PROVE  OwnersKept
  <2>1. PICK j \in JobIds : \/ ClaimForPaid(w, j)
                            \/ BeginEvaluation(w, j)
                            \/ StartAttempt(w, j)
                            \/ ResumeAttempt(w, j)
    BY <1>9 DEF Claim
  <2>2. worker[w].pc = "idle"
    BY <2>1 DEF ClaimForPaid, BeginEvaluation, StartAttempt, ResumeAttempt
  <2>3. CASE ClaimForPaid(w, j)
    <3>1. [Claimed(w, j) EXCEPT !.status = "CANCELLED"].owner = w
      BY <1>1 DEF Claimed, JobRow
    <3>2. jobs' = [jobs EXCEPT ![j] = [Claimed(w, j) EXCEPT !.status = "CANCELLED"]]
      BY <2>3 DEF ClaimForPaid
    <3>3. QED
      BY <1>5, <2>2, <3>1, <3>2
  <2>4. CASE BeginEvaluation(w, j) \/ ResumeAttempt(w, j)
    <3>1. Claimed(w, j).owner = w
      BY <1>1 DEF Claimed, JobRow
    <3>2. jobs' = [jobs EXCEPT ![j] = Claimed(w, j)]
      BY <2>4 DEF BeginEvaluation, ResumeAttempt
    <3>3. QED
      BY <1>5, <2>2, <3>1, <3>2
  <2>5. CASE StartAttempt(w, j)
    <3>1. PICK n : jobs' = [jobs EXCEPT ![j] = [Claimed(w, j) EXCEPT !.attempt = n,
                                                                     !.count = n]]
      BY <2>5 DEF StartAttempt
    <3>2. [Claimed(w, j) EXCEPT !.attempt = n, !.count = n].owner = w
      BY <1>1 DEF Claimed, JobRow
    <3>3. QED
      BY <1>5, <2>2, <3>1, <3>2
  <2>6. QED
    BY <2>1, <2>3, <2>4, <2>5
<1>10. ASSUME NEW w \in Workers, FinalizeEvaluation(w)
       PROVE  OwnersKept
  <2>1. Job(w) \in JobIds
    BY <1>10, JobInHand DEF FinalizeEvaluation, EvaluationFails, DecisionTooLate,
                            DecideCharge, DecideDelay, DecideAbort, Deciding
  <2>2. QED
    BY <1>10, <2>1, WritesKeepOwners
    DEF FinalizeEvaluation, EvaluationFails, DecisionTooLate, DecideCharge,
        DecideDelay, DecideAbort
<1>11. ASSUME NEW w \in Workers, FinalizeJob(w)
       PROVE  OwnersKept
  <2>1. worker[w].pc \in ChargePc
    BY <1>11 DEF FinalizeJob, FinalizeSuccess, FinalizeFailure, FinalizeExhausted,
                 FinalizeAmbiguous, Finalizing, ChargePc
  <2>2. QED
    BY <1>11, <2>1, KeyInHand, WritesKeepOwners
    DEF FinalizeJob, FinalizeSuccess, FinalizeFailure, FinalizeExhausted,
        FinalizeAmbiguous
<1>12. ASSUME NEW w \in Workers,
              VerifyPayment(w) \/ Charge(w) \/ FinalizeRaises(w) \/ Crash(w)
       PROVE  OwnersKept
  BY <1>2, <1>12 DEF VerifyPayment, Charge, FinalizeRaises, Crash, dbVars
<1>13. QED
  BY <1>2, <1>6, <1>7, <1>8, <1>9, <1>10, <1>11, <1>12
  DEF Next, WorkerStep, vars, dbVars

-----------------------------------------------------------------------------
(* ResultsAreReal: a worker learns a result from the gateway, or makes one *)
(* up when it has lost its lease, and neither fact changes afterwards.     *)

LEMMA HowResultsAppear ==
  ASSUME RowsAndWorkers, [Next]_vars, NEW v \in Workers,
         worker'[v].pc \in FinalizePc
  PROVE  \/ worker'[v] = worker[v]
         \/ VerifyPayment(v) /\ worker'[v].pc = "reconciled"
         \/ Charge(v) /\ worker'[v].pc = "finalizing"
         \/ FinalizeRaises(v) /\ worker'[v].pc = "refinalizing"
<1>1. worker \in [Workers -> WorkerState]
  BY DEF RowsAndWorkers, TypeOK, WorkerTypeOK
<1>2. ASSUME NEW w \in Workers, NEW r, worker' = [worker EXCEPT ![w] = r],
             r.pc \notin FinalizePc
      PROVE  worker'[v] = worker[v]
  BY <1>1, <1>2
<1>3. ASSUME NEW w \in Workers, Release(w)
      PROVE  worker'[v] = worker[v]
  BY <1>2, <1>3 DEF Release, Idle, FinalizePc
<1>4. ASSUME NEW w \in Workers, NEW j \in JobIds,
             BeginEvaluation(w, j) \/ StartAttempt(w, j) \/ ResumeAttempt(w, j)
      PROVE  worker'[v] = worker[v]
  <2>1. \A pc : pc \in {"evaluating", "verifying", "charging"} =>
           \A n : [Idle EXCEPT !.pc = pc, !.job = j, !.attempt = n].pc \notin FinalizePc
    BY DEF Idle, FinalizePc
  <2>2. [Idle EXCEPT !.pc = "evaluating", !.job = j].pc \notin FinalizePc
    BY DEF Idle, FinalizePc
  <2>3. CASE BeginEvaluation(w, j)
    BY <1>2, <2>2, <2>3 DEF BeginEvaluation
  <2>4. CASE StartAttempt(w, j)
    <3>1. PICK n : worker' = [worker EXCEPT ![w] = [Idle EXCEPT !.pc = "verifying",
                                                      !.job = j, !.attempt = n]]
      BY <2>4 DEF StartAttempt
    <3>2. QED
      BY <1>2, <2>1, <3>1
  <2>5. CASE ResumeAttempt(w, j)
    <3>1. PICK pc \in {"verifying", "charging"} :
            worker' = [worker EXCEPT ![w] = [Idle EXCEPT !.pc = pc, !.job = j,
                                                  !.attempt = jobs[j].attempt]]
      BY <2>5 DEF ResumeAttempt
    <3>2. QED
      BY <1>2, <2>1, <3>1
  <2>6. QED
    BY <1>4, <2>3, <2>4, <2>5
<1>5. ASSUME NEW w \in Workers, VerifyPayment(w) \/ Charge(w) \/ FinalizeRaises(w)
      PROVE  w # v => worker'[v] = worker[v]
  BY <1>1, <1>5 DEF VerifyPayment, Charge, FinalizeRaises, Goto, Release
<1>6. VerifyPayment(v) => worker'[v].pc = "reconciled"
  BY <1>1 DEF VerifyPayment, Goto, FinalizePc, WorkerState
<1>7. Charge(v) => worker'[v].pc = "finalizing"
  BY <1>1 DEF Charge, Goto, FinalizePc, WorkerState
<1>8. FinalizeRaises(v) => worker'[v].pc = "refinalizing"
  BY <1>1 DEF FinalizeRaises, Release, Idle, FinalizePc, WorkerState
<1>9. \/ UNCHANGED worker
      \/ \E w \in Workers : \/ Release(w)
                            \/ VerifyPayment(w) \/ Charge(w) \/ FinalizeRaises(w)
                            \/ \E j \in JobIds : \/ BeginEvaluation(w, j)
                                                 \/ StartAttempt(w, j)
                                                 \/ ResumeAttempt(w, j)
  BY DEF Next, WorkerStep, Claim, Webhook, Admin, vars, workerVars, LeaseExpires,
         ClaimForPaid, Crash, FinalizeEvaluation, EvaluationFails, DecisionTooLate,
         DecideCharge, DecideDelay, DecideAbort, FinalizeJob, FinalizeSuccess,
         FinalizeFailure, FinalizeExhausted, FinalizeAmbiguous
<1>10. QED
  BY <1>3, <1>4, <1>5, <1>6, <1>7, <1>8, <1>9

(* What comes from the gateway, whether or not commits abort. *)
AnswersAreReal ==
    \A w \in Workers : worker[w].pc \in {"reconciled", "finalizing"} =>
        /\ worker[w].result \in GatewayResult
        /\ store[PaymentOf(Job(w))][worker[w].attempt] = worker[w].result

LEMMA StepKeepsAnswers ==
  ASSUME RowsAndWorkers, AnswersAreReal, [Next]_vars
  PROVE  AnswersAreReal'
<1>1. KeysKept /\ StoreKept
  BY StepKeepsKeys, StepKeepsStore
<1>2. ASSUME NEW v \in Workers, worker'[v].pc \in {"reconciled", "finalizing"}
      PROVE  /\ worker'[v].result \in GatewayResult
             /\ store'[PaymentOf(Job(v))'][worker'[v].attempt] = worker'[v].result
  <2> DEFINE p == PaymentOf(Job(v))
             n == worker[v].attempt
  <2>1. CASE worker'[v] = worker[v]
    <3>1. Job(v)' = Job(v) /\ worker[v].pc \in ChargePc
      BY <1>2, <2>1 DEF Job, ChargePc, FinalizePc
    <3>2. p \in PaymentIds /\ n \in AttemptNos /\ PaymentOf(Job(v))' = p
      BY <1>1, <3>1, KeyInHand DEF KeysKept
    <3>3. worker[v].result \in GatewayResult /\ store[p][n] = worker[v].result
      BY <1>2, <2>1 DEF AnswersAreReal
    <3>4. store'[p][n] = store[p][n]
      BY <1>1, <3>2, <3>3 DEF StoreKept, GatewayResult
    <3>5. QED
      BY <2>1, <3>2, <3>3, <3>4
  <2>2. CASE VerifyPayment(v) /\ worker'[v].pc = "reconciled"
    <3>1. worker[v].pc \in ChargePc /\ worker[v].pc = "verifying"
      BY <2>2 DEF VerifyPayment, ChargePc
    <3>2. p \in PaymentIds /\ n \in AttemptNos /\ UNCHANGED <<cases, jobs, store>>
      BY <2>2, <3>1, KeyInHand DEF VerifyPayment, dbVars
    <3>3. worker \in [Workers -> WorkerState] /\ worker[v] \in WorkerState
      BY DEF RowsAndWorkers, TypeOK, WorkerTypeOK
    <3>4. worker' = [worker EXCEPT ![v].pc = "reconciled",
                                   ![v].result = VerifyPaymentStatus(p, n)]
          /\ VerifyPaymentStatus(p, n) # "not_found"
      BY <2>2, <3>3 DEF VerifyPayment, Goto, WorkerState
    <3>5. /\ worker'[v].job = worker[v].job /\ worker'[v].attempt = n
          /\ worker'[v].result = VerifyPaymentStatus(p, n)
      BY <3>3, <3>4 DEF WorkerState
    <3>6. VerifyPaymentStatus(p, n) = store[p][n] /\ store[p][n] \in GatewayResult
      BY <3>2, <3>4 DEF VerifyPaymentStatus, RowsAndWorkers, TypeOK, GatewayTypeOK
    <3>7. QED
      BY <3>2, <3>5, <3>6 DEF PaymentOf, Job
  <2>3. CASE Charge(v) /\ worker'[v].pc = "finalizing"
    <3>1. worker[v].pc \in ChargePc /\ worker[v].pc = "charging"
      BY <2>3 DEF Charge, ChargePc
    <3>2. p \in PaymentIds /\ n \in AttemptNos /\ UNCHANGED <<cases, jobs>>
      BY <2>3, <3>1, KeyInHand DEF Charge, dbVars
    <3>3. worker \in [Workers -> WorkerState] /\ worker[v] \in WorkerState
      BY DEF RowsAndWorkers, TypeOK, WorkerTypeOK
    <3>4. PICK reply \in GatewayResult :
             /\ ChargeAnswer(p, n, reply)
             /\ worker' = [worker EXCEPT ![v].pc = "finalizing", ![v].result = reply]
      BY <2>3, <3>3 DEF Charge, Goto, WorkerState, GatewayResult
    <3>5. /\ worker'[v].job = worker[v].job /\ worker'[v].attempt = n
          /\ worker'[v].result = reply
      BY <3>3, <3>4 DEF WorkerState
    <3>6. store'[p][n] = reply
      BY <3>2, <3>4 DEF ChargeAnswer, GatewayResult, RowsAndWorkers, TypeOK,
                        GatewayTypeOK
    <3>7. QED
      BY <3>2, <3>5, <3>6 DEF PaymentOf, Job
  <2>4. QED
    BY <1>2, <2>1, <2>2, <2>3, HowResultsAppear DEF FinalizePc
<1>3. QED
  BY <1>2 DEF AnswersAreReal

LEMMA StepKeepsResults ==
  ASSUME CommitsMayAbort = FALSE, RowsAndWorkers, ResultsAreReal, [Next]_vars
  PROVE  ResultsAreReal'
<1>1. OwnersKept
  BY StepKeepsOwners
<1>2. AnswersAreReal'
  BY StepKeepsAnswers DEF ResultsAreReal, AnswersAreReal
<1>3. ASSUME NEW v \in Workers, worker'[v].pc = "refinalizing"
      PROVE  ~HoldsLease(v)'
  <2>1. worker[v].pc # "idle" /\ ~HoldsLease(v) /\ worker'[v].job = worker[v].job
    <3>1. CASE worker'[v] = worker[v]
      BY <1>3, <3>1 DEF ResultsAreReal
    <3>2. CASE FinalizeRaises(v)
      <4>1. worker \in [Workers -> WorkerState] /\ worker[v] \in WorkerState
        BY DEF RowsAndWorkers, TypeOK, WorkerTypeOK
      <4>2. worker[v].pc = "finalizing" /\ ~HoldsLease(v)
        BY <1>3, <3>2, <4>1 DEF FinalizeRaises, Release, Idle
      <4>3. worker'[v].job = worker[v].job
        BY <3>2, <4>1, <4>2 DEF FinalizeRaises, WorkerState
      <4>4. QED
        BY <4>2, <4>3
    <3>3. QED
      BY <1>3, <3>1, <3>2, HowResultsAppear DEF FinalizePc
  <2>2. QED
    BY <1>1, <2>1, JobInHand DEF OwnersKept, HoldsLease, Job
<1>4. QED
  BY <1>2, <1>3 DEF ResultsAreReal, AnswersAreReal

(* What is in hand when the ownership check of a charge is passed. *)
LEMMA AnswerInHand ==
  ASSUME RowsAndWorkers, ResultsAreReal, NEW w \in Workers, Finalizing(w)
  PROVE  /\ PaymentOf(Job(w)) \in PaymentIds /\ worker[w].attempt \in AttemptNos
         /\ Job(w) \in JobIds /\ JobExists(Job(w))
         /\ jobs[Job(w)].attempt = worker[w].attempt
         /\ store[PaymentOf(Job(w))][worker[w].attempt] = worker[w].result
<1>1. worker[w].pc \in ChargePc /\ worker[w].pc # "idle" /\ HoldsLease(w)
  BY DEF Finalizing, ChargePc, FinalizePc
<1>2. worker[w].pc \in {"reconciled", "finalizing"}
  BY <1>1 DEF Finalizing, FinalizePc, ResultsAreReal
<1>3. QED
  BY <1>1, <1>2, KeyInHand DEF ResultsAreReal, RowsAndWorkers, WorkersAreSound

-----------------------------------------------------------------------------
(* ChargesInOrder: a job that appears takes over the number of the job it  *)
(* replaces, or the next one when the attempt is known to have failed.     *)

LEMMA HowJobsAppear ==
  ASSUME RowsAndWorkers, [Next]_vars, NEW k \in JobIds, ~JobExists(k), JobExists(k)'
  PROVE  /\ jobs'[k].attempt = 0
         /\ \/ jobs'[k].count = 0
            \/ \E w \in Workers :
                  /\ FinalizeEvaluation(w) \/ \E i \in JobIds : FinalizeFailure(w, i)
                  /\ jobs'[k].case = jobs[Job(w)].case
                  /\ jobs'[k].count = jobs[Job(w)].count
<1>1. jobs \in [JobIds -> JobRow]
  BY DEF RowsAndWorkers, TypeOK, DbTypeOK
<1>2. ASSUME NEW i \in JobIds, NEW r, jobs' = [jobs EXCEPT ![i] = r]
      PROVE  i = k
  BY <1>1, <1>2 DEF JobExists
<1>3. ASSUME NEW S, jobs' = CancelPending(S)
      PROVE  FALSE
  BY <1>1, <1>3 DEF CancelPending, JobExists
<1>4. ASSUME UNCHANGED jobs
      PROVE  FALSE
  BY <1>4 DEF JobExists
<1>5. CASE Webhook
  <2>1. PICK e \in Events, c \in CaseIds, j \in JobIds : OpenCase(e, c, j)
    BY <1>3, <1>4, <1>5 DEF Webhook, ProcessWebhook, AcknowledgeTerminal,
                            RecordRepeatedFailure, RecordSuccess
  <2>2. jobs' = [jobs EXCEPT ![j] = NewJob(c, "EVALUATE_RECOVERY", 0)]
    BY <2>1 DEF OpenCase
  <2>3. QED
    BY <1>1, <1>2, <2>2 DEF NewJob
<1>6. CASE Admin
  <2>1. PICK c \in CaseIds, j \in JobIds : ReopenCase(c, j)
    BY <1>3, <1>4, <1>6 DEF Admin, StopCase, RetryCase, RejectForPaid, CloseCase
  <2>2. jobs' = [jobs EXCEPT ![j] = NewJob(c, "EVALUATE_RECOVERY", 0)]
    BY <2>1 DEF ReopenCase
  <2>3. QED
    BY <1>1, <1>2, <2>2 DEF NewJob
<1>7. ASSUME NEW w \in Workers, NEW i \in JobIds, NEW s, NEW t, Job(w) \in JobIds,
             JobExists(Job(w)), EndJobAndQueue(Job(w), s, i, t)
      PROVE  /\ jobs'[k].attempt = 0
             /\ jobs'[k].case = jobs[Job(w)].case
             /\ jobs'[k].count = jobs[Job(w)].count
  <2>1. jobs' = [jobs EXCEPT ![Job(w)] = Ended(Job(w), s),
                             ![i] = NewJob(jobs[Job(w)].case, t, jobs[Job(w)].count)]
    BY <1>7 DEF EndJobAndQueue
  <2>2. i = k
    BY <1>1, <1>7, <2>1 DEF JobExists
  <2>3. QED
    BY <1>1, <2>1, <2>2 DEF NewJob
<1>8. ASSUME NEW w \in Workers, Job(w) \in JobIds, JobExists(Job(w)), NEW s,
             EndJob(Job(w), s)
      PROVE  FALSE
  BY <1>2, <1>8 DEF EndJob
<1>9. ASSUME NEW w \in Workers, FinalizeEvaluation(w)
      PROVE  /\ jobs'[k].attempt = 0
             /\ jobs'[k].case = jobs[Job(w)].case
             /\ jobs'[k].count = jobs[Job(w)].count
  <2>1. Job(w) \in JobIds /\ JobExists(Job(w))
    BY <1>9, JobInHand DEF FinalizeEvaluation, EvaluationFails, DecisionTooLate,
                           DecideCharge, DecideDelay, DecideAbort, Deciding
  <2>2. QED
    BY <1>7, <1>8, <1>9, <2>1 DEF FinalizeEvaluation, EvaluationFails,
       DecisionTooLate, DecideCharge, DecideDelay, DecideAbort
<1>10. ASSUME NEW w \in Workers, FinalizeJob(w)
       PROVE  /\ \E i \in JobIds : FinalizeFailure(w, i)
              /\ jobs'[k].attempt = 0
              /\ jobs'[k].case = jobs[Job(w)].case
              /\ jobs'[k].count = jobs[Job(w)].count
  <2>1. worker[w].pc \in ChargePc
    BY <1>10 DEF FinalizeJob, FinalizeSuccess, FinalizeFailure, FinalizeExhausted,
                 FinalizeAmbiguous, Finalizing, ChargePc
  <2>2. Job(w) \in JobIds /\ JobExists(Job(w))
    BY <2>1, KeyInHand
  <2>3. PICK i \in JobIds : FinalizeFailure(w, i)
    BY <1>8, <1>10, <2>2 DEF FinalizeJob, FinalizeSuccess, FinalizeExhausted,
                             FinalizeAmbiguous
  <2>4. QED
    BY <1>7, <2>2, <2>3 DEF FinalizeFailure
<1>11. ASSUME NEW j \in JobIds, NEW w \in Workers,
              \/ ClaimForPaid(w, j) \/ BeginEvaluation(w, j)
              \/ StartAttempt(w, j) \/ ResumeAttempt(w, j)
       PROVE  FALSE
  <2>1. JobExists(j)
    BY <1>11 DEF ClaimForPaid, BeginEvaluation, StartAttempt, ResumeAttempt,
                 Claimable, JobExists
  <2>2. \A i \in JobIds : i # j => jobs'[i] = jobs[i]
    BY <1>1, <1>11 DEF ClaimForPaid, BeginEvaluation, StartAttempt, ResumeAttempt
  <2>3. QED
    BY <2>1, <2>2 DEF JobExists
<1>12. ASSUME NEW w \in Workers,
              VerifyPayment(w) \/ Charge(w) \/ FinalizeRaises(w) \/ Crash(w)
       PROVE  FALSE
  BY <1>4, <1>12 DEF VerifyPayment, Charge, FinalizeRaises, Crash, dbVars
<1>13. ASSUME NEW j \in JobIds, LeaseExpires(j)
       PROVE  FALSE
  BY <1>1, <1>13 DEF LeaseExpires, JobExists
<1>14. QED
  BY <1>4, <1>5, <1>6, <1>9, <1>10, <1>11, <1>12, <1>13
  DEF Next, WorkerStep, Claim, vars, dbVars

(* What has failed stays failed. *)
LEMMA FailuresStay ==
  ASSUME StoreKept, NEW p \in PaymentIds, NEW n, FailedBefore(p, n)
  PROVE  FailedBefore(p, n)'
  BY DEF StoreKept, FailedBefore

LEMMA StepKeepsJobOrder ==
  ASSUME RowsAndWorkers, ResultsAreReal, ChargesInOrder, [Next]_vars,
         NEW k \in JobIds, JobExists(k)'
  PROVE  FailedBefore(PaymentOf(k), NextNumber(k))'
<1>1. KeysKept /\ StoreKept
  BY StepKeepsKeys, StepKeepsStore
<1>2. CASE JobExists(k)
  <2>1. NextNumber(k)' = NextNumber(k)
    <3>1. CASE JobsKept
      BY <1>2, <3>1 DEF JobsKept, SameJob, NextNumber
    <3>2. ASSUME NEW w \in Workers, NEW j \in JobIds, StartAttempt(w, j)
          PROVE  NextNumber(k)' = NextNumber(k)
      <4> DEFINE n == jobs[j].count + 1
      <4>1. /\ n # 0 /\ jobs[j].attempt = 0
            /\ jobs' = [jobs EXCEPT ![j] = [Claimed(w, j) EXCEPT !.attempt = n,
                                                                 !.count = n]]
        BY <3>2 DEF StartAttempt, AttemptNos
      <4>2. NextNumber(j) = n
        BY <4>1 DEF NextNumber
      <4> HIDE DEF n
      <4>3. jobs \in [JobIds -> JobRow]
        BY DEF RowsAndWorkers, TypeOK, DbTypeOK
      <4>4. jobs'[j].attempt = n /\ (k # j => jobs'[k] = jobs[k])
        BY <4>1, <4>3 DEF Claimed, JobRow
      <4>5. QED
        BY <4>1, <4>2, <4>4 DEF NextNumber
    <3>3. ASSUME NEW w \in Workers, Charge(w)
          PROVE  NextNumber(k)' = NextNumber(k)
      BY <3>3 DEF Charge, dbVars, NextNumber
    <3>4. QED
      BY <3>1, <3>2, <3>3, StepKinds DEF Quiet
  <2>2. PaymentOf(k)' = PaymentOf(k) /\ PaymentOf(k) \in PaymentIds
    BY <1>1, <1>2 DEF KeysKept, PaymentOf, RowsAndWorkers, RowsRefer
  <2>3. FailedBefore(PaymentOf(k), NextNumber(k))
    BY <1>2 DEF ChargesInOrder
  <2>4. QED
    BY <1>1, <2>1, <2>2, <2>3, FailuresStay DEF FailedBefore
<1>3. CASE ~JobExists(k) /\ jobs'[k].count = 0
  <2>1. NextNumber(k)' = 1
    BY <1>3, HowJobsAppear DEF NextNumber
  <2>2. QED
    BY <2>1 DEF FailedBefore, AttemptNos
<1>4. ASSUME ~JobExists(k), jobs'[k].attempt = 0,
             NEW w \in Workers, jobs'[k].case = jobs[Job(w)].case,
             jobs'[k].count = jobs[Job(w)].count,
             FinalizeEvaluation(w) \/ \E i \in JobIds : FinalizeFailure(w, i)
      PROVE  FailedBefore(PaymentOf(k), NextNumber(k))'
  <2> DEFINE p == PaymentOf(Job(w))
             n == jobs[Job(w)].count + 1
  <2>1. worker[w].pc # "idle"
    BY <1>4 DEF FinalizeEvaluation, EvaluationFails, DecisionTooLate, DecideCharge,
                DecideDelay, DecideAbort, Deciding, FinalizeFailure, Finalizing,
                FinalizePc
  <2>2. Job(w) \in JobIds /\ JobExists(Job(w)) /\ p \in PaymentIds
    BY <2>1, JobInHand
  <2>3. NextNumber(k)' = n
    BY <1>4 DEF NextNumber
  <2>4. PaymentOf(k)' = p
    <3>1. Quiet
      BY <1>4, FinalizeEvaluationIsQuiet, FinalizeJobIsQuiet DEF FinalizeJob
    <3>2. cases'[jobs[Job(w)].case].payment = p
      BY <2>1, <3>1, JobInHand DEF Quiet, CasesKept, PaymentOf
    <3>3. QED
      BY <1>4, <3>2 DEF PaymentOf
  <2>5. FailedBefore(p, n)
    <3>1. CASE FinalizeEvaluation(w)
      <4>1. jobs[Job(w)].attempt = 0
        BY <2>1, <2>2, <3>1 DEF FinalizeEvaluation, EvaluationFails, DecisionTooLate,
           DecideCharge, DecideDelay, DecideAbort, Deciding, RowsAndWorkers,
           WorkersAreSound, JobsAreSound
      <4>2. QED
        BY <2>2, <4>1 DEF ChargesInOrder, NextNumber
    <3>2. ASSUME NEW i \in JobIds, FinalizeFailure(w, i)
          PROVE  FailedBefore(p, n)
      <4> DEFINE m == worker[w].attempt
      <4>1. /\ Finalizing(w) /\ worker[w].result = "failed"
        BY <3>2 DEF FinalizeFailure
      <4>2. store[p][m] = "failed" /\ jobs[Job(w)].attempt = m /\ m \in AttemptNos
        BY <4>1, AnswerInHand
      <4>3. m # 0 /\ jobs[Job(w)].count = m
        BY <2>2, <4>2 DEF AttemptNos, RowsAndWorkers, JobsAreSound
      <4>4. FailedBefore(p, m)
        BY <2>2, <4>2, <4>3 DEF ChargesInOrder, NextNumber
      <4>5. n = m + 1
        BY <4>3
      <4>6. QED
        BY <4>2, <4>4, <4>5, MaxAttemptsAssumption DEF FailedBefore, AttemptNos
    <3>3. QED
      BY <1>4, <3>1, <3>2
  <2>6. QED
    BY <1>1, <2>2, <2>3, <2>4, <2>5, FailuresStay DEF FailedBefore
<1>5. QED
  BY <1>2, <1>3, <1>4, HowJobsAppear

LEMMA StepKeepsChargeOrder ==
  ASSUME RowsAndWorkers, ResultsAreReal, ChargesInOrder, [Next]_vars
  PROVE  ChargesInOrder'
<1>1. StoreKept
  BY StepKeepsStore
<1>2. ASSUME NEW p \in PaymentIds, NEW n \in AttemptNos, store'[p][n] # "none"
      PROVE  FailedBefore(p, n)'
  <2>1. CASE store[p][n] # "none"
    BY <1>1, <2>1, FailuresStay DEF ChargesInOrder
  <2>2. CASE store[p][n] = "none"
    <3>1. PICK w \in Workers : Charge(w)
      BY <1>2, <2>2, StepKinds DEF Quiet, StartAttempt
    <3> DEFINE q == PaymentOf(Job(w))
               m == worker[w].attempt
    <3>2. /\ m = NextNumber(Job(w)) /\ Job(w) \in JobIds /\ JobExists(Job(w))
          /\ \/ UNCHANGED store
             \/ \E outcome \in GatewayResult : store' = [store EXCEPT ![q][m] = outcome]
      BY <3>1, ChargeStores
    <3>3. p = q /\ n = m
      BY <1>2, <2>2, <3>2 DEF RowsAndWorkers, TypeOK, GatewayTypeOK
    <3>4. FailedBefore(p, n)
      BY <3>2, <3>3 DEF ChargesInOrder
    <3>5. QED
      BY <1>1, <3>4, FailuresStay
  <2>3. QED
    BY <2>1, <2>2
<1>3. QED
  BY <1>2, StepKeepsJobOrder DEF ChargesInOrder

-----------------------------------------------------------------------------
(* LedgerAgrees: an attempt is settled with the answer in hand.            *)

LEMMA HowAttemptsSettle ==
  ASSUME RowsAndWorkers, [Next]_vars, NEW c \in CaseIds, NEW n \in AttemptNos,
         attempts'[c][n] # attempts[c][n],
         attempts'[c][n] \in {"SUCCEEDED", "FAILED"}
  PROVE  \E w \in Workers :
            /\ FinalizeJob(w) /\ Finalizing(w)
            /\ c = jobs[Job(w)].case /\ n = worker[w].attempt
            /\ attempts'[c][n] = "SUCCEEDED" => worker[w].result = "succeeded"
            /\ attempts'[c][n] = "FAILED" => worker[w].result = "failed"
<1>1. attempts \in [CaseIds -> [AttemptNos -> AttemptState \cup {"ABSENT"}]]
  BY DEF RowsAndWorkers, TypeOK, DbTypeOK
<1>2. ASSUME NEW w \in Workers, NEW j \in JobIds, StartAttempt(w, j)
      PROVE  FALSE
  BY <1>1, <1>2 DEF StartAttempt, InsertAttempt
<1>3. ASSUME NEW w \in Workers, NEW s, SettleAttempt(w, s)
      PROVE  c = jobs[Job(w)].case /\ n = worker[w].attempt /\ attempts'[c][n] = s
  BY <1>1, <1>3 DEF SettleAttempt
<1>4. ASSUME NEW w \in Workers, FinalizeJob(w)
      PROVE  /\ Finalizing(w)
             /\ c = jobs[Job(w)].case /\ n = worker[w].attempt
             /\ attempts'[c][n] = "SUCCEEDED" => worker[w].result = "succeeded"
             /\ attempts'[c][n] = "FAILED" => worker[w].result = "failed"
  <2>1. CASE FinalizeSuccess(w)
    BY <1>3, <2>1 DEF FinalizeSuccess
  <2>2. CASE FinalizeExhausted(w) \/ \E k \in JobIds : FinalizeFailure(w, k)
    BY <1>3, <2>2 DEF FinalizeExhausted, FinalizeFailure
  <2>3. CASE FinalizeAmbiguous(w)
    BY <1>3, <2>3 DEF FinalizeAmbiguous
  <2>4. QED
    BY <1>4, <2>1, <2>2, <2>3 DEF FinalizeJob
<1>5. \/ UNCHANGED attempts
      \/ \E w \in Workers : FinalizeJob(w) \/ \E j \in JobIds : StartAttempt(w, j)
  BY DEF Next, WorkerStep, Claim, Webhook, ProcessWebhook, AcknowledgeTerminal,
         RecordRepeatedFailure, OpenCase, RecordSuccess, Admin, StopCase, RetryCase,
         RejectForPaid, CloseCase, ReopenCase, LeaseExpires, ClaimForPaid,
         BeginEvaluation, ResumeAttempt, VerifyPayment, Charge, FinalizeRaises,
         Crash, FinalizeEvaluation, EvaluationFails, DecisionTooLate, DecideCharge,
         DecideDelay, DecideAbort, vars, dbVars
<1>6. QED
  BY <1>2, <1>4, <1>5

LEMMA StepKeepsLedger ==
  ASSUME RowsAndWorkers, ResultsAreReal, LedgerAgrees, [Next]_vars
  PROVE  LedgerAgrees'
<1> SUFFICES ASSUME NEW c \in CaseIds, NEW n \in AttemptNos,
                    attempts'[c][n] \in {"SUCCEEDED", "FAILED"}
             PROVE  /\ attempts'[c][n] = "SUCCEEDED" =>
                          store'[cases'[c].payment][n] = "succeeded"
                    /\ attempts'[c][n] = "FAILED" =>
                          store'[cases'[c].payment][n] = "failed"
  BY DEF LedgerAgrees
<1>1. CASE attempts'[c][n] = attempts[c][n]
  <2>1. CaseExists(c) /\ cases[c].payment \in PaymentIds
    BY <1>1 DEF RowsAndWorkers, RowsRefer
  <2>2. cases'[c].payment = cases[c].payment
    <3>1. CASE Quiet
      BY <2>1, <3>1 DEF Quiet, CasesKept
    <3>2. CASE ~Quiet
      BY <3>2, StepKinds DEF StartAttempt, Charge, dbVars
    <3>3. QED
      BY <3>1, <3>2
  <2>3. StoreKept
    BY StepKeepsStore
  <2>4. /\ attempts[c][n] = "SUCCEEDED" => store[cases[c].payment][n] = "succeeded"
        /\ attempts[c][n] = "FAILED" => store[cases[c].payment][n] = "failed"
    BY DEF LedgerAgrees
  <2>5. QED
    BY <1>1, <2>1, <2>2, <2>3, <2>4 DEF StoreKept
<1>2. CASE attempts'[c][n] # attempts[c][n]
  <2>1. PICK w \in Workers :
            /\ FinalizeJob(w) /\ Finalizing(w)
            /\ c = jobs[Job(w)].case /\ n = worker[w].attempt
            /\ attempts'[c][n] = "SUCCEEDED" => worker[w].result = "succeeded"
            /\ attempts'[c][n] = "FAILED" => worker[w].result = "failed"
    BY <1>2, HowAttemptsSettle
  <2>2. /\ store[cases[c].payment][n] = worker[w].result
        /\ Job(w) \in JobIds /\ JobExists(Job(w))
    BY <2>1, AnswerInHand DEF PaymentOf
  <2>3. cases'[c].payment = cases[c].payment /\ UNCHANGED store
    BY <2>1, <2>2, FinalizeJobIsQuiet DEF Quiet, CasesKept, RowsAndWorkers, RowsRefer
  <2>4. QED
    BY <2>1, <2>2, <2>3
<1>3. QED
  BY <1>1, <1>2

-----------------------------------------------------------------------------
(* The inductive invariant and what follows from it.                       *)

LEMMA InitIInv == Init => IInv
<1> SUFFICES ASSUME Init
             PROVE  IInv
  OBVIOUS
<1>1. RowsAndWorkers
  BY InitRowsAndWorkers
<1>2. ResultsAreReal
  BY DEF Init, WorkerInit, Idle, ResultsAreReal
<1>3. ChargesInOrder
  BY DEF Init, DbInit, GatewayInit, NoJob, NewJob, JobExists, ChargesInOrder
<1>4. LedgerAgrees
  BY DEF Init, DbInit, LedgerAgrees
<1>5. QED
  BY <1>1, <1>2, <1>3, <1>4 DEF IInv

LEMMA StepKeepsIInv ==
  ASSUME CommitsMayAbort = FALSE
  PROVE  IInv /\ [Next]_vars => IInv'
  BY StepKeepsRowsAndWorkers, StepKeepsResults, StepKeepsChargeOrder,
     StepKeepsLedger DEF IInv

(* The invariant of run interleavings, for every instance. *)
THEOREM InductiveInvariant ==
  ASSUME CommitsMayAbort = FALSE
  PROVE  Spec => []IInv
<1>1. IInv /\ [Next]_vars => IInv'
  BY StepKeepsIInv
<1>2. QED
  BY InitIInv, <1>1, PTL DEF Spec

(* Whatever workers, leases, crashes, timeouts, webhooks and administrators *)
(* do, a payment is charged with success at most once.                      *)
THEOREM AtMostOneChargeHolds ==
  ASSUME CommitsMayAbort = FALSE
  PROVE  Spec => []AtMostOneCharge
<1>1. ASSUME IInv
      PROVE  AtMostOneCharge
  <2> SUFFICES ASSUME NEW p \in PaymentIds, NEW m \in AttemptNos, NEW n \in AttemptNos,
                      store[p][m] = "succeeded", store[p][n] = "succeeded"
               PROVE  m = n
    BY DEF AtMostOneCharge
  <2>1. FailedBefore(p, m) /\ FailedBefore(p, n)
    BY <1>1 DEF IInv, ChargesInOrder
  <2>2. ~(m < n) /\ ~(n < m)
    BY <2>1 DEF FailedBefore
  <2>3. QED
    BY <2>2, MaxAttemptsAssumption DEF AttemptNos
<1>2. QED
  BY <1>1, InductiveInvariant, PTL

(* What the attempts table says of a settled attempt is what the gateway   *)
(* did.                                                                    *)
THEOREM LedgerAgreesHolds ==
  ASSUME CommitsMayAbort = FALSE
  PROVE  Spec => []LedgerAgrees
<1>1. IInv => LedgerAgrees
  BY DEF IInv
<1>2. QED
  BY <1>1, InductiveInvariant, PTL

(* The engine implements the ledger: outcomes appear at the gateway one by *)
(* one, each after all earlier attempts have failed, and stay.             *)
THEOREM EngineImplementsLedger ==
  ASSUME CommitsMayAbort = FALSE
  PROVE  Spec => LedgerImplemented
<1>1. Init => Ledger!LedgerInit
  BY DEF Init, GatewayInit, Ledger!LedgerInit, AttemptNos, Ledger!AttemptNos
<1>2. IInv /\ [Next]_vars => [Ledger!LedgerNext]_store
  <2> SUFFICES ASSUME IInv, [Next]_vars, ~UNCHANGED store
               PROVE  Ledger!LedgerNext
    OBVIOUS
  <2>1. PICK w \in Workers : Charge(w)
    BY StepKinds DEF IInv, Quiet, StartAttempt
  <2> DEFINE p == PaymentOf(Job(w))
             n == worker[w].attempt
  <2>2. PICK outcome \in GatewayResult :
          /\ p \in PaymentIds /\ n \in AttemptNos /\ n <= MaxAttempts
          /\ n = NextNumber(Job(w)) /\ Job(w) \in JobIds /\ JobExists(Job(w))
          /\ store[p][n] = "none"
          /\ store' = [store EXCEPT ![p][n] = outcome]
    BY <2>1, ChargeStores DEF IInv
  <2>3. FailedBefore(p, n)
    BY <2>2 DEF IInv, ChargesInOrder
  <2>4. Ledger!Settle(p, n, outcome)
    BY <2>2, <2>3, MaxAttemptsAssumption DEF Ledger!Settle, FailedBefore, AttemptNos
  <2>5. n \in 1 .. MaxAttempts /\ outcome \in {"succeeded", "failed"}
    BY <2>2, MaxAttemptsAssumption DEF AttemptNos, GatewayResult
  <2>6. QED
    BY <2>2, <2>4, <2>5 DEF Ledger!LedgerNext
<1>3. QED
  BY <1>1, <1>2, InductiveInvariant, PTL DEF Spec, LedgerImplemented, Ledger!LedgerSpec

-----------------------------------------------------------------------------
(***************************************************************************)
(* Jobs: who may change one, and who settles its attempt:                  *)
(* LeaseIsExclusive, OneLiveJobPerCase, AttemptsFollowMap and              *)
(* OpenAttemptHasJob.                                                      *)
(***************************************************************************)

(* That a job which is ended was RUNNING (OwnersRun) is why its case has   *)
(* no other live job when the next one is queued, and why no finished job  *)
(* is ended again.                                                         *)
JobsInv == RowsAndWorkers /\ OwnersRun /\ OneLiveJobPerCase

-----------------------------------------------------------------------------
(* What a step may do to the jobs table and to the jobs in hand. *)

Cancels == /\ \E closed \in SUBSET CaseIds :
                 /\ jobs' = CancelPending(closed)
                 /\ \A c \in closed : ~ActiveCase(c)'
           /\ UNCHANGED worker

Adds == /\ \E k \in JobIds, c \in CaseIds :
              /\ ~JobExists(k)
              /\ NoLiveJob(c)
              /\ ActiveCase(c)'
              /\ jobs' = [jobs EXCEPT ![k] = NewJob(c, "EVALUATE_RECOVERY", 0)]
        /\ UNCHANGED worker

(* Job j as worker w claims it: it is in its hand, or cancelled. *)
ClaimsJob(w, j) ==
    /\ worker[w].pc = "idle"
    /\ Claimable(j)
    /\ \A i \in JobIds \ {j} : jobs'[i] = jobs[i]
    /\ jobs'[j].case = jobs[j].case
    /\ jobs'[j].owner = w /\ ~jobs'[j].expired
    /\ \/ jobs'[j].status = "RUNNING"
       \/ /\ jobs'[j].status = "CANCELLED"
          /\ Paid(PaymentOf(j))
          /\ UNCHANGED cases
          /\ worker'[w].pc = "idle"
    /\ \A v \in Workers \ {w} : worker'[v] = worker[v]
    /\ worker'[w].pc # "idle" => worker'[w].job = j

JobGoesOn(w) == \/ \E s : EndJob(Job(w), s)
             \/ \E s \in {"SUCCEEDED", "FAILED"} : \E type : \E k \in JobIds :
                    EndJobAndQueue(Job(w), s, k, type)

Ends(w) == /\ worker[w].pc # "idle"
           /\ HoldsLease(w)
           /\ JobGoesOn(w)
           /\ Release(w)

(* Workers go on with what they have in hand, or let go of it. *)
KeepsJobs == /\ UNCHANGED jobs
             /\ \A v \in Workers : worker'[v].pc # "idle" =>
                   worker[v].pc # "idle" /\ worker'[v].job = worker[v].job

Expires == /\ \E j \in JobIds : /\ jobs[j].status = "RUNNING"
                                /\ jobs' = [jobs EXCEPT ![j].expired = TRUE]
           /\ UNCHANGED worker

LEMMA WebhookOnJobs ==
  ASSUME RowsAndWorkers, Webhook
  PROVE  Cancels \/ Adds \/ KeepsJobs
<1> PICK e \in Events : ProcessWebhook(e)
  BY DEF Webhook
<1> UNCHANGED worker
  BY DEF Webhook, workerVars
<1>1. CASE AcknowledgeTerminal(e) \/ RecordRepeatedFailure(e)
  BY <1>1 DEF AcknowledgeTerminal, RecordRepeatedFailure, KeepsJobs
<1>2. ASSUME NEW c \in CaseIds, NEW j \in JobIds, OpenCase(e, c, j)
      PROVE  Adds
  <2>1. ~CaseExists(c) /\ ~JobExists(j)
        /\ jobs' = [jobs EXCEPT ![j] = NewJob(c, "EVALUATE_RECOVERY", 0)]
        /\ cases' = [cases EXCEPT ![c] = [status |-> "OPEN", payment |-> e.payment]]
    BY <1>2 DEF OpenCase
  <2>2. NoLiveJob(c)
    BY <2>1 DEF NoLiveJob, LiveJob, JobExists, RowsAndWorkers, RowsRefer
  <2>3. ActiveCase(c)'
    BY <2>1 DEF ActiveCase, CaseExists, TerminalCaseStates, RowsAndWorkers, TypeOK,
                DbTypeOK
  <2>4. QED
    BY <2>1, <2>2, <2>3 DEF Adds
<1>3. CASE RecordSuccess(e)
  <2>1. ActiveCases(e.payment) \in SUBSET CaseIds
    BY DEF ActiveCases
  <2>2. \A c \in ActiveCases(e.payment) : cases'[c] = [cases[c] EXCEPT !.status = "RECOVERED"]
    BY <1>3, <2>1 DEF RecordSuccess
  <2>3. ASSUME NEW c \in ActiveCases(e.payment)
        PROVE  ~ActiveCase(c)'
    <3>1. cases[c] \in CaseRow
      BY <2>1 DEF RowsAndWorkers, TypeOK, DbTypeOK
    <3>2. cases'[c].status = "RECOVERED"
      BY <2>2, <3>1 DEF CaseRow
    <3>3. QED
      BY <3>2 DEF ActiveCase, TerminalCaseStates
  <2>4. QED
    BY <1>3, <2>1, <2>3 DEF RecordSuccess, Cancels
<1>4. QED
  BY <1>1, <1>2, <1>3 DEF ProcessWebhook

LEMMA AdminOnJobs ==
  ASSUME RowsAndWorkers, Admin
  PROVE  Cancels \/ Adds \/ KeepsJobs
<1> PICK c \in CaseIds : StopCase(c) \/ RetryCase(c)
  BY DEF Admin
<1> UNCHANGED worker
  BY DEF Admin, workerVars
<1>1. CASE RejectForPaid(c)
  BY <1>1 DEF RejectForPaid, KeepsJobs
<1>2. CASE CloseCase(c)
  <2>1. ~ActiveCase(c)'
    BY <1>2 DEF CloseCase, ActiveCase, TerminalCaseStates, RowsAndWorkers, TypeOK,
                DbTypeOK, CaseRow
  <2>2. QED
    BY <1>2, <2>1 DEF CloseCase, Cancels
<1>3. ASSUME NEW j \in JobIds, ReopenCase(c, j)
      PROVE  Adds
  BY <1>3 DEF ReopenCase, Adds, ActiveCase, CaseExists, TerminalCaseStates,
              RowsAndWorkers, TypeOK, DbTypeOK, CaseRow
<1>4. QED
  BY <1>1, <1>2, <1>3 DEF StopCase, RetryCase

LEMMA ClaimOfJob ==
  ASSUME TypeOK, NEW w \in Workers, NEW j \in JobIds,
         \/ ClaimForPaid(w, j)
         \/ BeginEvaluation(w, j)
         \/ StartAttempt(w, j)
         \/ ResumeAttempt(w, j)
  PROVE  ClaimsJob(w, j)
<1>1. jobs \in [JobIds -> JobRow] /\ worker \in [Workers -> WorkerState]
  BY DEF TypeOK, DbTypeOK, WorkerTypeOK
<1>2. CASE ClaimForPaid(w, j)
  BY <1>1, <1>2 DEF ClaimForPaid, ClaimsJob, Claimed, workerVars, JobRow
<1>3. CASE BeginEvaluation(w, j)
  BY <1>1, <1>3 DEF BeginEvaluation, ClaimsJob, Claimed, Idle, JobRow
<1>4. CASE StartAttempt(w, j)
  BY <1>1, <1>4 DEF StartAttempt, ClaimsJob, Claimed, Idle, JobRow
<1>5. CASE ResumeAttempt(w, j)
  BY <1>1, <1>5 DEF ResumeAttempt, ClaimsJob, Claimed, Idle, JobRow
<1>6. QED
  BY <1>2, <1>3, <1>4, <1>5

LEMMA ClaimOnJobs ==
  ASSUME TypeOK, NEW w \in Workers, Claim(w)
  PROVE  \E j \in JobIds : ClaimsJob(w, j)
BY ClaimOfJob DEF Claim

(* A worker only ends a job it still owns. *)
LEMMA FinalizeOnJobs ==
  ASSUME NEW w \in Workers, FinalizeEvaluation(w) \/ FinalizeJob(w)
  PROVE  Ends(w)
<1>1. CASE FinalizeEvaluation(w)
  <2>1. worker[w].pc # "idle" /\ HoldsLease(w) /\ Release(w)
    BY <1>1 DEF FinalizeEvaluation, EvaluationFails, DecisionTooLate, DecideCharge,
                DecideDelay, DecideAbort, Deciding
  <2>2. JobGoesOn(w)
    <3>1. CASE DecisionTooLate(w)
      BY <3>1 DEF DecisionTooLate, JobGoesOn
    <3>2. CASE DecideAbort(w)
      BY <3>2 DEF DecideAbort, JobGoesOn
    <3>3. ASSUME NEW k \in JobIds, EvaluationFails(w, k)
          PROVE  JobGoesOn(w)
      BY <3>3 DEF EvaluationFails, JobGoesOn
    <3>4. ASSUME NEW k \in JobIds, DecideCharge(w, k) \/ DecideDelay(w, k)
          PROVE  JobGoesOn(w)
      BY <3>4 DEF DecideCharge, DecideDelay, JobGoesOn
    <3>5. QED
      BY <1>1, <3>1, <3>2, <3>3, <3>4 DEF FinalizeEvaluation
  <2>3. QED
    BY <2>1, <2>2 DEF Ends
<1>2. CASE FinalizeJob(w)
  <2>1. worker[w].pc # "idle" /\ HoldsLease(w) /\ Release(w)
    BY <1>2 DEF FinalizeJob, FinalizeSuccess, FinalizeFailure, FinalizeExhausted,
                FinalizeAmbiguous, Finalizing, FinalizePc
  <2>2. JobGoesOn(w)
    <3>1. CASE FinalizeSuccess(w)
      BY <3>1 DEF FinalizeSuccess, JobGoesOn
    <3>2. CASE FinalizeExhausted(w)
      BY <3>2 DEF FinalizeExhausted, JobGoesOn
    <3>3. CASE FinalizeAmbiguous(w)
      BY <3>3 DEF FinalizeAmbiguous, JobGoesOn
    <3>4. ASSUME NEW k \in JobIds, FinalizeFailure(w, k)
          PROVE  JobGoesOn(w)
      BY <3>4 DEF FinalizeFailure, JobGoesOn
    <3>5. QED
      BY <1>2, <3>1, <3>2, <3>3, <3>4 DEF FinalizeJob
  <2>3. QED
    BY <2>1, <2>2 DEF Ends
<1>3. QED
  BY <1>1, <1>2

(* The network calls, a failed transaction and a kill touch no job. *)
LEMMA OthersKeepJobs ==
  ASSUME TypeOK, NEW w \in Workers,
         VerifyPayment(w) \/ Charge(w) \/ FinalizeRaises(w) \/ Crash(w)
  PROVE  KeepsJobs
<1>1. worker \in [Workers -> WorkerState] /\ UNCHANGED jobs
  BY DEF TypeOK, WorkerTypeOK, VerifyPayment, Charge, FinalizeRaises, Crash, dbVars
<1>2. CASE VerifyPayment(w)
  BY <1>1, <1>2 DEF VerifyPayment, Goto, KeepsJobs, WorkerState
<1>3. CASE Charge(w)
  BY <1>1, <1>3 DEF Charge, Goto, KeepsJobs, WorkerState
<1>4. CASE FinalizeRaises(w)
  BY <1>1, <1>4 DEF FinalizeRaises, Release, Idle, KeepsJobs, WorkerState
<1>5. CASE Crash(w)
  BY <1>1, <1>5 DEF Crash, Release, Idle, KeepsJobs, WorkerState
<1>6. QED
  BY <1>2, <1>3, <1>4, <1>5

LEMMA StepOnJobs ==
  ASSUME RowsAndWorkers, [Next]_vars
  PROVE  \/ Cancels \/ Adds \/ KeepsJobs \/ Expires
         \/ \E w \in Workers : \/ Ends(w) /\ (FinalizeEvaluation(w) \/ FinalizeJob(w))
                               \/ \E j \in JobIds : ClaimsJob(w, j)
<1> TypeOK
  BY DEF RowsAndWorkers
<1>1. CASE Webhook \/ Admin
  BY <1>1, WebhookOnJobs, AdminOnJobs
<1>2. ASSUME NEW w \in Workers, WorkerStep(w) \/ Crash(w)
      PROVE  \/ Ends(w) /\ (FinalizeEvaluation(w) \/ FinalizeJob(w))
             \/ KeepsJobs \/ \E j \in JobIds : ClaimsJob(w, j)
  BY <1>2, ClaimOnJobs, FinalizeOnJobs, OthersKeepJobs DEF WorkerStep
<1>3. ASSUME NEW j \in JobIds, LeaseExpires(j)
      PROVE  Expires
  BY <1>3 DEF LeaseExpires, Expires, workerVars
<1>4. CASE UNCHANGED vars
  BY <1>4 DEF vars, dbVars, workerVars, KeepsJobs
<1>5. QED
  BY <1>1, <1>2, <1>3, <1>4 DEF Next

-----------------------------------------------------------------------------
(* The invariant. *)

LEMMA InitJobsInv == Init => JobsInv
<1>1. Init => RowsAndWorkers
  BY InitRowsAndWorkers
<1>2. Init => OwnersRun /\ OneLiveJobPerCase
  BY DEF Init, WorkerInit, DbInit, Idle, NoJob, NewJob, OwnersRun,
         OneLiveJobPerCase, LiveJob
<1>3. QED
  BY <1>1, <1>2 DEF JobsInv

(* The job a worker may end is RUNNING. *)
LEMMA EndedJobIsRunning ==
  ASSUME RowsAndWorkers, OwnersRun, NEW w \in Workers, Ends(w)
  PROVE  Job(w) \in JobIds /\ jobs[Job(w)].status = "RUNNING"
BY JobInHand DEF Ends, OwnersRun

LEMMA StepKeepsExclusive ==
  ASSUME RowsAndWorkers, OwnersRun, [Next]_vars
  PROVE  OwnersRun'
<1> SUFFICES ASSUME NEW v \in Workers, worker'[v].pc # "idle",
                    jobs'[worker'[v].job].owner = v
             PROVE  jobs'[worker'[v].job].status = "RUNNING"
  BY DEF OwnersRun, HoldsLease, Job
<1> DEFINE i == worker[v].job
<1>1. /\ jobs \in [JobIds -> JobRow] /\ worker \in [Workers -> WorkerState]
  BY DEF RowsAndWorkers, TypeOK, DbTypeOK, WorkerTypeOK
<1>2. v # NULL
  BY NullAssumption
<1>3. worker[v].pc # "idle" =>
         /\ i \in JobIds /\ JobExists(i)
         /\ jobs[i].owner = v => jobs[i].status = "RUNNING"
  BY <1>1, JobInHand DEF OwnersRun, HoldsLease, Job
<1>4. CASE Cancels
  BY <1>1, <1>3, <1>4 DEF Cancels, CancelPending, JobRow
<1>5. CASE Adds
  BY <1>1, <1>2, <1>3, <1>5 DEF Adds, NewJob
<1>6. CASE KeepsJobs
  BY <1>3, <1>6 DEF KeepsJobs
<1>7. CASE Expires
  BY <1>1, <1>3, <1>7 DEF Expires, JobRow
<1>8. ASSUME NEW w \in Workers, NEW j \in JobIds, ClaimsJob(w, j)
      PROVE  jobs'[worker'[v].job].status = "RUNNING"
  BY <1>3, <1>8 DEF ClaimsJob
<1>9. ASSUME NEW w \in Workers, Ends(w)
      PROVE  jobs'[worker'[v].job].status = "RUNNING"
  <2>1. v # w /\ worker'[v] = worker[v]
    BY <1>1, <1>9 DEF Ends, Release, Idle
  <2>2. Job(w) \in JobIds /\ jobs[Job(w)].owner = w
    BY <1>9, EndedJobIsRunning DEF Ends, HoldsLease
  <2>3. CASE \E s : EndJob(Job(w), s)
    BY <1>1, <1>3, <2>1, <2>2, <2>3 DEF EndJob, Ended, JobRow
  <2>4. ASSUME NEW s, NEW type, NEW k \in JobIds, EndJobAndQueue(Job(w), s, k, type)
        PROVE  jobs'[worker'[v].job].status = "RUNNING"
    BY ZenonT(30), <1>1, <1>2, <1>3, <2>1, <2>2, <2>4 DEF EndJobAndQueue, Ended, NewJob, JobRow
  <2>5. QED
    BY <1>9, <2>3, <2>4 DEF Ends, JobGoesOn
<1>10. QED
  BY <1>1, <1>4, <1>5, <1>6, <1>7, <1>8, <1>9, StepOnJobs

(* A job that is live after a step was live before, or is new to a case    *)
(* that has no other live job.                                             *)
LEMMA StepKeepsOneLive ==
  ASSUME JobsInv, [Next]_vars
  PROVE  OneLiveJobPerCase'
<1>1. jobs \in [JobIds -> JobRow] /\ RowsAndWorkers
  BY DEF JobsInv, RowsAndWorkers, TypeOK, DbTypeOK
<1>2. ASSUME \A j \in JobIds : LiveJob(j)' => LiveJob(j) /\ jobs'[j].case = jobs[j].case
      PROVE  OneLiveJobPerCase'
  BY <1>2 DEF JobsInv, OneLiveJobPerCase
<1>3. CASE Cancels
  BY <1>1, <1>2, <1>3 DEF Cancels, CancelPending, JobRow, LiveJob
<1>4. CASE KeepsJobs
  BY <1>2, <1>4 DEF KeepsJobs, LiveJob
<1>5. CASE Expires
  BY <1>1, <1>2, <1>5 DEF Expires, JobRow, LiveJob
<1>6. ASSUME NEW w \in Workers, NEW j \in JobIds, ClaimsJob(w, j)
      PROVE  OneLiveJobPerCase'
  BY <1>2, <1>6 DEF ClaimsJob, Claimable, LiveJob
<1>7. ASSUME NEW k \in JobIds, NEW c \in CaseIds, NEW type, NEW count,
             \A j \in JobIds \ {k} : LiveJob(j)' =>
                 /\ LiveJob(j) /\ jobs'[j].case = jobs[j].case
                 /\ jobs[j].case # c,
             jobs'[k] = NewJob(c, type, count)
      PROVE  OneLiveJobPerCase'
  BY <1>7 DEF JobsInv, OneLiveJobPerCase, NewJob
<1>8. CASE Adds
  <2>1. PICK k \in JobIds, c \in CaseIds :
           /\ NoLiveJob(c)
           /\ jobs' = [jobs EXCEPT ![k] = NewJob(c, "EVALUATE_RECOVERY", 0)]
    BY <1>8 DEF Adds
  <2>2. jobs'[k] = NewJob(c, "EVALUATE_RECOVERY", 0)
    BY <1>1, <2>1
  <2>3. \A j \in JobIds \ {k} : jobs'[j] = jobs[j]
    BY <1>1, <2>1
  <2>4. QED
    BY <1>7, <2>1, <2>2, <2>3 DEF NoLiveJob, LiveJob
<1>9. ASSUME NEW w \in Workers, Ends(w)
      PROVE  OneLiveJobPerCase'
  <2>1. Job(w) \in JobIds /\ jobs[Job(w)].status = "RUNNING"
    BY <1>9, EndedJobIsRunning DEF JobsInv
  <2>2. CASE \E s : EndJob(Job(w), s)
    BY <1>1, <1>2, <2>1, <2>2 DEF EndJob, Ended, JobRow, LiveJob
  <2>3. ASSUME NEW s \in {"SUCCEEDED", "FAILED"}, NEW type, NEW k \in JobIds,
               EndJobAndQueue(Job(w), s, k, type)
        PROVE  OneLiveJobPerCase'
    <3> PICK i \in JobIds, c \in CaseIds : i = Job(w) /\ c = jobs[i].case
      BY <1>1, <2>1 DEF RowsAndWorkers, RowsRefer, JobExists
    <3>1. k # i /\ jobs'[k] = NewJob(c, type, jobs[i].count)
      BY <1>1, <2>1, <2>3 DEF EndJobAndQueue, JobExists
    <3>2. jobs'[i].status = s
      BY <1>1, <2>3, <3>1 DEF EndJobAndQueue, Ended, JobRow
    <3>3. ASSUME NEW j \in JobIds, j # k, j # i
          PROVE  /\ jobs'[j] = jobs[j]
                 /\ LiveJob(j) => jobs[j].case # c
      BY <1>1, <2>1, <2>3, <3>3 DEF EndJobAndQueue, JobsInv, OneLiveJobPerCase, LiveJob
    <3>4. ASSUME NEW j \in JobIds \ {k}, LiveJob(j)'
          PROVE  LiveJob(j) /\ jobs'[j].case = jobs[j].case /\ jobs[j].case # c
      BY <2>3, <3>2, <3>3, <3>4 DEF LiveJob
    <3>5. QED
      BY <1>7, <3>1, <3>4
  <2>4. QED
    BY <1>9, <2>2, <2>3 DEF Ends, JobGoesOn
<1>10. QED
  BY <1>1, <1>3, <1>4, <1>5, <1>6, <1>8, <1>9, StepOnJobs

LEMMA StepKeepsJobsInv == JobsInv /\ [Next]_vars => JobsInv'
BY StepKeepsRowsAndWorkers, StepKeepsExclusive, StepKeepsOneLive DEF JobsInv

LEMMA JobsInvHolds == Spec => []JobsInv
BY InitJobsInv, StepKeepsJobsInv, PTL DEF Spec

LEMMA StepKeepsLease ==
  ASSUME JobsInv, [Next]_vars, NEW w \in Workers,
         worker[w].pc # "idle", worker'[w].pc # "idle", HoldsLease(w)'
  PROVE  /\ HoldsLease(w)
         /\ jobs[Job(w)].status = "RUNNING"
         /\ jobs'[Job(w)] \in {jobs[Job(w)], [jobs[Job(w)] EXCEPT !.expired = TRUE]}
<1> PICK i \in JobIds : i = Job(w) /\ JobExists(i)
  BY JobInHand DEF JobsInv
<1>1. /\ jobs \in [JobIds -> JobRow] /\ worker \in [Workers -> WorkerState]
      /\ RowsAndWorkers /\ OwnersRun
  BY DEF JobsInv, RowsAndWorkers, TypeOK, DbTypeOK, WorkerTypeOK
<1>2. worker'[w].job = i
  <2>1. ASSUME NEW v \in Workers, Ends(v)
        PROVE  worker'[w].job = i
    BY <1>1, <2>1 DEF Ends, Release, Idle, Job
  <2>2. ASSUME NEW v \in Workers, NEW j \in JobIds, ClaimsJob(v, j)
        PROVE  worker'[w].job = i
    BY <2>2 DEF ClaimsJob, Job
  <2>3. QED
    BY <2>1, <2>2, <1>1, StepOnJobs DEF Cancels, Adds, KeepsJobs, Expires, Job
<1>3. HoldsLease(w) /\ jobs[i].status = "RUNNING"
  BY <1>1, <1>2, StepKeepsOwners DEF OwnersKept, HoldsLease, OwnersRun, Job
<1> DEFINE Kept == jobs'[i] \in {jobs[i], [jobs[i] EXCEPT !.expired = TRUE]}
<1>4. Cancels => Kept
  BY <1>1, <1>3 DEF Cancels, CancelPending
<1>5. Adds => Kept
  BY <1>1 DEF Adds
<1>6. KeepsJobs => Kept
  BY DEF KeepsJobs
<1>7. Expires => Kept
  BY <1>1 DEF Expires
<1>8. ASSUME NEW v \in Workers, NEW j \in JobIds, ClaimsJob(v, j)
      PROVE  jobs'[i] = jobs[i]
  <2>1. v # w
    BY <1>8 DEF ClaimsJob
  <2>2. j # i
    BY <1>2, <1>8, <2>1 DEF ClaimsJob, HoldsLease, Job
  <2>3. QED
    BY <1>8, <2>2 DEF ClaimsJob
<1>9. ASSUME NEW v \in Workers, Ends(v)
      PROVE  jobs'[i] = jobs[i]
  <2>1. Job(v) # i /\ Job(v) \in JobIds
    <3>1. v # w
      BY <1>1, <1>9 DEF Ends, Release, Idle
    <3>2. QED
      BY <1>1, <1>3, <1>9, <3>1, EndedJobIsRunning DEF Ends, HoldsLease
  <2>2. CASE \E s : EndJob(Job(v), s)
    BY <1>1, <2>1, <2>2 DEF EndJob
  <2>3. ASSUME NEW s, NEW type, NEW k \in JobIds, EndJobAndQueue(Job(v), s, k, type)
        PROVE  jobs'[i] = jobs[i]
    BY <1>1, <2>1, <2>3 DEF EndJobAndQueue
  <2>4. QED
    BY <1>9, <2>2, <2>3 DEF Ends, JobGoesOn
<1>10. QED
  BY <1>1, <1>3, <1>4, <1>5, <1>6, <1>7, <1>8, <1>9, StepOnJobs

(* However leases are lost and jobs claimed again, a worker that passes    *)
(* the ownership check has had its job to itself since it claimed it.      *)
THEOREM LeaseIsExclusiveHolds == Spec => LeaseIsExclusive
<1>1. ASSUME JobsInv, [Next]_vars
      PROVE  \A w \in Workers :
                LET j == Job(w)
                IN  worker[w].pc # "idle" /\ worker'[w].pc # "idle" /\ HoldsLease(w)' =>
                        /\ HoldsLease(w)
                        /\ jobs[j].status = "RUNNING"
                        /\ jobs'[j] \in {jobs[j], [jobs[j] EXCEPT !.expired = TRUE]}
  BY <1>1, StepKeepsLease
<1>2. QED
  BY <1>1, JobsInvHolds, PTL DEF Spec, LeaseIsExclusive

(* No interleaving of webhooks, retries and workers leaves a case with two *)
(* jobs that wait or run.                                                  *)
THEOREM OneLiveJobPerCaseHolds == Spec => []OneLiveJobPerCase
<1>1. JobsInv => OneLiveJobPerCase
  BY DEF JobsInv
<1>2. QED
  BY <1>1, JobsInvHolds, PTL

(* FinishedJobsStay, for AtomicityProofs. *)
LEMMA StepKeepsFinished ==
  ASSUME JobsInv, [Next]_vars, NEW j \in JobIds, JobExists(j), ~LiveJob(j)
  PROVE  jobs'[j] = jobs[j]
<1>1. jobs \in [JobIds -> JobRow] /\ RowsAndWorkers
  BY DEF JobsInv, RowsAndWorkers, TypeOK, DbTypeOK
<1>2. jobs[j].status \notin {"PENDING", "RUNNING", "ABSENT"}
  BY DEF LiveJob, JobExists
<1>3. CASE Cancels \/ KeepsJobs
  BY <1>2, <1>3 DEF Cancels, CancelPending, KeepsJobs
<1>4. CASE Adds \/ Expires
  BY <1>1, <1>2, <1>4 DEF Adds, Expires, JobExists
<1>5. ASSUME NEW w \in Workers, NEW i \in JobIds, ClaimsJob(w, i)
      PROVE  jobs'[j] = jobs[j]
  BY <1>2, <1>5 DEF ClaimsJob, Claimable
<1>6. ASSUME NEW w \in Workers, Ends(w)
      PROVE  jobs'[j] = jobs[j]
  <2>1. Job(w) # j
    BY <1>2, <1>6, EndedJobIsRunning DEF JobsInv
  <2>2. QED
    BY <1>1, <1>2, <1>6, <2>1 DEF Ends, JobGoesOn, EndJob, EndJobAndQueue, JobExists
<1>7. QED
  BY <1>1, <1>3, <1>4, <1>5, <1>6, StepOnJobs

LEMMA StepKeepsQuiet ==
  ASSUME JobsInv, [Next]_vars, NEW c \in CaseIds, NoLiveJob(c), ~ActiveCase(c)'
  PROVE  NoLiveJob(c)'
<1>1. jobs \in [JobIds -> JobRow] /\ RowsAndWorkers
  BY DEF JobsInv, RowsAndWorkers, TypeOK, DbTypeOK
<1>2. CASE Cancels
  BY <1>1, <1>2 DEF Cancels, CancelPending, JobRow, NoLiveJob, LiveJob
<1>3. CASE KeepsJobs
  BY <1>3 DEF KeepsJobs, NoLiveJob, LiveJob
<1>4. CASE Expires
  BY <1>1, <1>4 DEF Expires, JobRow, NoLiveJob, LiveJob
<1>5. CASE Adds
  BY <1>1, <1>5 DEF Adds, NewJob, NoLiveJob, LiveJob
<1>6. ASSUME NEW w \in Workers, NEW j \in JobIds, ClaimsJob(w, j)
      PROVE  NoLiveJob(c)'
  BY <1>6 DEF ClaimsJob, Claimable, NoLiveJob, LiveJob
<1>7. ASSUME NEW w \in Workers, Ends(w)
      PROVE  NoLiveJob(c)'
  <2>1. Job(w) \in JobIds /\ jobs[Job(w)].case # c
    BY <1>7, EndedJobIsRunning DEF JobsInv, NoLiveJob, LiveJob
  <2>2. CASE \E s : EndJob(Job(w), s)
    BY <1>1, <2>1, <2>2 DEF EndJob, Ended, JobRow, NoLiveJob, LiveJob
  <2>3. ASSUME NEW s, NEW type, NEW k \in JobIds, EndJobAndQueue(Job(w), s, k, type)
        PROVE  NoLiveJob(c)'
    <3>1. jobs'[k].case = jobs[Job(w)].case
      BY <1>1, <2>1, <2>3 DEF EndJobAndQueue, NewJob, Ended, JobRow
    <3>2. \A j \in JobIds \ {k, Job(w)} : jobs'[j] = jobs[j]
      BY <1>1, <2>3 DEF EndJobAndQueue
    <3>3. jobs'[Job(w)].case = jobs[Job(w)].case
      BY <1>1, <2>1, <2>3, <3>1 DEF EndJobAndQueue, Ended, JobRow
    <3>4. QED
      BY <2>1, <3>1, <3>2, <3>3 DEF NoLiveJob, LiveJob
  <2>4. QED
    BY <1>7, <2>2, <2>3 DEF Ends, JobGoesOn
<1>8. QED
  BY <1>1, <1>2, <1>3, <1>4, <1>5, <1>6, <1>7, StepOnJobs

(* A job is queued only for a case that is active or has a live job. *)
THEOREM ClosedCaseStaysQuietHolds == Spec => ClosedCaseStaysQuiet
<1>1. JobsInv /\ [Next]_vars =>
        [\A c \in CaseIds : ~ActiveCase(c) /\ NoLiveJob(c)
                                => ActiveCase(c)' \/ NoLiveJob(c)']_vars
  BY StepKeepsQuiet
<1>2. QED
  BY <1>1, JobsInvHolds, PTL DEF Spec, ClosedCaseStaysQuiet

-----------------------------------------------------------------------------
(* Attempts. *)


Unsettled == {"RUNNING", "AMBIGUOUS"}

(* While a job waits or runs, its attempt has no outcome: only the job     *)
(* itself settles it, as no other job of the case is live.                 *)
LiveAttemptsOpen ==
    \A j \in JobIds : LiveJob(j) /\ jobs[j].attempt # 0 =>
        attempts[jobs[j].case][jobs[j].attempt] \in Unsettled

AttemptsInv == JobsInv /\ LiveAttemptsOpen /\ OpenAttemptHasJob

-----------------------------------------------------------------------------
(* Who writes to the attempts table. *)

Starts(w, j, c, n) == StartAttempt(w, j) /\ c = jobs[j].case /\ n = jobs[j].count + 1

Settles(w, c, n) == /\ FinalizeJob(w)
                    /\ c = jobs[Job(w)].case
                    /\ n = worker[w].attempt
                    /\ attempts'[c][n] \in {"SUCCEEDED", "FAILED", "AMBIGUOUS"}

LEMMA HowAttemptsChange ==
  ASSUME RowsAndWorkers, [Next]_vars, NEW c \in CaseIds, NEW n \in AttemptNos,
         attempts'[c][n] # attempts[c][n]
  PROVE  \/ \E w \in Workers, j \in JobIds : Starts(w, j, c, n)
         \/ \E w \in Workers : Settles(w, c, n)
<1>1. attempts \in [CaseIds -> [AttemptNos -> AttemptState \cup {"ABSENT"}]]
  BY DEF RowsAndWorkers, TypeOK, DbTypeOK
<1>2. \/ \E w \in Workers, j \in JobIds : StartAttempt(w, j)
      \/ \E w \in Workers : FinalizeJob(w)
  <2>1. Next
    BY DEF vars, dbVars
  <2>2. Webhook => attempts' = attempts
    BY DEF Webhook, ProcessWebhook, AcknowledgeTerminal, RecordRepeatedFailure, OpenCase,
       RecordSuccess
  <2>3. Admin => attempts' = attempts
    BY DEF Admin, StopCase, RetryCase, RejectForPaid, CloseCase, ReopenCase
  <2>4. ASSUME NEW j \in JobIds, LeaseExpires(j) PROVE attempts' = attempts
    BY <2>4 DEF LeaseExpires, dbVars
  <2>5. ASSUME NEW w \in Workers, Crash(w) PROVE attempts' = attempts
    BY <2>5 DEF Crash, dbVars
  <2>6. ASSUME NEW w \in Workers, Claim(w)
        PROVE  attempts' = attempts \/ \E j \in JobIds : StartAttempt(w, j)
    BY <2>6 DEF Claim, ClaimForPaid, BeginEvaluation, ResumeAttempt
  <2>7. ASSUME NEW w \in Workers, VerifyPayment(w) \/ Charge(w) \/ FinalizeRaises(w)
        PROVE  attempts' = attempts
    BY <2>7 DEF VerifyPayment, Charge, FinalizeRaises, dbVars
  <2>8. ASSUME NEW w \in Workers, FinalizeEvaluation(w)
        PROVE  attempts' = attempts
    BY <2>8 DEF FinalizeEvaluation, EvaluationFails, DecisionTooLate, DecideCharge,
       DecideDelay, DecideAbort, dbVars
  <2>9. QED
    BY Zenon, <2>1, <2>2, <2>3, <2>4, <2>5, <2>6, <2>7, <2>8 DEF Next, WorkerStep
<1>3. ASSUME NEW w \in Workers, NEW j \in JobIds, StartAttempt(w, j)
      PROVE  Starts(w, j, c, n)
  BY <1>1, <1>3 DEF StartAttempt, InsertAttempt, Starts
<1>4. ASSUME NEW w \in Workers, FinalizeJob(w)
      PROVE  Settles(w, c, n)
  <2>1. PICK s \in {"SUCCEEDED", "FAILED", "AMBIGUOUS"} : SettleAttempt(w, s)
    BY <1>4 DEF FinalizeJob, FinalizeSuccess, FinalizeFailure, FinalizeExhausted,
                FinalizeAmbiguous
  <2>2. QED
    BY <1>1, <1>4, <2>1 DEF SettleAttempt, Settles
<1>5. QED
  BY <1>2, <1>3, <1>4

(* The job of a worker that records the outcome of a charge. *)
LEMMA SettlingJob ==
  ASSUME JobsInv, NEW w \in Workers, FinalizeJob(w)
  PROVE  /\ Job(w) \in JobIds /\ LiveJob(Job(w))
         /\ jobs[Job(w)].attempt = worker[w].attempt /\ worker[w].attempt # 0
         /\ worker[w].attempt \in AttemptNos /\ jobs[Job(w)].case \in CaseIds
<1>1. worker[w].pc \in ChargePc
  BY DEF FinalizeJob, FinalizeSuccess, FinalizeFailure, FinalizeExhausted,
         FinalizeAmbiguous, Finalizing, ChargePc
<1>2. Job(w) \in JobIds /\ LiveJob(Job(w))
  BY FinalizeOnJobs, EndedJobIsRunning DEF JobsInv, LiveJob
<1>3. QED
  BY <1>1, <1>2, KeyInHand DEF JobsInv, RowsAndWorkers, WorkersAreSound, ChargePc, FinalizePc

(* A job that is live after a step is what it was before, or is new, or is *)
(* given its attempt.                                                      *)
LEMMA HowJobsAreLive ==
  ASSUME JobsInv, [Next]_vars, NEW j \in JobIds, LiveJob(j)'
  PROVE  \/ jobs'[j].attempt = 0
         \/ LiveJob(j) /\ SameJob(j)
         \/ \E w \in Workers : StartAttempt(w, j)
<1>1. RowsAndWorkers /\ jobs \in [JobIds -> JobRow]
  BY DEF JobsInv, RowsAndWorkers, TypeOK, DbTypeOK
<1>2. JobExists(j)'
  BY DEF LiveJob, JobExists
<1>3. JobExists(j) => LiveJob(j)
  BY StepKeepsFinished DEF LiveJob
<1>4. CASE Quiet
  BY <1>2, <1>3, <1>4 DEF Quiet, JobsKept, FitsIn
<1>5. ASSUME NEW w \in Workers, NEW i \in JobIds, StartAttempt(w, i), i # j
      PROVE  LiveJob(j) /\ jobs'[j] = jobs[j]
  BY <1>1, <1>5 DEF StartAttempt, LiveJob
<1>6. ASSUME NEW w \in Workers, Charge(w)
      PROVE  LiveJob(j) /\ jobs'[j] = jobs[j]
  BY <1>6 DEF Charge, dbVars, LiveJob
<1>7. QED
  BY <1>1, <1>4, <1>5, <1>6, StepKinds DEF SameJob

LEMMA StepKeepsLiveAttempts ==
  ASSUME JobsInv, LiveAttemptsOpen, [Next]_vars
  PROVE  LiveAttemptsOpen'
<1> SUFFICES ASSUME NEW j \in JobIds, LiveJob(j)', jobs'[j].attempt # 0
             PROVE  attempts'[jobs'[j].case][jobs'[j].attempt] \in Unsettled
  BY DEF LiveAttemptsOpen
<1>1. /\ RowsAndWorkers /\ jobs \in [JobIds -> JobRow]
      /\ attempts \in [CaseIds -> [AttemptNos -> AttemptState \cup {"ABSENT"}]]
  BY DEF JobsInv, RowsAndWorkers, TypeOK, DbTypeOK
<1>2. ASSUME NEW w \in Workers, StartAttempt(w, j)
      PROVE  attempts'[jobs'[j].case][jobs'[j].attempt] \in Unsettled
  <2> DEFINE n == jobs[j].count + 1
  <2>1. JobExists(j)
    BY <1>2 DEF StartAttempt, Claimable, JobExists
  <2>2. jobs[j].case \in CaseIds /\ n \in AttemptNos
    BY <1>1, <1>2, <2>1 DEF StartAttempt, RowsAndWorkers, RowsRefer
  <2>3. jobs'[j].case = jobs[j].case /\ jobs'[j].attempt = n
    <3>1. jobs' = [jobs EXCEPT ![j] = [Claimed(w, j) EXCEPT !.attempt = n, !.count = n]]
      BY <1>2 DEF StartAttempt
    <3> HIDE DEF n
    <3>2. QED
      BY <1>1, <3>1 DEF Claimed, JobRow
  <2>4. QED
    BY <1>1, <1>2, <2>2, <2>3 DEF StartAttempt, InsertAttempt, Unsettled
<1>3. CASE LiveJob(j) /\ SameJob(j)
  <2> PICK c \in CaseIds, n \in AttemptNos : c = jobs[j].case /\ n = jobs[j].attempt
    <3>1. JobExists(j)
      BY <1>3 DEF LiveJob, JobExists
    <3>2. QED
      BY <1>1, <1>3, <3>1 DEF RowsAndWorkers, RowsRefer, SameJob, JobRow
  <2>1. attempts[c][n] \in Unsettled /\ jobs'[j].case = c /\ jobs'[j].attempt = n
    BY <1>3 DEF LiveAttemptsOpen, SameJob
  <2>2. ASSUME NEW w \in Workers, NEW i \in JobIds, Starts(w, i, c, n)
        PROVE  FALSE
    BY <2>1, <2>2 DEF Starts, StartAttempt, NumberIsFree, Unsettled
  <2>3. ASSUME NEW w \in Workers, Settles(w, c, n)
        PROVE  attempts'[c][n] \in Unsettled
    <3>1. FinalizeJob(w) /\ Job(w) = j
      BY <1>3, <2>3, SettlingJob DEF Settles, JobsInv, OneLiveJobPerCase
    <3>2. CASE FinalizeAmbiguous(w)
      BY <1>1, <2>3, <3>2 DEF FinalizeAmbiguous, SettleAttempt, Settles, Unsettled
    <3>3. CASE EndJob(j, "SUCCEEDED")
      BY <1>1, <3>3 DEF EndJob, Ended, LiveJob, JobRow
    <3>4. ASSUME NEW k \in JobIds, EndJobAndQueue(j, "SUCCEEDED", k, "EVALUATE_RECOVERY")
          PROVE  FALSE
      <4>1. j # k
        BY <1>3, <3>4 DEF EndJobAndQueue, LiveJob, JobExists
      <4>2. QED
        BY <1>1, <3>4, <4>1 DEF EndJobAndQueue, Ended, LiveJob, JobRow
    <3>5. QED
      BY <3>1, <3>2, <3>3, <3>4 DEF FinalizeJob, FinalizeSuccess, FinalizeFailure,
                                    FinalizeExhausted
  <2>4. QED
    BY <1>1, <2>1, <2>2, <2>3, HowAttemptsChange
<1>4. QED
  BY <1>2, <1>3, HowJobsAreLive

(* A live job with an attempt is cancelled, goes on with it, or ends as    *)
(* the attempt is settled.                                                 *)
LEMMA HowAttemptJobsEnd ==
  ASSUME JobsInv, [Next]_vars, NEW i \in JobIds, LiveJob(i), jobs[i].attempt # 0,
         ~LiveJob(i)', jobs'[i].status # "CANCELLED"
  PROVE  \E w \in Workers : /\ Job(w) = i
                            /\ \/ FinalizeSuccess(w) \/ FinalizeExhausted(w)
                               \/ \E k \in JobIds : FinalizeFailure(w, k)
<1>1. RowsAndWorkers /\ jobs \in [JobIds -> JobRow]
  BY DEF JobsInv, RowsAndWorkers, TypeOK, DbTypeOK
<1>2. ~Cancels
  BY <1>1 DEF Cancels, CancelPending, LiveJob, JobRow
<1>3. ~Adds /\ ~KeepsJobs /\ ~Expires
  BY <1>1 DEF Adds, KeepsJobs, Expires, LiveJob, JobExists, JobRow
<1>4. ASSUME NEW w \in Workers, NEW j \in JobIds, ClaimsJob(w, j)
      PROVE  FALSE
  BY <1>4 DEF ClaimsJob, LiveJob
<1>5. PICK w \in Workers : Ends(w) /\ (FinalizeEvaluation(w) \/ FinalizeJob(w))
  BY <1>1, <1>2, <1>3, <1>4, StepOnJobs
<1>6. Job(w) = i
  <2>1. CASE \E s : EndJob(Job(w), s)
    BY <1>1, <2>1 DEF EndJob, LiveJob
  <2>2. ASSUME NEW s, NEW type, NEW k \in JobIds, EndJobAndQueue(Job(w), s, k, type)
        PROVE  Job(w) = i
    BY <1>1, <2>2 DEF EndJobAndQueue, LiveJob, JobExists
  <2>3. QED
    BY <1>5, <2>1, <2>2 DEF Ends, JobGoesOn
<1>7. ~FinalizeEvaluation(w)
  <2>1. FinalizeEvaluation(w) => worker[w].pc = "evaluating"
    BY DEF FinalizeEvaluation, EvaluationFails, DecisionTooLate, DecideCharge,
           DecideDelay, DecideAbort, Deciding
  <2>2. worker[w].pc = "evaluating" => jobs[i].type = "EVALUATE_RECOVERY"
    BY <1>1, <1>6 DEF RowsAndWorkers, WorkersAreSound
  <2>3. JobExists(i)
    BY DEF LiveJob, JobExists
  <2>4. QED
    BY <1>1, <2>1, <2>2, <2>3 DEF RowsAndWorkers, JobsAreSound
<1>8. ~FinalizeAmbiguous(w)
  BY <1>1, <1>6 DEF FinalizeAmbiguous, EndJob, Ended, LiveJob, JobRow
<1>9. QED
  BY <1>5, <1>6, <1>7, <1>8 DEF FinalizeJob

LEMMA StepKeepsOpenAttempts ==
  ASSUME AttemptsInv, [Next]_vars
  PROVE  OpenAttemptHasJob'
<1> SUFFICES ASSUME NEW c \in CaseIds, NEW n \in AttemptNos,
                    attempts'[c][n] \in Unsettled
             PROVE  \E j \in JobIds : /\ jobs'[j].case = c /\ jobs'[j].attempt = n
                                      /\ LiveJob(j)' \/ jobs'[j].status = "CANCELLED"
  BY DEF OpenAttemptHasJob, Unsettled
<1>1. /\ JobsInv /\ RowsAndWorkers /\ jobs \in [JobIds -> JobRow]
      /\ attempts \in [CaseIds -> [AttemptNos -> AttemptState \cup {"ABSENT"}]]
  BY DEF AttemptsInv, JobsInv, RowsAndWorkers, TypeOK, DbTypeOK
<1>2. ASSUME NEW w \in Workers, NEW j \in JobIds, Starts(w, j, c, n)
      PROVE  /\ jobs'[j].case = c /\ jobs'[j].attempt = n
             /\ jobs'[j].status = "RUNNING"
  <2>1. jobs' = [jobs EXCEPT ![j] = [Claimed(w, j) EXCEPT !.attempt = n, !.count = n]]
    BY <1>2 DEF Starts, StartAttempt
  <2>2. QED
    BY <1>1, <1>2, <2>1 DEF Starts, Claimed, JobRow
<1>3. CASE attempts[c][n] \in Unsettled
  <2>1. PICK i \in JobIds : /\ jobs[i].case = c /\ jobs[i].attempt = n
                            /\ LiveJob(i) \/ jobs[i].status = "CANCELLED"
    BY <1>3 DEF AttemptsInv, OpenAttemptHasJob, Unsettled
  <2>2. JobExists(i) /\ n # 0
    BY <2>1 DEF LiveJob, JobExists, AttemptNos
  <2>3. CASE jobs[i].status = "CANCELLED"
    BY <1>1, <2>1, <2>2, <2>3, StepKeepsFinished DEF LiveJob
  <2>4. SameJob(i)
    <3>1. CASE Quiet
      BY <2>2, <3>1 DEF Quiet, JobsKept
    <3>2. ASSUME NEW w \in Workers, NEW j \in JobIds, StartAttempt(w, j)
          PROVE  SameJob(i)
      BY <1>1, <2>1, <2>2, <3>2 DEF StartAttempt, SameJob
    <3>3. ASSUME NEW w \in Workers, Charge(w)
          PROVE  SameJob(i)
      BY <3>3 DEF Charge, dbVars, SameJob
    <3>4. QED
      BY <1>1, <3>1, <3>2, <3>3, StepKinds
  <2>5. CASE LiveJob(i) /\ ~LiveJob(i)' /\ jobs'[i].status # "CANCELLED"
    <3>1. PICK w \in Workers : /\ Job(w) = i
                               /\ \/ FinalizeSuccess(w) \/ FinalizeExhausted(w)
                                  \/ \E k \in JobIds : FinalizeFailure(w, k)
      BY <1>1, <2>1, <2>2, <2>5, HowAttemptJobsEnd
    <3>2. worker[w].attempt = n
      BY <1>1, <2>1, <3>1, SettlingJob DEF FinalizeJob
    <3>3. SettleAttempt(w, "SUCCEEDED") \/ SettleAttempt(w, "FAILED")
      BY <3>1 DEF FinalizeSuccess, FinalizeExhausted, FinalizeFailure
    <3>4. QED
      BY <1>1, <2>1, <3>1, <3>2, <3>3 DEF SettleAttempt, Unsettled
  <2>6. QED
    BY <2>1, <2>3, <2>4, <2>5 DEF SameJob
<1>4. CASE attempts[c][n] \notin Unsettled
  <2>1. ASSUME NEW w \in Workers, Settles(w, c, n)
        PROVE  FALSE
    BY <1>1, <1>4, <2>1, SettlingJob DEF Settles, AttemptsInv, LiveAttemptsOpen
  <2>2. QED
    BY <1>1, <1>2, <1>4, <2>1, HowAttemptsChange DEF LiveJob
<1>5. QED
  BY <1>3, <1>4

LEMMA InitAttemptsInv == Init => AttemptsInv
<1>1. Init => JobsInv
  BY InitJobsInv
<1>2. Init => LiveAttemptsOpen /\ OpenAttemptHasJob
  BY DEF Init, DbInit, NoJob, NewJob, LiveAttemptsOpen, OpenAttemptHasJob, LiveJob
<1>3. QED
  BY <1>1, <1>2 DEF AttemptsInv

LEMMA StepKeepsAttemptsInv == AttemptsInv /\ [Next]_vars => AttemptsInv'
BY StepKeepsJobsInv, StepKeepsLiveAttempts, StepKeepsOpenAttempts DEF AttemptsInv

LEMMA AttemptsInvHolds == Spec => []AttemptsInv
BY InitAttemptsInv, StepKeepsAttemptsInv, PTL DEF Spec

(* An attempt whose outcome is not known always has the job that will find *)
(* it out, or had it cancelled.                                            *)
THEOREM OpenAttemptHasJobHolds == Spec => []OpenAttemptHasJob
<1>1. AttemptsInv => OpenAttemptHasJob
  BY DEF AttemptsInv
<1>2. QED
  BY <1>1, AttemptsInvHolds, PTL

(* An attempt goes from status to status as ATTEMPT_TRANSITIONS says. *)
FollowsMap(old, new) ==
    IF old = "ABSENT" THEN new = "RUNNING"
    ELSE ValidTransition(old, new, AttemptTransitions)

LEMMA StepFollowsMap ==
  ASSUME AttemptsInv, [Next]_vars, NEW c \in CaseIds, NEW n \in AttemptNos,
         attempts[c][n] # attempts'[c][n]
  PROVE  FollowsMap(attempts[c][n], attempts'[c][n])
<1>1. /\ JobsInv /\ RowsAndWorkers
      /\ attempts \in [CaseIds -> [AttemptNos -> AttemptState \cup {"ABSENT"}]]
  BY DEF AttemptsInv, JobsInv, RowsAndWorkers, TypeOK, DbTypeOK
<1>2. ASSUME NEW w \in Workers, NEW j \in JobIds, Starts(w, j, c, n)
      PROVE  attempts[c][n] = "ABSENT" /\ attempts'[c][n] = "RUNNING"
  BY <1>1, <1>2 DEF Starts, StartAttempt, NumberIsFree, InsertAttempt
<1>3. ASSUME NEW w \in Workers, Settles(w, c, n)
      PROVE  /\ attempts[c][n] \in Unsettled
             /\ attempts'[c][n] \in {"SUCCEEDED", "FAILED", "AMBIGUOUS"}
  BY <1>1, <1>3, SettlingJob DEF Settles, AttemptsInv, LiveAttemptsOpen
<1>4. CASE \E w \in Workers : Settles(w, c, n)
  BY <1>3, <1>4 DEF FollowsMap, ValidTransition, AttemptTransitions, AttemptState, Unsettled
<1>5. QED
  BY <1>1, <1>2, <1>4, HowAttemptsChange DEF FollowsMap

(* An attempt is inserted RUNNING, never again, and only an unsettled one  *)
(* is settled.                                                             *)
THEOREM AttemptsFollowMapHolds == Spec => AttemptsFollowMap
<1>1. AttemptsInv /\ [Next]_vars => [\A c \in CaseIds, n \in AttemptNos :
          LET old == attempts[c][n]
              new == attempts'[c][n]
          IN  old # new => IF old = "ABSENT" THEN new = "RUNNING"
                           ELSE ValidTransition(old, new, AttemptTransitions)]_vars
  BY StepFollowsMap DEF FollowsMap
<1>2. QED
  BY <1>1, AttemptsInvHolds, PTL DEF Spec, AttemptsFollowMap

-----------------------------------------------------------------------------
(***************************************************************************)
(* Cases and payments: recovered cases are paid, no case is stranded, how  *)
(* RECOVERED is lost; a payment's status is backed and shows the successes *)
(* that were handled.                                                      *)
(***************************************************************************)

(* Cases. *)

CasesInv == AttemptsInv /\ RecoveredIsPaid /\ NoStrandedCase

-----------------------------------------------------------------------------
(* What a step may do to case c. *)

OpensCase(c) == /\ cases[c].status # "RECOVERED"
            /\ cases'[c].status = "OPEN"
            /\ \E j \in JobIds : jobs'[j] = NewJob(c, "EVALUATE_RECOVERY", 0)

RecoversCase(c) == /\ cases'[c] = [cases[c] EXCEPT !.status = "RECOVERED"]
               /\ Paid(cases[c].payment)'

StopsCase(c) == /\ cases'[c] = [cases[c] EXCEPT !.status = "STOPPED"]
            /\ \/ ~Paid(cases[c].payment)
               \/ \E w \in Workers :
                     FinalizeExhausted(w) /\ c = jobs[Job(w)].case

LEMMA WebhookOnCases ==
  ASSUME RowsAndWorkers, Webhook, NEW c \in CaseIds, cases'[c] # cases[c]
  PROVE  OpensCase(c) \/ RecoversCase(c)
<1> PICK e \in Events : ProcessWebhook(e)
  BY DEF Webhook
<1>1. /\ cases \in [CaseIds -> CaseRow] /\ jobs \in [JobIds -> JobRow]
      /\ payments \in [PaymentIds -> PaymentRow]
      /\ e.payment \in PaymentIds
  BY EventsAssumption DEF RowsAndWorkers, TypeOK, DbTypeOK, WebhookEvent
<1>2. ASSUME NEW d \in CaseIds, NEW j \in JobIds, OpenCase(e, d, j)
      PROVE  OpensCase(c)
  <2>1. d = c
    BY <1>1, <1>2 DEF OpenCase
  <2>2. cases'[c].status = "OPEN" /\ jobs'[j] = NewJob(c, "EVALUATE_RECOVERY", 0)
    BY <1>1, <1>2, <2>1 DEF OpenCase
  <2>3. QED
    BY <1>2, <2>1, <2>2 DEF OpenCase, OpensCase, CaseExists
<1>3. CASE RecordSuccess(e)
  <2>1. /\ c \in ActiveCases(e.payment)
        /\ cases'[c] = [cases[c] EXCEPT !.status = "RECOVERED"]
    BY <1>1, <1>3 DEF RecordSuccess
  <2>2. Paid(e.payment)'
    BY <1>1, <1>3 DEF RecordSuccess, PutPayment, Paid
  <2>3. cases[c].payment = e.payment
    BY <2>1 DEF ActiveCases
  <2>4. QED
    BY <2>1, <2>2, <2>3 DEF RecoversCase, Paid
<1>4. QED
  BY <1>2, <1>3 DEF ProcessWebhook, AcknowledgeTerminal, RecordRepeatedFailure

LEMMA AdminOnCases ==
  ASSUME RowsAndWorkers, Admin, NEW c \in CaseIds, cases'[c] # cases[c]
  PROVE  OpensCase(c) \/ RecoversCase(c) \/ StopsCase(c)
<1> PICK d \in CaseIds : StopCase(d) \/ RetryCase(d)
  BY DEF Admin
<1>1. cases \in [CaseIds -> CaseRow] /\ jobs \in [JobIds -> JobRow]
  BY DEF RowsAndWorkers, TypeOK, DbTypeOK
<1>2. CASE RejectForPaid(d)
  BY <1>1, <1>2 DEF RejectForPaid, RecoversCase, Paid
<1>3. CASE CloseCase(d)
  BY <1>1, <1>3 DEF CloseCase, StopsCase
<1>4. ASSUME NEW j \in JobIds, ReopenCase(d, j)
      PROVE  OpensCase(c)
  <2>1. d = c
    BY <1>1, <1>4 DEF ReopenCase
  <2>2. cases'[c].status = "OPEN" /\ jobs'[j] = NewJob(c, "EVALUATE_RECOVERY", 0)
    BY <1>1, <1>4, <2>1 DEF ReopenCase, CaseRow
  <2>3. QED
    BY <1>4, <2>1, <2>2 DEF ReopenCase, OpensCase
<1>5. QED
  BY <1>2, <1>3, <1>4 DEF StopCase, RetryCase

(* The branch of EvaluationFails that stops the case is never taken. *)
LEMMA EvaluationLeavesBudget ==
  ASSUME RowsAndWorkers, NEW w \in Workers, worker[w].pc = "evaluating"
  PROVE  AttemptsLeft(Job(w))
<1>1. /\ Job(w) \in JobIds /\ JobExists(Job(w))
      /\ jobs[Job(w)].type = "EVALUATE_RECOVERY"
  BY DEF RowsAndWorkers, WorkersAreSound
<1>2. jobs[Job(w)].attempt = 0 /\ NextNumber(Job(w)) <= MaxAttempts
  BY <1>1 DEF RowsAndWorkers, JobsAreSound
<1>3. jobs[Job(w)].count \in Int
  BY <1>1 DEF RowsAndWorkers, TypeOK, DbTypeOK, JobRow, AttemptNos
<1>4. QED
  BY <1>2, <1>3, MaxAttemptsAssumption DEF NextNumber, AttemptsLeft

LEMMA FinalizeOnCases ==
  ASSUME RowsAndWorkers, NEW w \in Workers, FinalizeEvaluation(w) \/ FinalizeJob(w),
         NEW c \in CaseIds, cases'[c] # cases[c]
  PROVE  RecoversCase(c) \/ StopsCase(c)
<1> DEFINE d == jobs[Job(w)].case
<1>1. cases \in [CaseIds -> CaseRow] /\ payments \in [PaymentIds -> PaymentRow]
  BY DEF RowsAndWorkers, TypeOK, DbTypeOK
<1>2. ASSUME NEW k \in JobIds, EvaluationFails(w, k)
      PROVE  FALSE
  BY <1>2, EvaluationLeavesBudget DEF EvaluationFails
<1>3. CASE DecideAbort(w)
  BY <1>1, <1>3 DEF DecideAbort, SetCase, StopsCase, PaymentOf
<1>4. CASE FinalizeExhausted(w)
  BY <1>1, <1>4 DEF FinalizeExhausted, SetCase, StopsCase
<1>5. CASE FinalizeSuccess(w)
  <2>1. d = c /\ cases'[c] = [cases[c] EXCEPT !.status = "RECOVERED"]
    BY <1>1, <1>5 DEF FinalizeSuccess, SetCase
  <2>2. PaymentOf(Job(w)) \in PaymentIds
    BY <1>5, JobInHand DEF FinalizeSuccess, Finalizing, FinalizePc
  <2>3. payments'[cases[c].payment].status = "SUCCEEDED"
    BY <1>1, <1>5, <2>1, <2>2 DEF FinalizeSuccess, PaymentRow, PaymentOf
  <2>4. QED
    BY <1>1, <2>1, <2>3 DEF RecoversCase, Paid, CaseRow
<1>6. QED
  BY <1>2, <1>3, <1>4, <1>5 DEF FinalizeEvaluation, DecisionTooLate, DecideCharge,
     DecideDelay, FinalizeJob, FinalizeAmbiguous, FinalizeFailure

LEMMA HowCasesChange ==
  ASSUME RowsAndWorkers, [Next]_vars, NEW c \in CaseIds, cases'[c] # cases[c]
  PROVE  OpensCase(c) \/ RecoversCase(c) \/ StopsCase(c)
<1>1. \/ Webhook \/ Admin
      \/ \E w \in Workers : FinalizeEvaluation(w) \/ FinalizeJob(w)
  BY ZenonT(30) DEF Next, WorkerStep, Claim, LeaseExpires, ClaimForPaid, BeginEvaluation,
     StartAttempt, ResumeAttempt, VerifyPayment, Charge, FinalizeRaises, Crash,
     vars, dbVars
<1>2. QED
  BY <1>1, WebhookOnCases, AdminOnCases, FinalizeOnCases

-----------------------------------------------------------------------------
(* RECOVERED and paid. *)

LEMMA StepKeepsRecovered ==
  ASSUME RowsAndWorkers, RecoveredIsPaid, [Next]_vars
  PROVE  RecoveredIsPaid'
<1> SUFFICES ASSUME NEW c \in CaseIds, cases'[c].status = "RECOVERED"
             PROVE  Paid(cases[c].payment)'
  BY DEF RecoveredIsPaid
<1>1. cases \in [CaseIds -> CaseRow]
  BY DEF RowsAndWorkers, TypeOK, DbTypeOK
<1>2. CASE cases'[c] = cases[c]
  <2>1. Paid(cases[c].payment) /\ cases[c].payment \in PaymentIds
    BY <1>2 DEF RecoveredIsPaid, RowsAndWorkers, RowsRefer, CaseExists
  <2>2. QED
    BY <1>2, <2>1, StepKeepsPaid DEF Paid
<1>3. CASE cases'[c] # cases[c]
  <2>1. ~OpensCase(c) /\ ~StopsCase(c)
    BY <1>1 DEF OpensCase, StopsCase, CaseRow
  <2>2. QED
    BY <1>1, <1>3, <2>1, HowCasesChange DEF RecoversCase, CaseRow
<1>4. QED
  BY <1>2, <1>3

-----------------------------------------------------------------------------
(* The last live job of a case. *)

(* A live job is live after a step, or its case is paid or closed, or it   *)
(* has queued the next job of its case.                                    *)
LEMMA HowLiveJobsEnd ==
  ASSUME JobsInv, [Next]_vars, NEW j \in JobIds, LiveJob(j),
         cases'[jobs[j].case] = cases[jobs[j].case], ActiveCase(jobs[j].case),
         ~Paid(PaymentOf(j))
  PROVE  \E k \in JobIds : jobs'[k].case = jobs[j].case /\ LiveJob(k)'
<1> DEFINE c == jobs[j].case
<1>1. /\ RowsAndWorkers /\ jobs \in [JobIds -> JobRow] /\ JobExists(j)
      /\ cases \in [CaseIds -> CaseRow]
  BY DEF JobsInv, RowsAndWorkers, TypeOK, DbTypeOK, LiveJob, JobExists
<1>2. c \in CaseIds
  BY <1>1 DEF RowsAndWorkers, RowsRefer
<1>3. CASE Cancels
  BY <1>1, <1>3 DEF Cancels, CancelPending, ActiveCase, CaseExists, LiveJob, JobRow
<1>4. CASE Adds \/ KeepsJobs \/ Expires
  BY <1>1, <1>4 DEF Adds, KeepsJobs, Expires, LiveJob, JobExists, JobRow
<1>5. ASSUME NEW w \in Workers, NEW i \in JobIds, ClaimsJob(w, i)
      PROVE  jobs'[j].case = c /\ LiveJob(j)'
  BY <1>5 DEF ClaimsJob, LiveJob
<1>6. ASSUME NEW w \in Workers, Ends(w), FinalizeEvaluation(w) \/ FinalizeJob(w)
      PROVE  \E k \in JobIds : jobs'[k].case = c /\ LiveJob(k)'
  <2>1. ASSUME NEW s, NEW type, NEW k \in JobIds, EndJobAndQueue(Job(w), s, k, type)
        PROVE  \E i \in JobIds : jobs'[i].case = c /\ LiveJob(i)'
    <3>1. k # j
      BY <1>1, <2>1 DEF EndJobAndQueue
    <3>2. CASE Job(w) = j
      BY <1>1, <2>1, <3>1, <3>2 DEF EndJobAndQueue, NewJob, LiveJob
    <3>3. CASE Job(w) # j
      BY <1>1, <2>1, <3>1, <3>3 DEF EndJobAndQueue, LiveJob
    <3>4. QED
      BY <3>2, <3>3
  <2>2. CASE \E s : EndJob(Job(w), s) /\ Job(w) # j
    BY <1>1, <2>2 DEF EndJob, LiveJob
  <2>3. CASE EndJob(j, "PENDING")
    BY <1>1, <2>3 DEF EndJob, Ended, LiveJob, JobRow
  <2>4. ASSUME Job(w) = j
        PROVE  /\ ~SetCase(c, "STOPPED") /\ ~SetCase(c, "RECOVERED")
               /\ ~DecisionTooLate(w)
               /\ cases[c].status # "RECOVERED"
    <3>1. cases'[c].status \notin {"STOPPED", "RECOVERED"}
      BY DEF ActiveCase, TerminalCaseStates
    <3>2. QED
      BY <1>1, <1>2, <2>4, <3>1 DEF SetCase, CaseRow, DecisionTooLate
  <2>5. QED
    <3>1. CASE FinalizeEvaluation(w)
      BY <1>6, <2>1, <2>2, <2>4, <3>1, EvaluationLeavesBudget, <1>1
      DEF FinalizeEvaluation, DecisionTooLate, DecideAbort, EvaluationFails,
          DecideCharge, DecideDelay
    <3>2. CASE FinalizeJob(w)
      BY <1>6, <2>1, <2>2, <2>3, <2>4, <3>2
      DEF FinalizeJob, FinalizeSuccess, FinalizeExhausted, FinalizeAmbiguous,
          FinalizeFailure
    <3>3. QED
      BY <1>6, <3>1, <3>2
<1>7. QED
  BY <1>1, <1>3, <1>4, <1>5, <1>6, StepOnJobs

LEMMA StepKeepsNoneStranded ==
  ASSUME JobsInv, NoStrandedCase, [Next]_vars
  PROVE  NoStrandedCase'
<1> SUFFICES ASSUME NEW c \in CaseIds, ActiveCase(c)', ~Paid(cases[c].payment)'
             PROVE  \E k \in JobIds : jobs'[k].case = c /\ LiveJob(k)'
  BY DEF NoStrandedCase
<1>1. RowsAndWorkers /\ cases \in [CaseIds -> CaseRow]
  BY DEF JobsInv, RowsAndWorkers, TypeOK, DbTypeOK
<1>2. CASE cases'[c] # cases[c]
  <2>1. ~RecoversCase(c) /\ ~StopsCase(c)
    BY <1>1 DEF RecoversCase, StopsCase, ActiveCase, TerminalCaseStates, CaseRow
  <2>2. OpensCase(c)
    BY <1>1, <1>2, <2>1, HowCasesChange
  <2>3. QED
    BY <2>2 DEF OpensCase, NewJob, LiveJob
<1>3. CASE cases'[c] = cases[c]
  <2>1. ActiveCase(c) /\ cases[c].payment \in PaymentIds
    BY <1>1, <1>3 DEF ActiveCase, CaseExists, RowsAndWorkers, RowsRefer
  <2>2. ~Paid(cases[c].payment)
    BY <1>1, <1>3, <2>1, StepKeepsPaid DEF Paid
  <2>3. PICK j \in JobIds : jobs[j].case = c /\ LiveJob(j)
    BY <2>1, <2>2 DEF NoStrandedCase
  <2>4. QED
    BY <1>3, <2>1, <2>2, <2>3, HowLiveJobsEnd DEF PaymentOf
<1>4. QED
  BY <1>2, <1>3

-----------------------------------------------------------------------------
LEMMA CasesInvHolds == Spec => []CasesInv
<1>1. Init => AttemptsInv
  BY InitAttemptsInv
<1>2. Init => RecoveredIsPaid /\ NoStrandedCase
  BY DEF Init, DbInit, NoCase, RecoveredIsPaid, NoStrandedCase, ActiveCase, CaseExists
<1>3. CasesInv /\ [Next]_vars => CasesInv'
  BY StepKeepsAttemptsInv, StepKeepsRecovered, StepKeepsNoneStranded
  DEF CasesInv, AttemptsInv, JobsInv
<1>4. QED
  BY <1>1, <1>2, <1>3, PTL DEF Spec, CasesInv

(* A case counts as recovered only if its payment was paid. *)
THEOREM RecoveredIsPaidHolds == Spec => []RecoveredIsPaid
<1>1. CasesInv => RecoveredIsPaid
  BY DEF CasesInv
<1>2. QED
  BY <1>1, CasesInvHolds, PTL

(* No interleaving drops the last live job of an active, unpaid case. *)
THEOREM NoStrandedCaseHolds == Spec => []NoStrandedCase
<1>1. CasesInv => NoStrandedCase
  BY DEF CasesInv
<1>2. QED
  BY <1>1, CasesInvHolds, PTL

LEMMA HowRecoveredIsLost ==
  ASSUME CasesInv, [Next]_vars, NEW c \in CaseIds,
         cases[c].status = "RECOVERED", cases'[c].status # "RECOVERED"
  PROVE  /\ cases'[c].status = "STOPPED"
         /\ attempts'[c] = [attempts[c] EXCEPT ![MaxAttempts] = "FAILED"]
         /\ attempts'[c] # attempts[c]
<1>1. /\ AttemptsInv /\ JobsInv /\ RowsAndWorkers /\ Paid(cases[c].payment)
      /\ cases \in [CaseIds -> CaseRow] /\ jobs \in [JobIds -> JobRow]
      /\ attempts \in [CaseIds -> [AttemptNos -> AttemptState \cup {"ABSENT"}]]
  BY DEF CasesInv, AttemptsInv, JobsInv, RecoveredIsPaid, RowsAndWorkers, TypeOK,
              DbTypeOK
<1>2. StopsCase(c)
  BY <1>1, HowCasesChange DEF OpensCase, RecoversCase, CaseRow
<1>3. PICK w \in Workers : FinalizeExhausted(w) /\ c = jobs[Job(w)].case
  BY <1>1, <1>2 DEF StopsCase
<1> DEFINE j == Job(w)
           n == worker[w].attempt
<1>4. /\ j \in JobIds /\ LiveJob(j) /\ JobExists(j) /\ jobs[j].attempt = n
      /\ n # 0 /\ n \in AttemptNos
  BY <1>1, <1>3, SettlingJob DEF FinalizeJob, LiveJob, JobExists
<1>5. n = MaxAttempts
  <2>1. jobs[j].count = n /\ n <= MaxAttempts
    BY <1>1, <1>4 DEF RowsAndWorkers, JobsAreSound, NextNumber
  <2>2. ~(jobs[j].count < MaxAttempts)
    BY <1>3 DEF FinalizeExhausted, AttemptsLeft
  <2>3. n \in Int
    BY <1>4 DEF AttemptNos
  <2> HIDE DEF n
  <2>4. QED
    BY <2>1, <2>2, <2>3, MaxAttemptsAssumption
<1>6. attempts' = [attempts EXCEPT ![c][MaxAttempts] = "FAILED"]
  BY <1>3, <1>5 DEF FinalizeExhausted, SettleAttempt
<1>7. attempts[c][MaxAttempts] \in Unsettled
  BY <1>1, <1>3, <1>4, <1>5 DEF AttemptsInv, LiveAttemptsOpen
<1>8. MaxAttempts \in AttemptNos
  BY <1>4, <1>5
<1>9. QED
  BY <1>1, <1>2, <1>6, <1>7, <1>8 DEF StopsCase, CaseRow, Unsettled

(* A case leaves RECOVERED only for STOPPED, in the step that records the  *)
(* failure of its last attempt.                                            *)
THEOREM RecoveredLostToLastChargeOnlyHolds == Spec => RecoveredLostToLastChargeOnly
<1>1. CasesInv /\ [Next]_vars =>
        [\A c \in CaseIds :
            cases[c].status = "RECOVERED" /\ cases'[c].status # "RECOVERED" =>
                /\ cases'[c].status = "STOPPED"
                /\ attempts'[c] = [attempts[c] EXCEPT ![MaxAttempts] = "FAILED"]
                /\ attempts'[c] # attempts[c]]_vars
  BY HowRecoveredIsLost
<1>2. QED
  BY <1>1, CasesInvHolds, PTL DEF Spec, RecoveredLostToLastChargeOnly

-----------------------------------------------------------------------------
(* Payments. *)

(* The failure an exception handler makes up never becomes a success. *)
MadeUpIsFailure ==
    \A w \in Workers : worker[w].pc = "refinalizing" => worker[w].result = "failed"

NeverAbandoned == \A p \in PaymentIds : payments[p].status # "ABANDONED"

PaymentsInv == /\ RowsAndWorkers
               /\ AnswersAreReal
               /\ MadeUpIsFailure
               /\ NeverAbandoned
               /\ PaidIsBacked

-----------------------------------------------------------------------------
(* Who writes to the payments table. *)

Updates(e, p) == /\ e.payment = p
                 /\ \E s \in {"FAILED", "SUCCEEDED"} :
                       /\ payments'[p] = [status |-> s, terms |-> e.terms]
                       /\ s = "SUCCEEDED" => e.type = "payment.succeeded"
                 /\ e.id \in handled'

Settled(w, p) == /\ FinalizeSuccess(w)
                 /\ p = PaymentOf(Job(w))
                 /\ payments'[p] = [payments[p] EXCEPT !.status = "SUCCEEDED"]

LEMMA HowPaymentsChange ==
  ASSUME RowsAndWorkers, [Next]_vars, NEW p \in PaymentIds,
         payments'[p] # payments[p]
  PROVE  \/ \E e \in Events : Updates(e, p)
         \/ \E w \in Workers : Settled(w, p)
<1>1. payments \in [PaymentIds -> PaymentRow]
  BY DEF RowsAndWorkers, TypeOK, DbTypeOK
<1>2. CASE Webhook
  <2>1. PICK e \in Events : ProcessWebhook(e)
    BY <1>2 DEF Webhook
  <2>2. ASSUME NEW s \in {"FAILED", "SUCCEEDED"}, PutPayment(e, s),
               s = "SUCCEEDED" => e.type = "payment.succeeded",
               handled' = handled \cup {e.id}
        PROVE  Updates(e, p)
    BY <1>1, <2>2 DEF PutPayment, Updates
  <2>3. QED
    BY <2>1, <2>2 DEF ProcessWebhook, AcknowledgeTerminal, RecordRepeatedFailure,
                      OpenCase, RecordSuccess
<1>3. ASSUME NEW w \in Workers, FinalizeSuccess(w)
      PROVE  Settled(w, p)
  BY <1>1, <1>3 DEF FinalizeSuccess, Settled
<1>4. \/ UNCHANGED payments
      \/ Webhook
      \/ \E w \in Workers : FinalizeSuccess(w)
  BY ZenonT(30) DEF Next, WorkerStep, Claim, Admin, StopCase, RetryCase, RejectForPaid,
     CloseCase, ReopenCase, LeaseExpires, ClaimForPaid, BeginEvaluation,
     StartAttempt, ResumeAttempt, VerifyPayment, Charge, FinalizeRaises, Crash,
     FinalizeEvaluation, EvaluationFails, DecisionTooLate, DecideCharge,
     DecideDelay, DecideAbort, FinalizeJob, FinalizeFailure, FinalizeExhausted,
     FinalizeAmbiguous, vars, dbVars
<1>5. QED
  BY <1>2, <1>3, <1>4

(* An event is handled in a delivery, and stays handled. *)
LEMMA HowEventsAreHandled ==
  ASSUME [Next]_vars
  PROVE  \/ UNCHANGED handled
         \/ \E e \in Events : ProcessWebhook(e) /\ handled' = handled \cup {e.id}
<1>1. ASSUME NEW e \in Events, ProcessWebhook(e)
      PROVE  handled' = handled \cup {e.id}
  BY <1>1 DEF ProcessWebhook, AcknowledgeTerminal, RecordRepeatedFailure, OpenCase,
              RecordSuccess
<1>2. \/ UNCHANGED handled
      \/ \E e \in Events : ProcessWebhook(e)
  BY ZenonT(30) DEF Webhook, Next, WorkerStep, Claim, Admin, StopCase, RetryCase, RejectForPaid,
     CloseCase, ReopenCase, LeaseExpires, ClaimForPaid, BeginEvaluation,
     StartAttempt, ResumeAttempt, VerifyPayment, Charge, FinalizeRaises, Crash,
     FinalizeEvaluation, EvaluationFails, DecisionTooLate, DecideCharge,
     DecideDelay, DecideAbort, FinalizeJob, FinalizeSuccess, FinalizeFailure,
     FinalizeExhausted, FinalizeAmbiguous, vars, dbVars
<1>3. QED
  BY <1>1, <1>2

-----------------------------------------------------------------------------
LEMMA StepKeepsMadeUp ==
  ASSUME RowsAndWorkers, MadeUpIsFailure, [Next]_vars
  PROVE  MadeUpIsFailure'
<1> SUFFICES ASSUME NEW v \in Workers, worker'[v].pc = "refinalizing"
             PROVE  worker'[v].result = "failed"
  BY DEF MadeUpIsFailure
<1>1. worker[v] \in WorkerState /\ worker \in [Workers -> WorkerState]
  BY DEF RowsAndWorkers, TypeOK, WorkerTypeOK
<1>2. CASE worker'[v] = worker[v]
  BY <1>2 DEF MadeUpIsFailure
<1>3. CASE FinalizeRaises(v)
  BY <1>1, <1>3 DEF FinalizeRaises, Release, Idle, WorkerState
<1>4. QED
  BY <1>2, <1>3, HowResultsAppear DEF FinalizePc

LEMMA StepKeepsUnabandoned ==
  ASSUME RowsAndWorkers, NeverAbandoned, [Next]_vars
  PROVE  NeverAbandoned'
<1> SUFFICES ASSUME NEW p \in PaymentIds
             PROVE  payments'[p].status # "ABANDONED"
  BY DEF NeverAbandoned
<1>1. CASE payments'[p] = payments[p]
  BY <1>1 DEF NeverAbandoned
<1>2. ASSUME NEW e \in Events, Updates(e, p)
      PROVE  payments'[p].status # "ABANDONED"
  BY <1>2 DEF Updates
<1>3. ASSUME NEW w \in Workers, Settled(w, p)
      PROVE  payments'[p].status # "ABANDONED"
  BY <1>3 DEF Settled, RowsAndWorkers, TypeOK, DbTypeOK, PaymentRow
<1>4. QED
  BY <1>1, <1>2, <1>3, HowPaymentsChange

LEMMA StepKeepsBacked ==
  ASSUME RowsAndWorkers, AnswersAreReal, MadeUpIsFailure, PaidIsBacked, [Next]_vars
  PROVE  PaidIsBacked'
<1> SUFFICES ASSUME NEW p \in PaymentIds, Paid(p)'
             PROVE  \/ \E n \in AttemptNos : store'[p][n] = "succeeded"
                    \/ \E e \in Events : /\ e.type = "payment.succeeded"
                                         /\ e.payment = p /\ e.id \in handled'
                                         /\ e.terms = payments'[p].terms
  BY DEF PaidIsBacked
<1>1. StoreKept /\ handled \subseteq handled'
  BY StepKeepsStore, HowEventsAreHandled
<1>2. CASE payments'[p] = payments[p]
  <2>1. Paid(p)
    BY <1>2 DEF Paid
  <2>2. QED
    BY <1>1, <1>2, <2>1 DEF PaidIsBacked, StoreKept
<1>3. ASSUME NEW e \in Events, Updates(e, p)
      PROVE  /\ e.type = "payment.succeeded" /\ e.payment = p /\ e.id \in handled'
             /\ e.terms = payments'[p].terms
  BY <1>3 DEF Updates, Paid
<1>4. ASSUME NEW w \in Workers, Settled(w, p)
      PROVE  \E n \in AttemptNos : store'[p][n] = "succeeded"
  <2>1. /\ worker[w].pc \in ChargePc /\ worker[w].pc \in {"reconciled", "finalizing"}
        /\ worker[w].result = "succeeded" /\ p = PaymentOf(Job(w))
    BY <1>4 DEF Settled, FinalizeSuccess, Finalizing, FinalizePc, ChargePc,
                MadeUpIsFailure
  <2>2. worker[w].attempt \in AttemptNos /\ store[p][worker[w].attempt] = "succeeded"
    BY <2>1, KeyInHand DEF AnswersAreReal
  <2>3. QED
    BY <1>1, <2>2 DEF StoreKept
<1>5. QED
  BY <1>2, <1>3, <1>4, HowPaymentsChange

LEMMA PaymentsInvHolds == Spec => []PaymentsInv
<1>1. Init => RowsAndWorkers
  BY InitRowsAndWorkers
<1>2. Init => AnswersAreReal /\ MadeUpIsFailure
  BY DEF Init, WorkerInit, Idle, AnswersAreReal, MadeUpIsFailure
<1>3. Init => NeverAbandoned /\ PaidIsBacked
  BY DEF Init, DbInit, NoPayment, NeverAbandoned, PaidIsBacked, Paid
<1>4. PaymentsInv /\ [Next]_vars => PaymentsInv'
  BY StepKeepsRowsAndWorkers, StepKeepsAnswers, StepKeepsMadeUp, StepKeepsUnabandoned,
     StepKeepsBacked DEF PaymentsInv
<1>5. QED
  BY <1>1, <1>2, <1>3, <1>4, PTL DEF Spec, PaymentsInv

(* A payment is SUCCEEDED only because a committed event said so or the    *)
(* gateway holds a successful charge for it, aborted commits or not.       *)
THEOREM PaidIsBackedHolds == Spec => []PaidIsBacked
<1>1. PaymentsInv => PaidIsBacked
  BY DEF PaymentsInv
<1>2. QED
  BY <1>1, PaymentsInvHolds, PTL

-----------------------------------------------------------------------------
(* No other kind of event, and no other payment's, has the id of a success. *)
SuccessIdsAreOwn ==
    \A e, f \in Events : e.type = "payment.succeeded" /\ f.id = e.id =>
        f.type = "payment.succeeded" /\ f.payment = e.payment

LEMMA StepKeepsSuccess ==
  ASSUME SuccessIdsAreOwn, PaymentsInv, SuccessTakesEffect, [Next]_vars
  PROVE  SuccessTakesEffect'
<1> SUFFICES ASSUME NEW e \in Events, e.type = "payment.succeeded", e.id \in handled'
             PROVE  Paid(e.payment)'
  BY DEF SuccessTakesEffect
<1>1. /\ RowsAndWorkers /\ payments \in [PaymentIds -> PaymentRow]
      /\ e.payment \in PaymentIds
  BY EventsAssumption DEF PaymentsInv, RowsAndWorkers, TypeOK, DbTypeOK, WebhookEvent
<1>2. CASE e.id \in handled
  BY <1>1, <1>2, StepKeepsPaid DEF SuccessTakesEffect
<1>3. CASE e.id \notin handled
  <2>1. PICK f \in Events : ProcessWebhook(f) /\ f.id = e.id
    BY <1>3, HowEventsAreHandled
  <2>2. f.type = "payment.succeeded" /\ f.payment = e.payment
    BY <2>1 DEF SuccessIdsAreOwn
  <2>3. CASE AcknowledgeTerminal(f)
    BY <1>1, <2>2, <2>3 DEF AcknowledgeTerminal, Terminal, PaymentsInv, NeverAbandoned,
                            Paid
  <2>4. CASE RecordSuccess(f)
    BY <1>1, <2>2, <2>4 DEF RecordSuccess, PutPayment, Paid
  <2>5. QED
    BY <2>1, <2>2, <2>3, <2>4 DEF ProcessWebhook, RecordRepeatedFailure, OpenCase
<1>4. QED
  BY <1>2, <1>3

(* A payment.succeeded that was handled always shows in its payment, if    *)
(* the provider does not use its event id for anything else.               *)
THEOREM SuccessTakesEffectHolds ==
  ASSUME SuccessIdsAreOwn
  PROVE  Spec => []SuccessTakesEffect
<1>1. Init => SuccessTakesEffect
  BY DEF Init, DbInit, SuccessTakesEffect
<1>2. SuccessTakesEffect /\ PaymentsInv /\ [Next]_vars => SuccessTakesEffect'
  BY StepKeepsSuccess
<1>3. QED
  BY <1>1, <1>2, PaymentsInvHolds, PTL DEF Spec
=============================================================================
