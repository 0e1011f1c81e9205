--------------------------- MODULE RecoveryWorker ---------------------------
(***************************************************************************)
(* The worker processes: the loop of app/workers/executor/main.py around   *)
(* ExecutionService.process_next_job.  A worker claims a job and commits,  *)
(* leaves the database for a network call, and finalizes in a second       *)
(* transaction that reads everything again.  Those three parts are the     *)
(* steps of this module; between them anything else may happen, among it   *)
(* that the lease runs out and another worker claims the same job.         *)
(*                                                                         *)
(* What ends with a rollback and an exception caught by the loop leaves    *)
(* the tables as they were: a claim that does so is a stuttering step here *)
(* and a step of the loop in RecoveryProgress.                             *)
(***************************************************************************)
EXTENDS PaymentGateway

CONSTANTS
    CommitsMayAbort,  \* TRUE if a finalizing transaction may fail to commit
    MaxCrashes        \* bounds how often workers are killed

ASSUME WorkerAssumption == CommitsMayAbort \in BOOLEAN /\ MaxCrashes \in Nat

VARIABLES
    worker,    \* what each worker process holds in memory
    crashes    \* how many workers have been killed so far

workerVars == <<worker, crashes>>

(* evaluating: waiting for the AI provider.  verifying, charging: about to *)
(* make that gateway call.  reconciled, finalizing: holding the result of  *)
(* verify_payment_status or of charge.  refinalizing: in the handler of an *)
(* exception that finalizing a charge raised.  ambiguous: charge timed out. *)
FinalizePc == {"reconciled", "finalizing", "refinalizing"}
ChargePc   == FinalizePc \cup {"verifying", "charging", "ambiguous"}
WorkerPc   == ChargePc \cup {"idle", "evaluating"}

(* attempt: the number in the idempotency key; 0 while there is none. *)
WorkerState == [pc      : WorkerPc,
                job     : JobIds \cup {NULL},
                attempt : AttemptNos \cup {0},
                result  : GatewayResult \cup {"none"}]

Idle == [pc |-> "idle", job |-> NULL, attempt |-> 0, result |-> "none"]

WorkerTypeOK ==
    /\ worker \in [Workers -> WorkerState]
    /\ crashes \in 0 .. MaxCrashes

WorkerInit == worker = [w \in Workers |-> Idle] /\ crashes = 0

-----------------------------------------------------------------------------
(* Mutated: a RUNNING job is never claimed again. *)
PendingOnly(j) == jobs[j].status = "PENDING"

Claimable(j) ==
    \/ jobs[j].status = "PENDING"
    \/ jobs[j].status = "RUNNING" /\ jobs[j].expired

Claimed(w, j) == [jobs[j] EXCEPT !.status = "RUNNING", !.owner = w,
                                 !.expired = FALSE]

PaymentOf(j) == cases[jobs[j].case].payment

(* The job worker w has in hand. *)
Job(w) == worker[w].job

(* Mutated: locked_by is not compared with the worker's id. *)
JobIsThere(w) == JobExists(Job(w))

(* Worker w still holds the lease of its job. *)
HoldsLease(w) == jobs[Job(w)].owner = w

Goto(w, pc) == worker' = [worker EXCEPT ![w].pc = pc]

Release(w) == worker' = [worker EXCEPT ![w] = Idle]

(* The end of a job: its own row, and the next job of the case. *)
Ended(j, status) == [jobs[j] EXCEPT !.status = status, !.expired = FALSE]

EndJob(j, status) == jobs' = [jobs EXCEPT ![j] = Ended(j, status)]

(* Mutated: the next job is not added. *)
EndJobOnly(j, status, k, type) ==
    ~JobExists(k) /\ type \in JobType /\ EndJob(j, status)

EndJobAndQueue(j, status, k, type) ==
    /\ ~JobExists(k)
    /\ jobs' = [jobs EXCEPT ![j] = Ended(j, status),
                            ![k] = NewJob(jobs[j].case, type, jobs[j].count)]

SetCase(c, status) == cases' = [cases EXCEPT ![c].status = status]

(* Mutated: off by one. *)
OneMoreAttempt(j) == jobs[j].count <= MaxAttempts

AttemptsLeft(j) == jobs[j].count < MaxAttempts

(* Mutated: attempt numbers of a case need not be unique. *)
AnyNumber(c, n) == c \in CaseIds /\ n \in AttemptNos

(* Mutated: the last attempt is not started. *)
NumberBelowLimit(c, n) == attempts[c][n] = "ABSENT" /\ n < MaxAttempts

(* uq_recovery_attempt_number lets the row be inserted. *)
NumberIsFree(c, n) == attempts[c][n] = "ABSENT"

(* Mutated: the attempt is not committed with the claim. *)
AttemptNotCommitted(c, n) == c \in CaseIds /\ n \in AttemptNos /\ UNCHANGED attempts

InsertAttempt(c, n) == attempts' = [attempts EXCEPT ![c][n] = "RUNNING"]

-----------------------------------------------------------------------------
(* First transaction: claim_job and the checks of the two job types.       *)

(* A job of a payment that has succeeded meanwhile is cancelled. *)
ClaimForPaid(w, j) ==
    /\ worker[w].pc = "idle"
    /\ Claimable(j)
    /\ Paid(PaymentOf(j))
    /\ jobs' = [jobs EXCEPT ![j] = [Claimed(w, j) EXCEPT !.status = "CANCELLED"]]
    /\ UNCHANGED <<payments, cases, attempts, handled, store, workerVars>>

BeginEvaluation(w, j) ==
    /\ worker[w].pc = "idle"
    /\ Claimable(j)
    /\ jobs[j].type = "EVALUATE_RECOVERY"
    /\ ~Paid(PaymentOf(j))
    /\ jobs' = [jobs EXCEPT ![j] = Claimed(w, j)]
    /\ worker' = [worker EXCEPT ![w] = [Idle EXCEPT !.pc = "evaluating", !.job = j]]
    /\ UNCHANGED <<payments, cases, attempts, handled, store, crashes>>

(* The first claim of a charge inserts the attempt before any money moves. *)
(* The number must be new to the case (uq_recovery_attempt_number): if it  *)
(* is not, the claim is rolled back and the job stays as it was.           *)
StartAttempt(w, j) ==
    LET c == jobs[j].case
        n == jobs[j].count + 1
    IN  /\ worker[w].pc = "idle"
        /\ Claimable(j)
        /\ jobs[j].type = "EXECUTE_CHARGE"
        /\ jobs[j].attempt = 0
        /\ ~Paid(PaymentOf(j))
        /\ n \in AttemptNos
        /\ NumberIsFree(c, n)
        /\ InsertAttempt(c, n)
        /\ jobs' = [jobs EXCEPT ![j] = [Claimed(w, j) EXCEPT !.attempt = n,
                                                             !.count = n]]
        /\ worker' = [worker EXCEPT ![w] = [Idle EXCEPT !.pc = "verifying",
                                                        !.job = j, !.attempt = n]]
        /\ UNCHANGED <<payments, cases, handled, store, crashes>>

(* A later claim finds the attempt; unless it is known to be open, the     *)
(* gateway is not asked what became of it.                                 *)
ResumeAttempt(w, j) ==
    LET n == jobs[j].attempt
        open == attempts[jobs[j].case][n] \in {"AMBIGUOUS", "RUNNING"}
    IN  /\ worker[w].pc = "idle"
        /\ Claimable(j)
        /\ jobs[j].type = "EXECUTE_CHARGE"
        /\ n # 0
        /\ ~Paid(PaymentOf(j))
        /\ jobs' = [jobs EXCEPT ![j] = Claimed(w, j)]
        /\ worker' = [worker EXCEPT
                        ![w] = [Idle EXCEPT !.pc = IF open THEN "verifying"
                                                           ELSE "charging",
                                            !.job = j, !.attempt = n]]
        /\ UNCHANGED <<payments, cases, attempts, handled, store, crashes>>

-----------------------------------------------------------------------------
(* The network calls. *)

(* Mutated: not_found is taken for the outcome of the attempt. *)
VerifyTrustsNotFound(w) ==
    /\ worker[w].pc = "verifying"
    /\ LET status == VerifyPaymentStatus(PaymentOf(Job(w)), worker[w].attempt)
       IN  worker' = [worker EXCEPT ![w].pc = "reconciled", ![w].result = status]
    /\ UNCHANGED <<dbVars, store, crashes>>

VerifyPayment(w) ==
    /\ worker[w].pc = "verifying"
    /\ LET status == VerifyPaymentStatus(PaymentOf(Job(w)), worker[w].attempt)
       IN  IF status = "not_found"
           THEN Goto(w, "charging")
           ELSE worker' = [worker EXCEPT ![w].pc = "reconciled",
                                         ![w].result = status]
    /\ UNCHANGED <<dbVars, store, crashes>>

(* Mutated: a timeout is caught as any other exception, as a failure. *)
TimeoutIsFailure(w) ==
    /\ worker[w].pc = "charging"
    /\ \E reply \in GatewayResult \cup {"timeout"} :
          /\ ChargeAnswer(PaymentOf(Job(w)), worker[w].attempt, reply)
          /\ worker' = [worker EXCEPT
                ![w].pc = "finalizing",
                ![w].result = IF reply = "timeout" THEN "failed" ELSE reply]
    /\ UNCHANGED <<dbVars, crashes>>

Charge(w) ==
    /\ worker[w].pc = "charging"
    /\ \E reply \in GatewayResult \cup {"timeout"} :
          /\ ChargeAnswer(PaymentOf(Job(w)), worker[w].attempt, reply)
          /\ IF reply = "timeout"
             THEN Goto(w, "ambiguous")
             ELSE worker' = [worker EXCEPT ![w].pc = "finalizing",
                                           ![w].result = reply]
    /\ UNCHANGED <<dbVars, crashes>>

-----------------------------------------------------------------------------
(* Second transaction after an evaluation: _finalize_evaluate_error and    *)
(* _finalize_evaluate_decision.                                            *)

(* The provider raised.  Neither the payment nor the case is looked at. *)
EvaluationFails(w, k) ==
    LET j == Job(w)
    IN  /\ worker[w].pc = "evaluating"
        /\ HoldsLease(w)
        /\ IF AttemptsLeft(j)
           THEN /\ EndJobAndQueue(j, "FAILED", k, "EVALUATE_RECOVERY")
                /\ UNCHANGED cases
           ELSE /\ EndJob(j, "FAILED")
                /\ SetCase(jobs[j].case, "STOPPED")
        /\ Release(w)
        /\ UNCHANGED <<payments, attempts, handled, store, crashes>>

Deciding(w) == worker[w].pc = "evaluating" /\ HoldsLease(w)

DecisionTooLate(w) ==
    /\ Deciding(w)
    /\ Paid(PaymentOf(Job(w)))
    /\ EndJob(Job(w), "CANCELLED")
    /\ Release(w)
    /\ UNCHANGED <<payments, cases, attempts, handled, store, crashes>>

DecideCharge(w, k) ==
    /\ Deciding(w)
    /\ ~Paid(PaymentOf(Job(w)))
    /\ EndJobAndQueue(Job(w), "SUCCEEDED", k, "EXECUTE_CHARGE")
    /\ Release(w)
    /\ UNCHANGED <<payments, cases, attempts, handled, store, crashes>>

DecideDelay(w, k) ==
    /\ Deciding(w)
    /\ ~Paid(PaymentOf(Job(w)))
    /\ EndJobAndQueue(Job(w), "SUCCEEDED", k, "EVALUATE_RECOVERY")
    /\ Release(w)
    /\ UNCHANGED <<payments, cases, attempts, handled, store, crashes>>

(* Mutated: an ABORT does not look at the payment again. *)
AbortUnchecked(w) ==
    /\ Deciding(w)
    /\ EndJob(Job(w), "SUCCEEDED")
    /\ SetCase(jobs[Job(w)].case, "STOPPED")
    /\ Release(w)
    /\ UNCHANGED <<payments, attempts, handled, store, crashes>>

DecideAbort(w) ==
    /\ Deciding(w)
    /\ ~Paid(PaymentOf(Job(w)))
    /\ EndJob(Job(w), "SUCCEEDED")
    /\ SetCase(jobs[Job(w)].case, "STOPPED")
    /\ Release(w)
    /\ UNCHANGED <<payments, attempts, handled, store, crashes>>

-----------------------------------------------------------------------------
(* Second transaction after a charge: _finalize_job and                    *)
(* _finalize_ambiguous.  They check the lease and nothing else.            *)

Finalizing(w) == worker[w].pc \in FinalizePc /\ HoldsLease(w)

(* Mutated: only the job is updated. *)
LeaveAttempt(w, status) ==
    Finalizing(w) /\ status \in AttemptState /\ UNCHANGED attempts

SettleAttempt(w, status) ==
    attempts' = [attempts EXCEPT ![jobs[Job(w)].case][worker[w].attempt] = status]

FinalizeSuccess(w) ==
    /\ Finalizing(w)
    /\ worker[w].result = "succeeded"
    /\ SettleAttempt(w, "SUCCEEDED")
    /\ payments' = [payments EXCEPT ![PaymentOf(Job(w))].status = "SUCCEEDED"]
    /\ SetCase(jobs[Job(w)].case, "RECOVERED")
    /\ EndJob(Job(w), "SUCCEEDED")
    /\ Release(w)
    /\ UNCHANGED <<handled, store, crashes>>

FinalizeFailure(w, k) ==
    /\ Finalizing(w)
    /\ worker[w].result = "failed"
    /\ AttemptsLeft(Job(w))
    /\ SettleAttempt(w, "FAILED")
    /\ EndJobAndQueue(Job(w), "SUCCEEDED", k, "EVALUATE_RECOVERY")
    /\ Release(w)
    /\ UNCHANGED <<payments, cases, handled, store, crashes>>

(* A case that was loaded as STOPPED gets no UPDATE: if a request that was  *)
(* refused because the payment is paid has set it RECOVERED since, it      *)
(* stays so.                                                               *)
FinalizeExhausted(w) ==
    /\ Finalizing(w)
    /\ worker[w].result = "failed"
    /\ ~AttemptsLeft(Job(w))
    /\ SettleAttempt(w, "FAILED")
    /\ EndJob(Job(w), "SUCCEEDED")
    /\ \/ SetCase(jobs[Job(w)].case, "STOPPED")
       \/ cases[jobs[Job(w)].case].status = "RECOVERED" /\ UNCHANGED cases
    /\ Release(w)
    /\ UNCHANGED <<payments, handled, store, crashes>>

(* The job goes back to PENDING with its attempt; locked_by stays. *)
FinalizeAmbiguous(w) ==
    /\ worker[w].pc = "ambiguous"
    /\ HoldsLease(w)
    /\ SettleAttempt(w, "AMBIGUOUS")
    /\ EndJob(Job(w), "PENDING")
    /\ Release(w)
    /\ UNCHANGED <<payments, cases, handled, store, crashes>>

(* The second transaction rolls back, because the lease is lost or because *)
(* it could not commit.  The call that follows charge is inside its try:   *)
(* the handler finalizes once more, with a failure.  Anywhere else the     *)
(* exception reaches the loop.                                             *)
FinalizeRaises(w) ==
    /\ worker[w].pc \in FinalizePc \cup {"evaluating", "ambiguous"}
    /\ ~HoldsLease(w) \/ CommitsMayAbort
    /\ IF worker[w].pc = "finalizing"
       THEN worker' = [worker EXCEPT ![w].pc = "refinalizing",
                                     ![w].result = "failed"]
       ELSE Release(w)
    /\ UNCHANGED <<dbVars, store, crashes>>

-----------------------------------------------------------------------------
(* A worker is killed and started again; what it held is lost.  The new    *)
(* process draws a new id: that it keeps the old one here makes no         *)
(* difference, since it asks for its id only about a job it has claimed.   *)
Crash(w) ==
    /\ worker[w].pc # "idle"
    /\ crashes < MaxCrashes
    /\ crashes' = crashes + 1
    /\ Release(w)
    /\ UNCHANGED <<dbVars, store>>

(* WORKER_LEASE_TIMEOUT passes after locked_at. *)
LeaseExpires(j) ==
    /\ jobs[j].status = "RUNNING"
    /\ ~jobs[j].expired
    /\ jobs' = [jobs EXCEPT ![j].expired = TRUE]
    /\ UNCHANGED <<payments, cases, attempts, handled, store, workerVars>>

Claim(w) == \E j \in JobIds : \/ ClaimForPaid(w, j)
                              \/ BeginEvaluation(w, j)
                              \/ StartAttempt(w, j)
                              \/ ResumeAttempt(w, j)

FinalizeEvaluation(w) ==
    \/ DecisionTooLate(w)
    \/ DecideAbort(w)
    \/ \E k \in JobIds : \/ EvaluationFails(w, k)
                         \/ DecideCharge(w, k)
                         \/ DecideDelay(w, k)

FinalizeJob(w) ==
    \/ FinalizeSuccess(w)
    \/ FinalizeExhausted(w)
    \/ FinalizeAmbiguous(w)
    \/ \E k \in JobIds : FinalizeFailure(w, k)

WorkerStep(w) ==
    \/ Claim(w)
    \/ VerifyPayment(w)
    \/ Charge(w)
    \/ FinalizeEvaluation(w)
    \/ FinalizeJob(w)
    \/ FinalizeRaises(w)
=============================================================================
