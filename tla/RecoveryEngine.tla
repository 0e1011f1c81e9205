--------------------------- MODULE RecoveryEngine ---------------------------
(***************************************************************************)
(* The recovery engine: webhook deliveries, administrators and workers     *)
(* acting on the shared tables, and workers on the payment gateway, in any *)
(* interleaving of their transactions and network calls.                   *)
(***************************************************************************)
EXTENDS WebhookIngestion, AdminOperations, RecoveryWorker

vars == <<dbVars, store, workerVars>>

Init == DbInit /\ GatewayInit /\ WorkerInit

Webhook == /\ \E e \in Events : ProcessWebhook(e)
           /\ UNCHANGED <<store, workerVars>>

Admin == /\ \E c \in CaseIds : StopCase(c) \/ RetryCase(c)
         /\ UNCHANGED <<store, workerVars>>

Next == \/ Webhook
        \/ Admin
        \/ \E w \in Workers : WorkerStep(w) \/ Crash(w)
        \/ \E j \in JobIds : LeaseExpires(j)

Spec == Init /\ [][Next]_vars

-----------------------------------------------------------------------------
(* Every row and every worker has the shape its table or its code gives it. *)
TypeOK == DbTypeOK /\ GatewayTypeOK /\ WorkerTypeOK

(* A payment is charged with success at most once, whatever crashes, lost  *)
(* leases, timeouts, repeated cases and administrators do: no attempt is   *)
(* charged before all earlier numbers are known to have failed.            *)
AtMostOneCharge ==
    \A p \in PaymentIds : \A m, n \in AttemptNos :
        store[p][m] = "succeeded" /\ store[p][n] = "succeeded" => m = n

(* No money moves without a committed attempt row that accounts for it. *)
WriteAhead ==
    \A p \in PaymentIds, n \in AttemptNos :
        store[p][n] # "none" =>
            \E c \in CaseIds : cases[c].payment = p /\ attempts[c][n] # "ABSENT"

(* A settled attempt says what the gateway says: no worker, stale or       *)
(* restarted, records an outcome that did not happen.                      *)
LedgerAgrees ==
    \A c \in CaseIds, n \in AttemptNos :
        LET answer == store[cases[c].payment][n]
        IN  /\ attempts[c][n] = "SUCCEEDED" => answer = "succeeded"
            /\ attempts[c][n] = "FAILED" => answer = "failed"

(* A payment is SUCCEEDED only if the provider said so in an event that    *)
(* was committed, or the gateway holds a successful charge for it.         *)
PaidIsBacked ==
    \A p \in PaymentIds : Paid(p) =>
        \/ \E n \in AttemptNos : store[p][n] = "succeeded"
        \/ \E e \in Events : /\ e.type = "payment.succeeded" /\ e.payment = p
                             /\ e.id \in handled /\ e.terms = payments[p].terms

(* A handled payment.succeeded is never lost, whatever else is in flight. *)
SuccessTakesEffect ==
    \A e \in Events :
        e.type = "payment.succeeded" /\ e.id \in handled => Paid(e.payment)

(* A case counts as recovered only if its payment was paid. *)
RecoveredIsPaid ==
    \A c \in CaseIds : cases[c].status = "RECOVERED" => Paid(cases[c].payment)

(* An active case whose payment is unpaid always has a job that waits or   *)
(* runs: no interleaving of stop, retry, webhook and worker drops the last *)
(* job of a case that stays open.  (Whether that job gets anywhere is      *)
(* another question: a charge whose number is taken never does.)           *)
NoStrandedCase ==
    \A c \in CaseIds :
        ActiveCase(c) /\ ~Paid(cases[c].payment) =>
            \E j \in JobIds : jobs[j].case = c /\ LiveJob(j)

(* Two jobs of one case never wait or run at the same time. *)
OneLiveJobPerCase ==
    \A i, j \in JobIds :
        LiveJob(i) /\ LiveJob(j) /\ jobs[i].case = jobs[j].case => i = j

(* No case gets more than max_attempts attempts, and an evaluation is      *)
(* queued only while the budget allows another (the exhaustion branch of   *)
(* _finalize_evaluate_error is never taken).                               *)
RetryBudget ==
    /\ \A c \in CaseIds : attempts[c][MaxAttempts + 1] = "ABSENT"
    /\ \A j \in JobIds : JobExists(j) /\ jobs[j].type = "EVALUATE_RECOVERY"
                            => jobs[j].count < MaxAttempts

(* An attempt whose outcome is open still has the job that reconciles it,  *)
(* or had it cancelled: finishing a job always settles its attempt.        *)
OpenAttemptHasJob ==
    \A c \in CaseIds, n \in AttemptNos :
        attempts[c][n] \in {"RUNNING", "AMBIGUOUS"} =>
            \E j \in JobIds : /\ jobs[j].case = c /\ jobs[j].attempt = n
                              /\ LiveJob(j) \/ jobs[j].status = "CANCELLED"

-----------------------------------------------------------------------------
(* SUCCEEDED is final: no late failure event, result of a stale worker or  *)
(* administrator takes a payment out of it.                                *)
PaymentSuccessIsFinal ==
    [][\A p \in PaymentIds : Paid(p) => Paid(p)']_vars

(* Attempts are created RUNNING and then follow ATTEMPT_TRANSITIONS, though *)
(* no handler consults that map.                                            *)
AttemptsFollowMap ==
    [][\A c \in CaseIds, n \in AttemptNos :
          LET old == attempts[c][n]
              new == attempts'[c][n]
          IN  old # new => IF old = "ABSENT" THEN new = "RUNNING"
                           ELSE ValidTransition(old, new, AttemptTransitions)]_vars

(* A worker that passes the ownership check has had the job to itself since *)
(* its claim, though the check looks at locked_by alone, which nobody       *)
(* clears: whoever holds the lease after a step held it before, the job was *)
(* RUNNING, and nobody has written its row; only its lease may have run out. *)
LeaseIsExclusive ==
    [][\A w \in Workers :
          LET j == Job(w)
          IN  worker[w].pc # "idle" /\ worker'[w].pc # "idle" /\ HoldsLease(w)' =>
                  /\ HoldsLease(w)
                  /\ jobs[j].status = "RUNNING"
                  /\ jobs'[j] \in {jobs[j], [jobs[j] EXCEPT !.expired = TRUE]}]_vars

(* A finished job is never written again, as long as the check of the owner *)
(* and the commit are one step: so in this module, and statement by         *)
(* statement while leases outlast the work (StatementEngine); a worker      *)
(* whose lease runs out between the two overwrites what the next one did.   *)
FinishedJobsStay ==
    [][\A j \in JobIds : JobExists(j) /\ ~LiveJob(j) => jobs'[j] = jobs[j]]_vars

(* RECOVERED is given up for one reason only: the charge of the last       *)
(* attempt, in flight when the payment was paid otherwise, has failed.     *)
RecoveredLostToLastChargeOnly ==
    [][\A c \in CaseIds :
          cases[c].status = "RECOVERED" /\ cases'[c].status # "RECOVERED" =>
              /\ cases'[c].status = "STOPPED"
              /\ attempts'[c] = [attempts[c] EXCEPT ![MaxAttempts] = "FAILED"]
              /\ attempts'[c] # attempts[c]]_vars

(* A closed case whose last job has ended stays at rest until it is        *)
(* reopened: no worker that finishes late queues anything for it.          *)
ClosedCaseStaysQuiet ==
    [][\A c \in CaseIds : ~ActiveCase(c) /\ NoLiveJob(c)
                              => ActiveCase(c)' \/ NoLiveJob(c)']_vars

(* The engine implements the ledger that its gateway store must be. *)
Ledger == INSTANCE ChargeLedger WITH ledger <- store

LedgerImplemented == Ledger!LedgerSpec
=============================================================================
