----------------------------- MODULE AuditTrail -----------------------------
(***************************************************************************)
(* The audit_events the steps of the engine write, and the correlation id  *)
(* each of them carries.  A request runs under the id of its X-Correlation *)
(* -ID header or one the middleware generates; a job carries the id of     *)
(* whoever queued it in its payload; a worker process sets its context     *)
(* from the payload of the job it claims and never resets it.              *)
(*                                                                         *)
(* Every step of RecoveryEngine is extended by the rows its transaction    *)
(* adds, and the requests that only write a row are added.                 *)
(***************************************************************************)
EXTENDS RecoveryEngine, Sequences

CONSTANTS
    Traces,       \* ids of requests; each is used once, which bounds them
    Generated,    \* the ids worker processes generate, not told apart
    LegacyJobs,   \* jobs queued before the column payload existed
    UuidEvents    \* the event ids that are UUIDs, as audit_events.entity_id is

ASSUME TracesAssumption ==
    /\ Generated \notin Traces /\ NULL \notin Traces \cup {Generated}
    /\ LegacyJobs \subseteq [job : JobIds, case : CaseIds, payment : PaymentIds,
                             terms : Terms]
    /\ UuidEvents \subseteq EventIds

VARIABLES
    carried,      \* payload["correlation_id"] of each job
    current,      \* the context variable of each worker process
    opener,       \* history: the request that last opened each case
    audit,        \* audit_events, in the order of their transactions
    duplicates    \* the requests answered as duplicates

traceVars == <<carried, current, opener, audit, duplicates>>

auditVars == <<vars, traceVars>>

Trace == Traces \cup {Generated, NULL}

(* of: the payment, the case, the case of the job, or the event id.  data  *)
(* is the part of the payload that says what was decided.                  *)
Row(event, of, data) == [event |-> event, of |-> of, data |-> data]

(* create_audit_event: rows of the transaction, under one id. *)
Write(rows, id) ==
    audit' = audit \o [i \in DOMAIN rows |->
                [event |-> rows[i].event, of |-> rows[i].of,
                 data |-> rows[i].data, id |-> id]]

(* The migration adds a nullable column to the rows it finds. *)
LegacyOf(x, field) == {l \in LegacyJobs : l[field] = x}

AuditInit ==
    /\ payments = [p \in PaymentIds |->
            IF LegacyOf(p, "payment") = {} THEN NoPayment
            ELSE [status |-> "FAILED",
                  terms |-> (CHOOSE l \in LegacyOf(p, "payment") : TRUE).terms]]
    /\ cases = [c \in CaseIds |->
            IF LegacyOf(c, "case") = {} THEN NoCase
            ELSE [status |-> "OPEN",
                  payment |-> (CHOOSE l \in LegacyOf(c, "case") : TRUE).payment]]
    /\ jobs = [j \in JobIds |->
            IF LegacyOf(j, "job") = {} THEN NoJob
            ELSE NewJob((CHOOSE l \in LegacyOf(j, "job") : TRUE).case,
                        "EVALUATE_RECOVERY", 0)]
    /\ attempts = [c \in CaseIds |-> [n \in AttemptNos |-> "ABSENT"]]
    /\ handled = {}
    /\ GatewayInit
    /\ WorkerInit
    /\ carried = [j \in JobIds |-> NULL]
    /\ current = [w \in Workers |-> Generated]
    /\ opener = [c \in CaseIds |-> NULL]
    /\ audit = <<>>
    /\ duplicates = {}

-----------------------------------------------------------------------------
(* Requests. *)
Unused(id) == id \notin duplicates /\ \A i \in DOMAIN audit : audit[i].id # id

(* The job j that reopens or opens case c carries the id of the request. *)
Begins(id, c, j) ==
    /\ carried' = [carried EXCEPT ![j] = id]
    /\ opener' = [opener EXCEPT ![c] = id]
    /\ UNCHANGED <<current, duplicates>>

Processed(e, id) == Write(<<Row("WEBHOOK_PROCESSED", e.payment, e.type)>>, id)

(* A duplicate is rolled back, and a row about it added in a transaction   *)
(* of its own.  Its entity is the event id, which the column takes only if *)
(* it is a UUID: otherwise the insert fails and the failure is ignored.    *)
RejectDuplicate(e, id) ==
    /\ e.type \in SupportedTypes
    /\ e.terms \in AcceptedTerms
    /\ e.id \in handled
    /\ duplicates' = duplicates \cup {id}
    /\ IF e.id \in UuidEvents
       THEN Write(<<Row("WEBHOOK_DUPLICATE_REJECTED", e.id, e.type)>>, id)
       ELSE UNCHANGED audit
    /\ UNCHANGED <<dbVars, carried, current, opener>>

WebhookRequest(e, id) ==
    \/ /\ AcknowledgeTerminal(e)
       /\ Write(<<Row("WEBHOOK_TERMINAL_DOMINANCE_ENFORCED", e.payment, e.type)>>, id)
       /\ UNCHANGED <<carried, current, opener, duplicates>>
    \/ RejectDuplicate(e, id)
    \/ /\ RecordRepeatedFailure(e) \/ RecordSuccess(e)
       /\ Processed(e, id)
       /\ UNCHANGED <<carried, current, opener, duplicates>>
    \/ \E c \in CaseIds, j \in JobIds :
          OpenCase(e, c, j) /\ Processed(e, id) /\ Begins(id, c, j)

(* A retry while the case has a live job is refused with 409. *)
RefuseRetry(c) ==
    /\ CaseExists(c)
    /\ ~Paid(cases[c].payment)
    /\ cases[c].status # "RECOVERED"
    /\ ~NoLiveJob(c)
    /\ UNCHANGED dbVars

AdminRequest(c, id) ==
    \/ /\ RejectForPaid(c)
       /\ \E event \in {"ADMIN_STOP_REJECTED", "ADMIN_RETRY_REJECTED"} :
             Write(<<Row(event, c, "PAYMENT_SUCCEEDED")>>, id)
       /\ UNCHANGED <<carried, current, opener, duplicates>>
    \/ /\ RefuseRetry(c)
       /\ Write(<<Row("ADMIN_RETRY_REJECTED", c, "ACTIVE_JOBS_EXIST")>>, id)
       /\ UNCHANGED <<carried, current, opener, duplicates>>
    \/ /\ CloseCase(c)
       /\ Write(<<Row("ADMIN_STOP_CASE", c, "none")>>, id)
       /\ UNCHANGED <<carried, current, opener, duplicates>>
    \/ \E j \in JobIds :
          /\ ReopenCase(c, j)
          /\ Write(<<Row("ADMIN_RETRY_CASE", c, "none")>>, id)
          /\ Begins(id, c, j)

-----------------------------------------------------------------------------
(* Workers. *)

(* Mutated: a process that has an id keeps it. *)
KeepFirst(w, j) ==
    current' = [current EXCEPT ![w] = IF @ # Generated \/ carried[j] = NULL
                                      THEN @ ELSE carried[j]]

(* Without an id in the payload the context stays what it was. *)
Restore(w, j) ==
    current' = [current EXCEPT ![w] = IF carried[j] = NULL THEN @ ELSE carried[j]]

(* The job's row, about its case, under the id of the process. *)
Tell(w, event, data) ==
    Write(<<Row(event, jobs[Job(w)].case, data)>>, current[w])

(* Mutated: the next job is queued without an id. *)
CarriesNothing(w, k) == carried' = [carried EXCEPT ![k] = IF w \in Workers THEN NULL ELSE @]

(* The payload of a follow-up job. *)
Carry(w, k) == carried' = [carried EXCEPT ![k] = current[w]]

ClaimJob(w, j) ==
    /\ Restore(w, j)
    /\ \/ /\ ClaimForPaid(w, j)
          /\ Write(<<Row("JOB_CANCELLED", jobs[j].case, "none")>>, current'[w])
       \/ /\ BeginEvaluation(w, j) \/ StartAttempt(w, j) \/ ResumeAttempt(w, j)
          /\ UNCHANGED audit
    /\ UNCHANGED <<carried, opener, duplicates>>

(* A claim is rolled back, because the number of its attempt is taken or   *)
(* it cannot commit: the context has been set all the same.                *)
ClaimRollsBack(w, j) ==
    /\ worker[w].pc = "idle"
    /\ Claimable(j)
    /\ \/ CommitsMayAbort
       \/ /\ jobs[j].type = "EXECUTE_CHARGE"
          /\ jobs[j].attempt = 0
          /\ attempts[jobs[j].case][jobs[j].count + 1] # "ABSENT"
    /\ Restore(w, j)
    /\ UNCHANGED <<vars, carried, opener, audit, duplicates>>

FinishEvaluation(w) ==
    /\ \/ /\ DecisionTooLate(w)
          /\ Tell(w, "JOB_CANCELLED", "none")
          /\ UNCHANGED carried
       \/ /\ DecideAbort(w)
          /\ Tell(w, "AI_EVALUATION_COMPLETED", "ABORT")
          /\ UNCHANGED carried
       \/ \E k \in JobIds :
             /\ \/ DecideCharge(w, k) /\ Tell(w, "AI_EVALUATION_COMPLETED", "CHARGE")
                \/ DecideDelay(w, k) /\ Tell(w, "AI_EVALUATION_COMPLETED", "DELAY")
             /\ Carry(w, k)
       \/ \E k \in JobIds :
             /\ EvaluationFails(w, k)
             /\ IF AttemptsLeft(Job(w))
                THEN Carry(w, k) /\ UNCHANGED audit
                ELSE Tell(w, "AI_EVALUATION_FAILED", "none") /\ UNCHANGED carried
    /\ UNCHANGED <<current, opener, duplicates>>

(* Mutated: exhaustion closes the case without a row of its own. *)
TellFailure(w) == Tell(w, "CHARGE_EXECUTION_FAILED", "none")

(* The last attempt failed: a row about the job and one about the case. *)
TellExhausted(w) ==
    LET c == jobs[Job(w)].case
    IN  Write(<<Row("CHARGE_EXECUTION_FAILED", c, "none"),
                Row("CHARGE_EXHAUSTED", c, "none")>>, current[w])

FinishCharge(w) ==
    /\ \/ /\ FinalizeSuccess(w)
          /\ Tell(w, "CHARGE_EXECUTION_COMPLETED", "none")
          /\ UNCHANGED carried
       \/ FinalizeExhausted(w) /\ TellExhausted(w) /\ UNCHANGED carried
       \/ FinalizeAmbiguous(w) /\ UNCHANGED <<audit, carried>>
       \/ \E k \in JobIds : /\ FinalizeFailure(w, k)
                            /\ Tell(w, "CHARGE_EXECUTION_FAILED", "none")
                            /\ Carry(w, k)
    /\ UNCHANGED <<current, opener, duplicates>>

(* Mutated: create_audit_event commits, and what follows it is rolled back. *)
RowsStay(w) ==
    IF worker[w].result = "succeeded" /\ HoldsLease(w)
    THEN Tell(w, "CHARGE_EXECUTION_COMPLETED", "none")
    ELSE UNCHANGED audit

(* The rows of a transaction that is rolled back go with it. *)
RowsAreDropped(w) == w \in Workers /\ UNCHANGED audit

RollBack(w) ==
    /\ FinalizeRaises(w)
    /\ RowsAreDropped(w)
    /\ UNCHANGED <<carried, current, opener, duplicates>>

(* The restarted process logs its start, under an id it generates. *)
Restart(w) ==
    /\ Crash(w)
    /\ current' = [current EXCEPT ![w] = Generated]
    /\ UNCHANGED <<carried, opener, audit, duplicates>>

AuditNext ==
    \/ \E id \in Traces :
          /\ Unused(id)
          /\ \/ \E e \in Events : WebhookRequest(e, id)
             \/ \E c \in CaseIds : AdminRequest(c, id)
          /\ UNCHANGED <<store, workerVars>>
    \/ \E w \in Workers :
          \/ \E j \in JobIds : ClaimJob(w, j) \/ ClaimRollsBack(w, j)
          \/ VerifyPayment(w) /\ UNCHANGED traceVars
          \/ Charge(w) /\ UNCHANGED traceVars
          \/ FinishEvaluation(w)
          \/ FinishCharge(w)
          \/ RollBack(w)
          \/ Restart(w)
    \/ \E j \in JobIds : LeaseExpires(j) /\ UNCHANGED traceVars

AuditSpec == AuditInit /\ [][AuditNext]_auditVars

-----------------------------------------------------------------------------
(* Rows, contexts and the jobs queued by this code have an id. *)
AuditTypeOK ==
    /\ carried \in [JobIds -> Trace]
    /\ \A j \in JobIds :
          JobExists(j) /\ LegacyOf(j, "job") = {} => carried[j] # NULL
    /\ current \in [Workers -> Traces \cup {Generated}]
    /\ opener \in [CaseIds -> Traces \cup {NULL}]
    /\ \A i \in DOMAIN audit : audit[i].id \in Traces \cup {Generated}

WorkerEvents == {"JOB_CANCELLED", "AI_EVALUATION_COMPLETED", "AI_EVALUATION_FAILED",
                 "CHARGE_EXECUTION_COMPLETED", "CHARGE_EXECUTION_FAILED",
                 "CHARGE_EXHAUSTED"}

(* Every row a worker writes about a case that a request opened carries    *)
(* the id of the request that opened it last, through every follow-up job, *)
(* restart and claim by another process, and whatever jobs without an id,  *)
(* claims that are rolled back and other cases leave in the context.       *)
TraceIsRestored ==
    [][\A i \in DOMAIN audit' \ DOMAIN audit :
          audit'[i].event \in WorkerEvents =>
             opener[audit'[i].of] \in {NULL, audit'[i].id}]_auditVars

Stops(r) == \/ r.event \in {"ADMIN_STOP_CASE", "AI_EVALUATION_FAILED", "CHARGE_EXHAUSTED"}
            \/ r.event = "AI_EVALUATION_COMPLETED" /\ r.data = "ABORT"

(* The row of a case whose last attempt has failed. *)
Exhausts(r) == r.event = "CHARGE_EXHAUSTED"

Recovers(r) == r.event = "CHARGE_EXECUTION_COMPLETED" \/ r.data = "PAYMENT_SUCCEEDED"

Reopens(r) == r.event = "ADMIN_RETRY_CASE"

(* The last row about case c that tells its status is one of these rows. *)
LastTells(c, Rows(_)) ==
    \E i \in DOMAIN audit :
        /\ audit[i].of = c
        /\ Rows(audit[i])
        /\ \A k \in i + 1 .. Len(audit) :
              audit[k].of = c => ~(Stops(audit[k]) \/ Recovers(audit[k]) \/ Reopens(audit[k]))

Succeeded(p) == \E i \in DOMAIN audit :
                    /\ audit[i].event = "WEBHOOK_PROCESSED"
                    /\ audit[i].of = p
                    /\ audit[i].data = "payment.succeeded"

(* The rows tell what became of every case and payment, through crashes,   *)
(* rollbacks and lost leases: a STOPPED case, a RECOVERED one and a paid   *)
(* payment each have the row that says so, and no row claims a closure or  *)
(* a payment that was rolled back or undone since.  One row may: the       *)
(* commit that exhausts a case writes CHARGE_EXHAUSTED also when a refused *)
(* request has made the case RECOVERED after the worker loaded it STOPPED. *)
AuditTellsStatus ==
    /\ \A c \in CaseIds :
          /\ cases[c].status = "STOPPED" => LastTells(c, Stops)
          /\ LastTells(c, Stops) =>
                \/ cases[c].status = "STOPPED"
                \/ cases[c].status = "RECOVERED" /\ LastTells(c, Exhausts)
          /\ cases[c].status = "RECOVERED" =>
                \/ LastTells(c, Recovers)
                \/ Succeeded(cases[c].payment)
                \/ LastTells(c, Exhausts)
    /\ \A p \in PaymentIds : Paid(p) <=>
          \/ Succeeded(p)
          \/ \E i \in DOMAIN audit : /\ audit[i].event = "CHARGE_EXECUTION_COMPLETED"
                                     /\ cases[audit[i].of].payment = p
=============================================================================
