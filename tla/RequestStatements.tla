------------------------- MODULE RequestStatements -------------------------
(***************************************************************************)
(* Webhook deliveries, stop and retry statement by statement: what they    *)
(* lock, in which order, and what they read without a lock.                *)
(*                                                                         *)
(* A transaction that has nothing left to lock commits in the step of its  *)
(* last read: what it writes then are rows it has locked, or new ones, so  *)
(* nothing another transaction does in between could make a difference.    *)
(***************************************************************************)
EXTENDS RowLocks

-----------------------------------------------------------------------------
(* Webhook deliveries.  A delivery that ends in a rollback is answered 400 *)
(* or 500, and the provider may deliver the event again.                   *)
Deliver(r) ==
    \E e \in Events :
        /\ e.type \in SupportedTypes
        /\ e.terms \in AcceptedTerms
        /\ Open(r, [NoTx EXCEPT !.op = "webhook", !.event = e, !.at = "dedupe",
                                !.want = {Lock("update", EventRow(e.id))}])
        /\ UNCHANGED <<vars, acked>>

(* Mutated: the payment is read without FOR UPDATE. *)
NewPaymentLock(e) == IF payments[e.payment].status = "ABSENT"
                     THEN {Lock("update", PaymentRowOf(e.payment))} ELSE {}

(* SELECT ... FOR UPDATE locks the row that is there; if there is none the *)
(* INSERT that follows takes the unique external_id.                       *)
PaymentLocks(e) == {Lock("update", PaymentRowOf(e.payment))}

(* The INSERT of the idempotency record has waited for an open delivery of *)
(* the same event; if that one was committed this is a duplicate.          *)
Dedupe(r) ==
    LET e == tx[r].event
    IN  /\ At(r, "webhook", "dedupe")
        /\ IF e.id \in handled
           THEN Close(r) /\ acked' = acked \cup {e.id}
           ELSE /\ tx' = [tx EXCEPT
                            ![r].want = PaymentLocks(e), ![r].at = "apply",
                            ![r].found = payments[e.payment].status # "ABSENT"]
                /\ UNCHANGED acked
        /\ UNCHANGED vars

(* The delivery is committed and answered 200. *)
Commit200(r) ==
    /\ handled' = handled \cup {tx[r].event.id}
    /\ acked' = acked \cup {tx[r].event.id}
    /\ Close(r)

(* Answered 400 for other terms, or 500 because another first delivery of  *)
(* the payment has inserted it meanwhile.                                  *)
WebhookFails(r) ==
    LET e == tx[r].event
        p == e.payment
    IN  /\ At(r, "webhook", "apply")
        /\ payments[p].status # "ABSENT"
        /\ ~tx[r].found \/ payments[p].terms # e.terms
        /\ Close(r)
        /\ UNCHANGED <<vars, acked>>

Applying(r) == /\ At(r, "webhook", "apply")
               /\ \/ ~tx[r].found /\ payments[tx[r].event.payment].status = "ABSENT"
                  \/ /\ tx[r].found
                     /\ payments[tx[r].event.payment].terms = tx[r].event.terms

ApplyToTerminal(r) ==
    /\ Applying(r)
    /\ Terminal(tx[r].event.payment)
    /\ Commit200(r)
    /\ UNCHANGED <<payments, cases, jobs, attempts, store, workerVars>>

ApplyFailure(r) ==
    LET e == tx[r].event
    IN  /\ Applying(r)
        /\ ~Terminal(e.payment)
        /\ e.type = "payment.failed"
        /\ IF ActiveCases(e.payment) # {}
           THEN PutPayment(e, "FAILED") /\ Commit200(r)
           ELSE Ask(r, {}, "insert") /\ UNCHANGED <<payments, handled, acked>>
        /\ UNCHANGED <<cases, jobs, attempts, store, workerVars>>

(* The flush of the new case meets the partial unique index: on a conflict *)
(* everything is rolled back, and yet the event is answered 200.           *)
InsertCase(r) ==
    LET e == tx[r].event
    IN  /\ At(r, "webhook", "insert")
        /\ e.reason
        /\ IF ActiveCases(e.payment) # {}
           THEN /\ acked' = acked \cup {e.id}
                /\ Close(r)
                /\ UNCHANGED <<payments, cases, jobs, handled>>
           ELSE \E c \in CaseIds, j \in JobIds :
                   /\ ~CaseExists(c) /\ ~JobExists(j)
                   /\ PutPayment(e, "FAILED")
                   /\ cases' = [cases EXCEPT ![c] = [status |-> "OPEN",
                                                     payment |-> e.payment]]
                   /\ jobs' = [jobs EXCEPT ![j] = NewJob(c, "EVALUATE_RECOVERY", 0)]
                   /\ Commit200(r)
        /\ UNCHANGED <<attempts, store, workerVars>>

(* failure_reason is NOT NULL. *)
InsertFails(r) ==
    /\ At(r, "webhook", "insert")
    /\ ~tx[r].event.reason
    /\ Close(r)
    /\ UNCHANGED <<vars, acked>>

ApplySuccess(r) ==
    LET p == tx[r].event.payment
    IN  /\ Applying(r)
        /\ ~Terminal(p)
        /\ tx[r].event.type = "payment.succeeded"
        /\ Ask(r, {Lock("update", CaseRowOf(c)) : c \in ActiveCases(p)}, "cancel")
        /\ UNCHANGED <<vars, acked>>

(* The cases a request has locked that are still active. *)
OpenLocked(r) == {c \in CaseIds : Holds(r, "update", CaseRowOf(c)) /\ ActiveCase(c)}

(* Mutated: the filter on the status is missing. *)
JobsOf(cs) == {j \in JobIds : JobExists(j) /\ jobs[j].case \in cs}

PendingOf(cs) == {j \in JobIds : jobs[j].status = "PENDING" /\ jobs[j].case \in cs}

(* The jobs a request has locked, because it read them as PENDING. *)
SeenPending(r) == {j \in JobIds : Holds(r, "change", JobRowOf(j))}

Cancelled(js) == [j \in JobIds |-> IF j \in js
                                   THEN [jobs[j] EXCEPT !.status = "CANCELLED"]
                                   ELSE jobs[j]]

WithStatus(cs, status) == [c \in CaseIds |-> IF c \in cs
                                             THEN [cases[c] EXCEPT !.status = status]
                                             ELSE cases[c]]

(* The PENDING jobs are read without a lock, and updated by primary key. *)
CancelJobs(r) ==
    /\ At(r, "webhook", "cancel")
    /\ PendingOf(OpenLocked(r)) # {}
    /\ Ask(r, {Lock("change", JobRowOf(j)) : j \in PendingOf(OpenLocked(r))}, "save")
    /\ UNCHANGED <<vars, acked>>

CommitSuccess(r) ==
    /\ \/ At(r, "webhook", "cancel") /\ PendingOf(OpenLocked(r)) = {}
       \/ At(r, "webhook", "save")
    /\ PutPayment(tx[r].event, "SUCCEEDED")
    /\ cases' = WithStatus(OpenLocked(r), "RECOVERED")
    /\ jobs' = Cancelled(SeenPending(r))
    /\ Commit200(r)
    /\ UNCHANGED <<attempts, store, workerVars>>

DeliveryStep(r) ==
    \/ Deliver(r) \/ Dedupe(r) \/ WebhookFails(r) \/ ApplyToTerminal(r)
    \/ ApplyFailure(r) \/ InsertCase(r) \/ InsertFails(r) \/ ApplySuccess(r)
    \/ CancelJobs(r) \/ CommitSuccess(r)

-----------------------------------------------------------------------------
(* Mutated: an administrator locks case and payment in either order. *)
BeginUnordered(r, c) ==
    /\ CaseExists(c)
    /\ \E op \in {"stop", "retry"} :
          Open(r, [NoTx EXCEPT !.op = op, !.case = c, !.at = "decide",
                               !.want = {Lock("update", CaseRowOf(c)),
                                         Lock("update", PaymentRowOf(cases[c].payment))}])
    /\ UNCHANGED <<vars, acked>>

(* Stop and retry: the case, then its payment, each FOR UPDATE.  A request *)
(* that is refused writes nothing but its audit row.                       *)
BeginAdmin(r, c) ==
    /\ CaseExists(c)
    /\ \E op \in {"stop", "retry"} :
          Open(r, [NoTx EXCEPT !.op = op, !.case = c, !.at = "payment",
                               !.want = {Lock("update", CaseRowOf(c))}])
    /\ UNCHANGED <<vars, acked>>

LockItsPayment(r) ==
    /\ \E op \in {"stop", "retry"} : At(r, op, "payment")
    /\ Ask(r, {Lock("update", PaymentRowOf(cases[tx[r].case].payment))}, "decide")
    /\ UNCHANGED <<vars, acked>>

Ruling(r, op) == At(r, op, "decide") /\ ~Paid(cases[tx[r].case].payment)

RejectPaid(r) ==
    LET c == tx[r].case
    IN  /\ \E op \in {"stop", "retry"} : At(r, op, "decide")
        /\ Paid(cases[c].payment)
        /\ cases' = WithStatus({c}, "RECOVERED")
        /\ Close(r)
        /\ UNCHANGED <<payments, jobs, attempts, handled, store, workerVars, acked>>

Refuse(r) ==
    LET c == tx[r].case
    IN  /\ \/ Ruling(r, "stop") /\ ~ActiveCase(c)
           \/ Ruling(r, "retry") /\ (cases[c].status = "RECOVERED" \/ ~NoLiveJob(c))
           \/ /\ At(r, "retry", "insert")
              /\ ~ActiveCaseAllowed(c, cases[c].payment)
        /\ Close(r)
        /\ UNCHANGED <<vars, acked>>

StopReadsJobs(r) ==
    /\ Ruling(r, "stop")
    /\ PendingOf(OpenLocked(r)) # {}
    /\ Ask(r, {Lock("change", JobRowOf(j)) : j \in PendingOf(OpenLocked(r))}, "save")
    /\ UNCHANGED <<vars, acked>>

CommitStop(r) ==
    /\ \/ /\ Ruling(r, "stop")
          /\ ActiveCase(tx[r].case)
          /\ PendingOf(OpenLocked(r)) = {}
       \/ At(r, "stop", "save")
    /\ cases' = WithStatus({tx[r].case}, "STOPPED")
    /\ jobs' = Cancelled(SeenPending(r))
    /\ Close(r)
    /\ UNCHANGED <<payments, attempts, handled, store, workerVars, acked>>

(* The jobs are read without a lock. *)
RetryReadsJobs(r) ==
    /\ Ruling(r, "retry")
    /\ cases[tx[r].case].status # "RECOVERED"
    /\ NoLiveJob(tx[r].case)
    /\ Ask(r, {}, "insert")
    /\ UNCHANGED <<vars, acked>>

CommitRetry(r, j) ==
    LET c == tx[r].case
    IN  /\ At(r, "retry", "insert")
        /\ ActiveCaseAllowed(c, cases[c].payment)
        /\ ~JobExists(j)
        /\ cases' = WithStatus({c}, "OPEN")
        /\ jobs' = [jobs EXCEPT ![j] = NewJob(c, "EVALUATE_RECOVERY", 0)]
        /\ Close(r)
        /\ UNCHANGED <<payments, attempts, handled, store, workerVars, acked>>

AdminStep(r) ==
    \/ \E c \in CaseIds : BeginAdmin(r, c)
    \/ LockItsPayment(r) \/ RejectPaid(r) \/ Refuse(r) \/ StopReadsJobs(r)
    \/ CommitStop(r) \/ RetryReadsJobs(r)
    \/ \E j \in JobIds : CommitRetry(r, j)

(* The victim of a deadlock is rolled back and answered 500. *)
RequestAborts(r) ==
    /\ r \in Deadlocked
    /\ Close(r)
    /\ UNCHANGED <<vars, acked>>

RequestStatement(r) == DeliveryStep(r) \/ AdminStep(r) \/ Acquire(r) \/ RequestAborts(r)
=============================================================================
