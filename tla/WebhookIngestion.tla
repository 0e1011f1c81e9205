-------------------------- MODULE WebhookIngestion --------------------------
(***************************************************************************)
(* POST /webhooks/payment: WebhookService.process_webhook.  The payment    *)
(* provider may deliver an event any number of times and in any order; a   *)
(* delivery is one transaction.  The insertion of the idempotency record,  *)
(* the payment row lock and the effects commit together or not at all, so  *)
(* a delivery that is answered 400 or 500, or found to be a duplicate,     *)
(* changes nothing and is a stuttering step.                               *)
(***************************************************************************)
EXTENDS RecoveryDatabase

CONSTANTS
    Events,          \* the webhook bodies that may be delivered
    AcceptedTerms    \* the terms validate_financials lets through

SupportedTypes == {"payment.failed", "payment.succeeded"}

(* reason: the optional failure_reason is there.  The column it fills in   *)
(* recovery_cases is NOT NULL.                                             *)
WebhookEvent == [id      : EventIds,
                 type    : SupportedTypes \cup {"other"},
                 payment : PaymentIds,
                 terms   : Terms,
                 reason  : BOOLEAN]

ASSUME EventsAssumption == Events \subseteq WebhookEvent
ASSUME AcceptedTermsAssumption == AcceptedTerms \subseteq Terms

-----------------------------------------------------------------------------
(* The first delivery of a valid event: supported type, valid financials,  *)
(* an event id never committed before, and for a payment already known the *)
(* terms it was created with.                                              *)
Accepted(e) ==
    /\ e.type \in SupportedTypes
    /\ e.terms \in AcceptedTerms
    /\ e.id \notin handled
    /\ \/ payments[e.payment].status = "ABSENT"
       \/ payments[e.payment].terms = e.terms

(* Mutated: a successful payment is not terminal. *)
OnlyAbandoned(p) == payments[p].status = "ABANDONED"

(* Mutated: a failed payment is terminal. *)
TerminalOrFailed(p) == payments[p].status \in {"SUCCEEDED", "ABANDONED", "FAILED"}

Terminal(p) == payments[p].status \in {"SUCCEEDED", "ABANDONED"}

(* Mutated: the filter on payment_id is missing. *)
AllActiveCases(p) == {c \in CaseIds : p \in PaymentIds /\ ActiveCase(c)}

ActiveCases(p) == {c \in CaseIds : ActiveCase(c) /\ cases[c].payment = p}

(* A payment created by the event, or the one it found, in its new state. *)
PutPayment(e, status) ==
    payments' = [payments EXCEPT ![e.payment] =
                    [status |-> status, terms |-> e.terms]]

-----------------------------------------------------------------------------
(* An event about a payment that is already terminal is recorded as handled *)
(* and has no other effect.                                                 *)
AcknowledgeTerminal(e) ==
    /\ Accepted(e)
    /\ Terminal(e.payment)
    /\ handled' = handled \cup {e.id}
    /\ UNCHANGED <<payments, cases, jobs, attempts>>

(* payment.failed while a recovery case is active. *)
RecordRepeatedFailure(e) ==
    /\ Accepted(e)
    /\ e.type = "payment.failed"
    /\ ~Terminal(e.payment)
    /\ ActiveCases(e.payment) # {}
    /\ handled' = handled \cup {e.id}
    /\ PutPayment(e, "FAILED")
    /\ UNCHANGED <<cases, jobs, attempts>>

(* payment.failed otherwise opens a case and schedules its evaluation. *)
OpenCase(e, c, j) ==
    /\ Accepted(e)
    /\ e.type = "payment.failed"
    /\ ~Terminal(e.payment)
    /\ ActiveCases(e.payment) = {}
    /\ e.reason
    /\ ~CaseExists(c)
    /\ ~JobExists(j)
    /\ handled' = handled \cup {e.id}
    /\ PutPayment(e, "FAILED")
    /\ cases' = [cases EXCEPT ![c] = [status |-> "OPEN", payment |-> e.payment]]
    /\ jobs' = [jobs EXCEPT ![j] = NewJob(c, "EVALUATE_RECOVERY", 0)]
    /\ UNCHANGED attempts

(* payment.succeeded closes the active cases and cancels what is PENDING. *)
RecordSuccess(e) ==
    /\ Accepted(e)
    /\ e.type = "payment.succeeded"
    /\ ~Terminal(e.payment)
    /\ handled' = handled \cup {e.id}
    /\ PutPayment(e, "SUCCEEDED")
    /\ cases' = [c \in CaseIds |->
                    IF c \in ActiveCases(e.payment)
                    THEN [cases[c] EXCEPT !.status = "RECOVERED"]
                    ELSE cases[c]]
    /\ jobs' = CancelPending(ActiveCases(e.payment))
    /\ UNCHANGED attempts

ProcessWebhook(e) ==
    \/ AcknowledgeTerminal(e)
    \/ RecordRepeatedFailure(e)
    \/ \E c \in CaseIds, j \in JobIds : OpenCase(e, c, j)
    \/ RecordSuccess(e)
=============================================================================
