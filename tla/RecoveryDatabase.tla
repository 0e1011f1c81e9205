-------------------------- MODULE RecoveryDatabase --------------------------
(***************************************************************************)
(* The PostgreSQL tables the handlers share, as rows that exist or not.    *)
(* Every handler commits its reads and writes in one transaction, so a     *)
(* transaction is one step of the modules that extend this one (webhooks,  *)
(* administrators and claims hold row locks until they commit; that the    *)
(* finalizing transactions, which take none on the job, are one step too   *)
(* is an abstraction).  What happens between two transactions of one       *)
(* handler is where the steps interleave.  Columns no property depends on  *)
(* (amount split from currency, timestamps, error text) are left out.      *)
(***************************************************************************)
EXTENDS Integers, RecoveryStates

CONSTANTS
    PaymentIds,   \* external payment identifiers
    CaseIds,      \* ids for recovery_cases rows (bounds how many may exist)
    JobIds,       \* ids for recovery_jobs rows (bounds how many may exist)
    EventIds,     \* ids of webhook events
    Workers,      \* worker processes, by worker_id
    Terms,        \* (amount, currency, customer) triples
    MaxAttempts,  \* max_attempts of every case and job: 3 in the code
    NULL          \* the SQL null

ASSUME MaxAttemptsAssumption == MaxAttempts \in Nat \ {0}
ASSUME NullAssumption ==
    NULL \notin PaymentIds \cup CaseIds \cup JobIds \cup Workers \cup Terms

VARIABLES
    payments,     \* payments, by external id
    cases,        \* recovery_cases
    jobs,         \* recovery_jobs
    attempts,     \* recovery_attempts: status by case and attempt_number
    handled       \* the event ids in idempotency_records

dbVars == <<payments, cases, jobs, attempts, handled>>

-----------------------------------------------------------------------------
(* One number more than the limit, so that exceeding it is expressible.    *)
AttemptNos == 1 .. MaxAttempts + 1

(* A row whose status is "ABSENT" has not been inserted. *)
PaymentRow == [status : PaymentState \cup {"ABSENT"}, terms : Terms \cup {NULL}]

CaseRow == [status : RecoveryState \cup {"ABSENT"},
            payment : PaymentIds \cup {NULL}]

JobType == {"EVALUATE_RECOVERY", "EXECUTE_CHARGE"}

(* attempt is the attempt_number of the row attempt_id refers to, 0 for    *)
(* null; count is attempt_count; owner is locked_by; expired says of a     *)
(* RUNNING job that locked_at is older than the lease timeout.             *)
JobRow == [status  : JobState \cup {"ABSENT"},
           case    : CaseIds \cup {NULL},
           type    : JobType,
           attempt : AttemptNos \cup {0},
           count   : AttemptNos \cup {0},
           owner   : Workers \cup {NULL},
           expired : BOOLEAN]

NoPayment == [status |-> "ABSENT", terms |-> NULL]
NoCase    == [status |-> "ABSENT", payment |-> NULL]

NewJob(c, type, count) ==
    [status |-> "PENDING", case |-> c, type |-> type, attempt |-> 0,
     count |-> count, owner |-> NULL, expired |-> FALSE]

NoJob == [NewJob(NULL, "EVALUATE_RECOVERY", 0) EXCEPT !.status = "ABSENT"]

DbTypeOK ==
    /\ payments \in [PaymentIds -> PaymentRow]
    /\ cases \in [CaseIds -> CaseRow]
    /\ jobs \in [JobIds -> JobRow]
    /\ attempts \in [CaseIds -> [AttemptNos -> AttemptState \cup {"ABSENT"}]]
    /\ handled \in SUBSET EventIds

DbInit ==
    /\ payments = [p \in PaymentIds |-> NoPayment]
    /\ cases = [c \in CaseIds |-> NoCase]
    /\ jobs = [j \in JobIds |-> NoJob]
    /\ attempts = [c \in CaseIds |-> [n \in AttemptNos |-> "ABSENT"]]
    /\ handled = {}

-----------------------------------------------------------------------------
CaseExists(c) == cases[c].status # "ABSENT"
JobExists(j)  == jobs[j].status # "ABSENT"

ActiveCase(c) == CaseExists(c) /\ cases[c].status \notin TerminalCaseStates

LiveJob(j) == jobs[j].status \in {"PENDING", "RUNNING"}

Paid(p) == payments[p].status = "SUCCEEDED"

(* What ix_active_recovery_case_per_payment demands before case c of       *)
(* payment p may become active.                                            *)
ActiveCaseAllowed(c, p) ==
    \A d \in CaseIds \ {c} : ~(ActiveCase(d) /\ cases[d].payment = p)

(* Mutated: RUNNING jobs are cancelled as well. *)
CancelLive(closed) ==
    [j \in JobIds |-> IF LiveJob(j) /\ jobs[j].case \in closed
                      THEN [jobs[j] EXCEPT !.status = "CANCELLED"]
                      ELSE jobs[j]]

(* The jobs table after the PENDING jobs of the cases in closed have been  *)
(* cancelled; RUNNING jobs are left to their workers.                      *)
CancelPending(closed) ==
    [j \in JobIds |->
        IF jobs[j].status = "PENDING" /\ jobs[j].case \in closed
        THEN [jobs[j] EXCEPT !.status = "CANCELLED"]
        ELSE jobs[j]]
=============================================================================
