-------------------------- MODULE AdminOperations --------------------------
(***************************************************************************)
(* The two operations of AdminOperationsService that change state, POST    *)
(* /admin/cases/{case_id}/stop and .../retry.  Each is one transaction     *)
(* that holds the locks of the case and of its payment.  A request that is *)
(* answered 400, 404, 409 for live jobs, or 500 leaves the tables as they  *)
(* were (but for its audit row) and is a stuttering step.                  *)
(***************************************************************************)
EXTENDS RecoveryDatabase

(* Either request for a case whose payment has succeeded is refused with   *)
(* 409, after the case has been set to RECOVERED in a committed            *)
(* transaction.                                                            *)
RejectForPaid(c) ==
    /\ CaseExists(c)
    /\ Paid(cases[c].payment)
    /\ cases' = [cases EXCEPT ![c].status = "RECOVERED"]
    /\ UNCHANGED <<payments, jobs, attempts, handled>>

CloseCase(c) ==
    /\ ActiveCase(c)
    /\ ~Paid(cases[c].payment)
    /\ cases' = [cases EXCEPT ![c].status = "STOPPED"]
    /\ jobs' = CancelPending({c})
    /\ UNCHANGED <<payments, attempts, handled>>

(* Mutated: only PENDING jobs stand in the way of a retry. *)
NoPendingJob(c) ==
    \A k \in JobIds : jobs[k].case = c => jobs[k].status # "PENDING"

NoLiveJob(c) == \A k \in JobIds : jobs[k].case = c => ~LiveJob(k)

(* The new job starts again from attempt_count 0, its column default.  The *)
(* update of the status fails on the partial unique index, and the request *)
(* with it, when the payment has another active case.                      *)
ReopenCase(c, j) ==
    /\ CaseExists(c)
    /\ ~Paid(cases[c].payment)
    /\ cases[c].status # "RECOVERED"
    /\ NoLiveJob(c)
    /\ ActiveCaseAllowed(c, cases[c].payment)
    /\ ~JobExists(j)
    /\ cases' = [cases EXCEPT ![c].status = "OPEN"]
    /\ jobs' = [jobs EXCEPT ![j] = NewJob(c, "EVALUATE_RECOVERY", 0)]
    /\ UNCHANGED <<payments, attempts, handled>>

-----------------------------------------------------------------------------
StopCase(c)  == RejectForPaid(c) \/ CloseCase(c)

RetryCase(c) == RejectForPaid(c) \/ \E j \in JobIds : ReopenCase(c, j)
=============================================================================
