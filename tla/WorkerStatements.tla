-------------------------- MODULE WorkerStatements --------------------------
(***************************************************************************)
(* The two transactions of a worker statement by statement.  The first     *)
(* locks job, case and payment.  The second begins with a SELECT of the    *)
(* job that takes no lock: whether the worker still owns the job is known  *)
(* of the moment of that SELECT only, and what is written is found out     *)
(* from rows that were read without a lock as well.                        *)
(***************************************************************************)
EXTENDS RowLocks

CONSTANT LeasesOutlast   \* TRUE if no lease expires while its holder lives

ASSUME LeasesAssumption == LeasesOutlast \in BOOLEAN

-----------------------------------------------------------------------------
(* claim_job: FOR UPDATE SKIP LOCKED passes over rows others have locked.  *)
SelectJob(w, j) ==
    /\ worker[w].pc = "idle"
    /\ Claimable(j)
    /\ LockIsFree(w, Lock("update", JobRowOf(j)))
    /\ Open(w, [NoTx EXCEPT !.op = "claim", !.job = j, !.at = "payment",
                            !.held = {Lock("update", JobRowOf(j))},
                            !.want = {Lock("update", CaseRowOf(jobs[j].case))}])
    /\ UNCHANGED <<vars, acked>>

LockPayment(w) ==
    LET j == tx[w].job
    IN  /\ At(w, "claim", "payment") \/ At(w, "finalize", "payment")
        /\ Ask(w, {Lock("update", PaymentRowOf(PaymentOf(j)))}, "decide")
        /\ UNCHANGED <<vars, acked>>

(* With the three rows locked the rest of the first transaction reads no   *)
(* row that could change, but the attempt, whose writers need the job row. *)
CommitClaim(w) ==
    LET j == tx[w].job
        c == jobs[j].case
        n == jobs[j].count + 1
    IN  /\ At(w, "claim", "decide")
        /\ Close(w)
        /\ CASE Paid(PaymentOf(j)) ->
                  /\ jobs' = [jobs EXCEPT ![j] = [Claimed(w, j) EXCEPT
                                                    !.status = "CANCELLED"]]
                  /\ UNCHANGED <<attempts, worker>>
             [] ~Paid(PaymentOf(j)) /\ jobs[j].type = "EVALUATE_RECOVERY" ->
                  /\ jobs' = [jobs EXCEPT ![j] = Claimed(w, j)]
                  /\ worker' = [worker EXCEPT ![w] = [Idle EXCEPT
                                    !.pc = "evaluating", !.job = j]]
                  /\ UNCHANGED attempts
             [] ~Paid(PaymentOf(j)) /\ jobs[j].type = "EXECUTE_CHARGE" ->
                  IF jobs[j].attempt # 0
                  THEN /\ jobs' = [jobs EXCEPT ![j] = Claimed(w, j)]
                       /\ worker' = [worker EXCEPT ![w] = [Idle EXCEPT
                            !.pc = IF attempts[c][jobs[j].attempt]
                                        \in {"AMBIGUOUS", "RUNNING"}
                                   THEN "verifying" ELSE "charging",
                            !.job = j, !.attempt = jobs[j].attempt]]
                       /\ UNCHANGED attempts
                  ELSE IF n \in AttemptNos /\ NumberIsFree(c, n)
                  THEN /\ InsertAttempt(c, n)
                       /\ jobs' = [jobs EXCEPT ![j] = [Claimed(w, j) EXCEPT
                                                !.attempt = n, !.count = n]]
                       /\ worker' = [worker EXCEPT ![w] = [Idle EXCEPT
                            !.pc = "verifying", !.job = j, !.attempt = n]]
                  ELSE UNCHANGED <<attempts, jobs, worker>>
        /\ UNCHANGED <<payments, cases, handled, store, crashes, acked>>

-----------------------------------------------------------------------------
(* The second transaction.  What the provider answered is chosen here.     *)
Answers(pc) == IF pc = "evaluating" THEN {"error", "CHARGE", "ABORT", "DELAY"}
               ELSE {"none"}

(* The first SELECT: the job, and whether locked_by is this worker.        *)
ReadJob(w) ==
    /\ worker[w].pc \in FinalizePc \cup {"evaluating", "ambiguous"}
    /\ HoldsLease(w)
    /\ \E a \in Answers(worker[w].pc) :
          LET decided == a \in {"CHARGE", "ABORT", "DELAY"}
          IN  Open(w, [NoTx EXCEPT
                 !.op = "finalize", !.job = Job(w), !.answer = a,
                 !.at = IF decided THEN "payment" ELSE "load",
                 !.want = IF decided
                          THEN {Lock("update", CaseRowOf(jobs[Job(w)].case))}
                          ELSE {}])
    /\ UNCHANGED <<vars, acked>>

(* A decision has locked case and payment when it looks at the payment. *)
Decide(w) ==
    /\ At(w, "finalize", "decide")
    /\ tx' = [tx EXCEPT ![w].answer = IF Paid(PaymentOf(Job(w))) THEN "late" ELSE @,
                         ![w].at = "load"]
    /\ UNCHANGED <<vars, acked>>

-----------------------------------------------------------------------------
(* What the second transaction assigns to the status of the job, of the    *)
(* attempt and of the case, and the job it adds.  "none": nothing.         *)
JobOutcome(w) ==
    IF worker[w].pc = "ambiguous" THEN "PENDING"
    ELSE IF tx[w].answer = "error" THEN "FAILED"
    ELSE IF tx[w].answer = "late" THEN "CANCELLED"
    ELSE "SUCCEEDED"

AttemptOutcome(w) ==
    IF worker[w].pc = "evaluating" THEN "none"
    ELSE IF worker[w].pc = "ambiguous" THEN "AMBIGUOUS"
    ELSE IF worker[w].result = "succeeded" THEN "SUCCEEDED"
    ELSE "FAILED"

GivesUp(w) == \/ tx[w].answer = "ABORT"
              \/ /\ ~AttemptsLeft(Job(w))
                 /\ tx[w].answer = "error" \/ AttemptOutcome(w) = "FAILED"

CaseOutcome(w) ==
    IF GivesUp(w) THEN "STOPPED"
    ELSE IF AttemptOutcome(w) = "SUCCEEDED" THEN "RECOVERED"
    ELSE "none"

NextJob(w) ==
    IF \/ GivesUp(w)
       \/ tx[w].answer = "late"
       \/ AttemptOutcome(w) \in {"SUCCEEDED", "AMBIGUOUS"}
    THEN "none"
    ELSE IF tx[w].answer = "CHARGE" THEN "EXECUTE_CHARGE" ELSE "EVALUATE_RECOVERY"

(* Mutated: the payment of a recovered case is not updated. *)
NoPaymentRow(w) == {lock \in tx[w].held : lock.mode = "none"}

PaymentRowToChange(w) ==
    {Lock("change", PaymentRowOf(p)) :
        p \in {q \in {PaymentOf(Job(w))} : AttemptOutcome(w) = "SUCCEEDED" /\ ~Paid(q)}}

(* The flush updates the rows whose status differs from the one that was   *)
(* loaded, and the new job refers to the case.                             *)
LoadRows(w) ==
    LET j == Job(w)
        c == jobs[j].case
        n == worker[w].attempt
        Changed(old, new, row) == IF new \in {"none", old} THEN {}
                                  ELSE {Lock("change", row)}
    IN  /\ At(w, "finalize", "load")
        /\ Ask(w, Changed(jobs[j].status, JobOutcome(w), JobRowOf(j))
                   \cup (IF n = 0 THEN {} ELSE
                         Changed(attempts[c][n], AttemptOutcome(w), AttemptRow(c, n)))
                   \cup Changed(cases[c].status, CaseOutcome(w), CaseRowOf(c))
                   \cup PaymentRowToChange(w)
                   \cup (IF NextJob(w) = "none" THEN {}
                         ELSE {Lock("refer", CaseRowOf(c))}),
               "save")
        /\ UNCHANGED <<vars, acked>>

(* The UPDATEs are by primary key: they do not ask for the owner again.    *)
CommitFinalize(w, k) ==
    LET j == Job(w)
        c == jobs[j].case
        n == worker[w].attempt
        saved == IF Holds(w, "change", JobRowOf(j))
                 THEN [jobs EXCEPT ![j] = Ended(j, JobOutcome(w))] ELSE jobs
    IN  /\ At(w, "finalize", "save")
        /\ NextJob(w) # "none" => ~JobExists(k)
        /\ jobs' = IF NextJob(w) = "none" THEN saved
                   ELSE [saved EXCEPT ![k] = NewJob(c, NextJob(w), jobs[j].count)]
        /\ attempts' = IF n # 0 /\ Holds(w, "change", AttemptRow(c, n))
                       THEN [attempts EXCEPT ![c][n] = AttemptOutcome(w)]
                       ELSE attempts
        /\ cases' = IF Holds(w, "change", CaseRowOf(c))
                    THEN [cases EXCEPT ![c].status = CaseOutcome(w)] ELSE cases
        /\ payments' = IF Holds(w, "change", PaymentRowOf(PaymentOf(j)))
                       THEN [payments EXCEPT ![PaymentOf(j)].status = "SUCCEEDED"]
                       ELSE payments
        /\ Close(w)
        /\ Release(w)
        /\ UNCHANGED <<handled, store, crashes, acked>>

-----------------------------------------------------------------------------
(* An exception in the second transaction: the call after charge is inside *)
(* its try, whose handler finalizes once more, as a failure.               *)
Raise(w) ==
    worker' = IF worker[w].pc = "finalizing"
              THEN [worker EXCEPT ![w].pc = "refinalizing", ![w].result = "failed"]
              ELSE [worker EXCEPT ![w] = Idle]

ReadJobOfOther(w) ==
    /\ worker[w].pc \in FinalizePc \cup {"evaluating", "ambiguous"}
    /\ tx[w] = NoTx
    /\ ~HoldsLease(w)
    /\ Raise(w)
    /\ UNCHANGED <<dbVars, store, crashes, tx, acked>>

(* The victim of a deadlock is rolled back. *)
WorkerAborts(w) ==
    /\ w \in Deadlocked
    /\ Close(w)
    /\ IF tx[w].op = "finalize" THEN Raise(w) ELSE UNCHANGED worker
    /\ UNCHANGED <<dbVars, store, crashes, acked>>

(* A call of the gateway, outside any transaction. *)
CallGateway(w) ==
    /\ tx[w] = NoTx
    /\ VerifyPayment(w) \/ Charge(w)
    /\ UNCHANGED <<tx, acked>>

(* A worker is killed; the database rolls back what it had open.  crashes  *)
(* counts those that had claimed a job.                                    *)
Kill(w) ==
    /\ tx[w] # NoTx \/ worker[w].pc # "idle"
    /\ crashes < MaxCrashes
    /\ crashes' = IF worker[w].pc = "idle" THEN crashes ELSE crashes + 1
    /\ Release(w)
    /\ Close(w)
    /\ UNCHANGED <<dbVars, store, acked>>

Expire(j) ==
    /\ LeaseExpires(j)
    /\ LeasesOutlast => ~\E w \in Workers : Job(w) = j /\ jobs[j].owner = w
    /\ UNCHANGED <<tx, acked>>

WorkerStatement(w) ==
    \/ \E j \in JobIds : SelectJob(w, j)
    \/ LockPayment(w) \/ CommitClaim(w) \/ CallGateway(w)
    \/ ReadJob(w) \/ ReadJobOfOther(w) \/ Decide(w) \/ LoadRows(w)
    \/ \E k \in JobIds : CommitFinalize(w, k)
    \/ Acquire(w) \/ WorkerAborts(w)
=============================================================================
