------------------------- MODULE MCRecoveryProgress -------------------------
(* A small instance of RecoveryProgress for TLC. *)
EXTENDS RecoveryProgress

CONSTANTS p1, p2, t1, f1, f2, s1, s2, c1, c2, w1

Event(id, type, p) ==
    [id |-> id, type |-> type, payment |-> p, terms |-> t1, reason |-> TRUE]

FailuresAndSuccess ==
    {Event(f1, "payment.failed", p1), Event(f2, "payment.failed", p2),
     Event(s2, "payment.succeeded", p2)}

Done(type, attempt) ==
    [NewJob(c1, type, attempt) EXCEPT !.status = "SUCCEEDED", !.owner = w1,
                                      !.attempt = attempt]

(* A state the engine gets to with one worker: the case of p1 was decided, *)
(* charged, declined and so exhausted, reopened by an administrator, and   *)
(* decided again, so that its charge will give out attempt number 1 for    *)
(* the second time; the case of p2 has just been opened.                   *)
AfterRetry ==
    /\ payments = [p \in PaymentIds |-> [status |-> "FAILED", terms |-> t1]]
    /\ cases = [c \in CaseIds |->
            [status |-> "OPEN", payment |-> IF c = c1 THEN p1 ELSE p2]]
    /\ attempts = [c \in CaseIds |-> [n \in AttemptNos |->
            IF c = c1 /\ n = 1 THEN "FAILED" ELSE "ABSENT"]]
    /\ store = [p \in PaymentIds |-> [n \in AttemptNos |->
            IF p = p1 /\ n = 1 THEN "failed" ELSE "none"]]
    /\ handled = {f1, f2}
    /\ jobs = [j \in JobIds |->
            CASE j \in {1, 3} -> Done("EVALUATE_RECOVERY", 0)
              [] j = 2 -> Done("EXECUTE_CHARGE", 1)
              [] j = 4 -> NewJob(c1, "EXECUTE_CHARGE", 0)
              [] j = 5 -> NewJob(c2, "EVALUATE_RECOVERY", 0)
              [] OTHER -> NoJob]
    /\ WorkerInit
    /\ asleep = {}

FairSpec == AfterRetry /\ [][ProgressNext]_progressVars /\ LoopsGoOn

(* Rows are inserted in the order of their ids: where temporal properties  *)
(* rule out symmetry, this keeps one of each set of symmetric states.      *)
IdsInOrder == \A i, j \in JobIds : i < j /\ JobExists(j) => JobExists(i)

(* After a crash, one worker at a time has a job in hand. *)
OneAfterCrash ==
    crashes > 0 => \A v, w \in Workers :
                       v # w => worker[v].pc = "idle" \/ worker[w].pc = "idle"
=============================================================================
