-------------------------- MODULE RecoveryInvariant --------------------------
(***************************************************************************)
(* The inductive invariant behind AtMostOneCharge.  The engine never asks  *)
(* the gateway about attempt n before attempts 1 .. n-1 have failed; why   *)
(* is spread over the tables and the memories of the workers, and said     *)
(* here part by part.  TLC checks it on small instances,                   *)
(* RecoveryEngineProofs proves it.                                         *)
(***************************************************************************)
EXTENDS RecoveryEngine

(* The number of the attempt that job j makes, or leads to. *)
NextNumber(j) ==
    IF jobs[j].attempt = 0 THEN jobs[j].count + 1 ELSE jobs[j].attempt

FailedBefore(p, n) == \A m \in AttemptNos : m < n => store[p][m] = "failed"

(* The foreign keys. *)
RowsRefer ==
    /\ \A c \in CaseIds : CaseExists(c) => cases[c].payment \in PaymentIds
    /\ \A j \in JobIds : JobExists(j) =>
          jobs[j].case \in CaseIds /\ CaseExists(jobs[j].case)
    /\ \A c \in CaseIds, n \in AttemptNos :
          attempts[c][n] # "ABSENT" => CaseExists(c) /\ n <= MaxAttempts

(* attempt_id and attempt_count of a job agree, and the budget is kept. *)
JobsAreSound ==
    \A j \in JobIds : JobExists(j) =>
        /\ NextNumber(j) <= MaxAttempts
        /\ jobs[j].attempt # 0 =>
              /\ jobs[j].type = "EXECUTE_CHARGE"
              /\ jobs[j].count = jobs[j].attempt
              /\ attempts[jobs[j].case][jobs[j].attempt] # "ABSENT"

(* What a worker remembers of its job is still what the job says. *)
WorkersAreSound ==
    \A w \in Workers : worker[w].pc # "idle" =>
        /\ Job(w) \in JobIds
        /\ JobExists(Job(w))
        /\ worker[w].pc = "evaluating" => jobs[Job(w)].type = "EVALUATE_RECOVERY"
        /\ worker[w].pc \in ChargePc =>
              worker[w].attempt # 0 /\ jobs[Job(w)].attempt = worker[w].attempt

(* A worker that passes the ownership check finds its job RUNNING, though  *)
(* the check does not look at the status.                                  *)
OwnersRun ==
    \A w \in Workers :
        worker[w].pc # "idle" /\ HoldsLease(w) => jobs[Job(w)].status = "RUNNING"

(* A worker that may still finalize holds the gateway's own answer; the    *)
(* made-up failure of the exception handler belongs to a lost lease.       *)
ResultsAreReal ==
    \A w \in Workers :
        /\ worker[w].pc \in {"reconciled", "finalizing"} =>
              /\ worker[w].result \in GatewayResult
              /\ store[PaymentOf(Job(w))][worker[w].attempt] = worker[w].result
        /\ worker[w].pc = "refinalizing" => ~HoldsLease(w)

(* Nobody gets to an attempt, nor has one been charged, before the         *)
(* attempts with smaller numbers have failed.                              *)
ChargesInOrder ==
    /\ \A j \in JobIds : JobExists(j) => FailedBefore(PaymentOf(j), NextNumber(j))
    /\ \A p \in PaymentIds, n \in AttemptNos :
          store[p][n] # "none" => FailedBefore(p, n)

(* What holds of rows and workers whether or not commits may abort. *)
RowsAndWorkers == /\ TypeOK
                  /\ RowsRefer
                  /\ JobsAreSound
                  /\ WorkersAreSound
                  /\ WriteAhead

(* The inductive invariant of the engine when no finalizing transaction    *)
(* aborts: what a worker is about to record is what the gateway did, and   *)
(* the gateway is asked in order.                                          *)
IInv == /\ RowsAndWorkers
        /\ ResultsAreReal
        /\ ChargesInOrder
        /\ LedgerAgrees
=============================================================================
