-------------------------- MODULE RecoveryProgress --------------------------
(***************************************************************************)
(* What the engine gets done in the end.  To RecoveryEngine this adds the  *)
(* sleep of the worker's loop: a poll whose transaction raises leaves the  *)
(* tables as they were and the worker asleep for WORKER_POLL_INTERVAL, and *)
(* counts as a step of the loop all the same.  Which of the jobs that are  *)
(* ready a poll gets is up to the database: claim_job has no ORDER BY.     *)
(***************************************************************************)
EXTENDS RecoveryEngine

VARIABLE asleep   \* the workers in time.sleep

progressVars == <<vars, asleep>>

-----------------------------------------------------------------------------
(* The claim of a charge whose attempt number its case has used already:   *)
(* uq_recovery_attempt_number fails the insert, the claim is rolled back,  *)
(* and the job is as ready as it was.                                      *)
ClaimRaises(w, j) ==
    LET n == jobs[j].count + 1
    IN  /\ worker[w].pc = "idle"
        /\ Claimable(j)
        /\ jobs[j].type = "EXECUTE_CHARGE"
        /\ jobs[j].attempt = 0
        /\ ~Paid(PaymentOf(j))
        /\ n \in AttemptNos
        /\ ~NumberIsFree(jobs[j].case, n)
        /\ asleep' = asleep \cup {w}
        /\ UNCHANGED vars

(* One poll of worker w gets job j. *)
Polls(w, j) ==
    /\ w \notin asleep
    /\ \/ /\ \/ ClaimForPaid(w, j)
             \/ BeginEvaluation(w, j)
             \/ StartAttempt(w, j)
             \/ ResumeAttempt(w, j)
          /\ UNCHANGED asleep
       \/ ClaimRaises(w, j)

(* What reaches the loop as an exception sends the worker to sleep. *)
Raises(w) ==
    /\ FinalizeRaises(w)
    /\ asleep' = IF worker'[w].pc = "idle" THEN asleep \cup {w} ELSE asleep

WakesUp(w) == w \in asleep /\ asleep' = asleep \ {w} /\ UNCHANGED vars

Loop(w) ==
    \/ \E j \in JobIds : Polls(w, j)
    \/ /\ VerifyPayment(w) \/ Charge(w) \/ FinalizeEvaluation(w) \/ FinalizeJob(w)
       /\ UNCHANGED asleep
    \/ Raises(w)
    \/ WakesUp(w)

ProgressNext ==
    \/ (Webhook \/ Admin) /\ UNCHANGED asleep
    \/ \E w \in Workers : Loop(w) \/ (Crash(w) /\ UNCHANGED asleep)
    \/ \E j \in JobIds : LeaseExpires(j) /\ UNCHANGED asleep

(* A worker loops for ever and is restarted when it dies; time passes.     *)
(* Nobody owes the system a webhook or an administrator, and the database  *)
(* owes no job its turn.                                                   *)
LoopsGoOn ==
    /\ \A w \in Workers : WF_progressVars(Loop(w))
    /\ \A j \in JobIds : WF_progressVars(LeaseExpires(j) /\ UNCHANGED asleep)

ProgressSpec == Init /\ asleep = {} /\ [][ProgressNext]_progressVars /\ LoopsGoOn

-----------------------------------------------------------------------------
(* Job j is ready, and a poll gets another one. *)
PassesOver(j) ==
    /\ Claimable(j)
    /\ \E w \in Workers, k \in JobIds \ {j} : Polls(w, k)

PassedOverForEver(j) == []<><<PassesOver(j)>>_progressVars

(* A lease runs out under its holder, alive and at work. *)
LeaseLostAlive ==
    \E j \in JobIds, w \in Workers :
        LeaseExpires(j) /\ Job(w) = j /\ jobs[j].owner = w

(* Once a payment has succeeded, each job of its cases comes to an end,    *)
(* through crashes, lost leases and timeouts, unless polls get other jobs  *)
(* for ever: jobs whose claims raise, or that time out again and again.    *)
PaidDrains ==
    \A j \in JobIds :
        \/ PassedOverForEver(j)
        \/ (LiveJob(j) /\ Paid(PaymentOf(j))) ~> ~LiveJob(j)

(* If leases outlast the calls from some moment on, the job of a charge    *)
(* that went through at the gateway gets to record it, through timeouts,   *)
(* crashes and lost leases, unless an administrator cancels it first or    *)
(* polls pass it over for ever.                                            *)
ChargeIsRecordedOrCancelled ==
    (<>[][~LeaseLostAlive]_progressVars) =>
        \A j \in JobIds :
            \/ PassedOverForEver(j)
            \/ (/\ LiveJob(j) /\ jobs[j].attempt # 0
                /\ store[PaymentOf(j)][jobs[j].attempt] = "succeeded")
                  ~> (\/ jobs[j].status = "CANCELLED"
                      \/ JobExists(j) /\ Paid(PaymentOf(j)))

(* A queued charge is claimed if it knows its attempt or the number it     *)
(* will give to a new one is not taken; only polls that pass it over for   *)
(* ever hold it back.                                                      *)
FreshChargeIsClaimed ==
    \A j \in JobIds :
        \/ PassedOverForEver(j)
        \/ (/\ jobs[j].status = "PENDING"
            /\ jobs[j].type = "EXECUTE_CHARGE"
            /\ \/ jobs[j].attempt # 0
               \/ attempts[jobs[j].case][jobs[j].count + 1] = "ABSENT")
              ~> jobs[j].status # "PENDING"
=============================================================================
