---------------------------- MODULE LeaseTiming ----------------------------
(***************************************************************************)
(* Claims and leases against a clock.  RecoveryEngine lets a lease expire  *)
(* at any moment; this module says when it does.  All times are distances, *)
(* in one unit: how long ago locked_at was, how long the current call has  *)
(* taken.  What a job is about is left out, and so is available_at, which  *)
(* the claim does not look at.  Nothing in the code bounds a whole call:   *)
(* AI_TIMEOUT is what the OpenAI client grants each phase of a request,    *)
(* and it repeats failed ones after pauses of its own; nothing reads       *)
(* GATEWAY_HTTP_TIMEOUT but validate_timeouts.  How long calls and waits   *)
(* take at most is therefore a constant of its own, of the environment.    *)
(***************************************************************************)
EXTENDS Integers

CONSTANTS
    Workers,
    Jobs,                   \* ids for the rows of recovery_jobs that are not over
    NULL,
    WORKER_LEASE_TIMEOUT,
    GATEWAY_HTTP_TIMEOUT,
    AI_TIMEOUT,
    AiLimit,                \* the longest the AI takes, tries and pauses included
    GatewayLimit,           \* the longest a call of the gateway takes
    RowWait,                \* the longest wait of a transaction for locked rows
    WORKER_POLL_INTERVAL,
    MaxKills                \* bound: workers killed, jobs given up in an exception

(* What settings.py refuses to start without. *)
ValidateTimeouts == /\ GATEWAY_HTTP_TIMEOUT < WORKER_LEASE_TIMEOUT
                    /\ AI_TIMEOUT < WORKER_LEASE_TIMEOUT

ASSUME TimingAssumption ==
    /\ WORKER_LEASE_TIMEOUT \in Nat /\ GATEWAY_HTTP_TIMEOUT \in Nat
    /\ AI_TIMEOUT \in Nat /\ AiLimit \in Nat /\ GatewayLimit \in Nat
    /\ RowWait \in Nat /\ WORKER_POLL_INTERVAL \in Nat /\ MaxKills \in Nat
    /\ NULL \notin Workers \cup Jobs
    /\ ValidateTimeouts

VARIABLES
    jobs,       \* rows: age = now - locked_at
    worker,     \* age = now - the moment the claim began, spent = in this pc
    kills

vars == <<jobs, worker, kills>>

Calling == {"asking", "verifying", "charging"}

Working == Calling \cup {"saving"}

(* DONE: no row has the id, or one that is over; a new row may take it.    *)
JobRow == [status : {"DONE", "PENDING", "RUNNING"},
           type   : {"EVALUATE_RECOVERY", "EXECUTE_CHARGE"},
           owner  : Workers \cup {NULL},
           age    : Nat]

WorkerState == [pc    : {"idle", "sleeping", "locking"} \cup Working,
                job   : Jobs \cup {NULL},
                age   : Nat,
                spent : Nat]

TimingTypeOK == /\ jobs \in [Jobs -> JobRow]
                /\ worker \in [Workers -> WorkerState]
                /\ kills \in Nat

NewJob(type) == [status |-> "PENDING", type |-> type, owner |-> NULL, age |-> 0]

NoWork(pc) == [pc |-> pc, job |-> NULL, age |-> 0, spent |-> 0]

Over == [NewJob("EVALUATE_RECOVERY") EXCEPT !.status = "DONE"]

Init == /\ jobs = [j \in Jobs |-> Over]
        /\ worker = [w \in Workers |-> NoWork("idle")]
        /\ kills = 0

Mine(w) == jobs[worker[w].job]

MoveTo(w, pc) == worker' = [worker EXCEPT ![w].pc = pc, ![w].spent = 0]

Leave(w, pc) == worker' = [worker EXCEPT ![w] = NoWork(pc)]

-----------------------------------------------------------------------------
(* A webhook opens a case, an administrator reopens one. *)
OpenCase(j) ==
    /\ jobs[j].status = "DONE"
    /\ jobs' = [jobs EXCEPT ![j] = NewJob("EVALUATE_RECOVERY")]
    /\ UNCHANGED <<worker, kills>>

(* A claim has the row locked. *)
Locked(j) == \E w \in Workers : worker[w].pc = "locking" /\ worker[w].job = j

(* A webhook or an administrator closes the case of a job. *)
CancelPending(j) ==
    /\ jobs[j].status = "PENDING"
    /\ ~Locked(j)
    /\ jobs' = [jobs EXCEPT ![j] = Over]
    /\ UNCHANGED <<worker, kills>>

(* Mutated: a lease that is exactly as old as allowed counts as expired. *)
ClaimableAtLimit(j) ==
    \/ jobs[j].status = "PENDING"
    \/ jobs[j].status = "RUNNING" /\ jobs[j].age >= WORKER_LEASE_TIMEOUT

(* Mutated: the jobs of dead workers are not looked for. *)
PendingOnly(j) == jobs[j].status = "PENDING"

Claimable(j) ==
    \/ jobs[j].status = "PENDING"
    \/ jobs[j].status = "RUNNING" /\ jobs[j].age > WORKER_LEASE_TIMEOUT

(* Mutated: the rows are selected without FOR UPDATE. *)
FoundUnlocked == {j \in Jobs : Claimable(j)}

(* SKIP LOCKED: rows that another claim has locked are left out. *)
Found == {j \in Jobs : Claimable(j) /\ ~Locked(j)}

(* limit(1) without an order: any of them.  The time that will be stored   *)
(* as locked_at is taken before the transaction waits for case and payment.*)
Claim(w, j) ==
    /\ worker[w].pc = "idle"
    /\ j \in Found
    /\ worker' = [worker EXCEPT ![w] = [NoWork("locking") EXCEPT !.job = j]]
    /\ UNCHANGED <<jobs, kills>>

NothingToClaim(w) ==
    /\ worker[w].pc = "idle"
    /\ Found = {}
    /\ Leave(w, "sleeping")
    /\ UNCHANGED <<jobs, kills>>

WakeUp(w) ==
    /\ worker[w].pc = "sleeping"
    /\ worker[w].spent = WORKER_POLL_INTERVAL
    /\ Leave(w, "idle")
    /\ UNCHANGED <<jobs, kills>>

(* The payment has succeeded meanwhile. *)
CancelClaimed(w) ==
    /\ worker[w].pc = "locking"
    /\ jobs' = [jobs EXCEPT ![worker[w].job] = Over]
    /\ Leave(w, "idle")
    /\ UNCHANGED kills

(* The number of the attempt is taken (uq_recovery_attempt_number), or the *)
(* transaction loses a deadlock: the claim is rolled back, and the loop    *)
(* sleeps.  Nothing keeps a job from meeting this at each of its claims.   *)
ClaimRaises(w) ==
    /\ worker[w].pc = "locking"
    /\ Leave(w, "sleeping")
    /\ UNCHANGED <<jobs, kills>>

(* A charge asks for the outcome of its attempt first, but for one that is *)
(* known to have failed.                                                   *)
CommitClaim(w) ==
    /\ worker[w].pc = "locking"
    /\ jobs' = [jobs EXCEPT ![worker[w].job] = [@ EXCEPT
                   !.status = "RUNNING", !.owner = w, !.age = worker[w].age]]
    /\ \E pc \in IF Mine(w).type = "EVALUATE_RECOVERY" THEN {"asking"}
                 ELSE {"verifying", "charging"} : MoveTo(w, pc)
    /\ UNCHANGED kills

(* The gateway has no result under the key. *)
NotFound(w) ==
    /\ worker[w].pc = "verifying"
    /\ MoveTo(w, "charging")
    /\ UNCHANGED <<jobs, kills>>

(* A call has answered, or timed out: the second transaction begins with   *)
(* the check of the owner.  StaleWorkerError reaches the loop.             *)
Answered(w) ==
    /\ worker[w].pc \in Calling
    /\ IF Mine(w).owner = w THEN MoveTo(w, "saving") ELSE Leave(w, "sleeping")
    /\ UNCHANGED <<jobs, kills>>

(* The jobs that may follow; DELAY and errors of the AI make another       *)
(* evaluation.                                                             *)
Following(type) ==
    IF type = "EVALUATE_RECOVERY"
    THEN {NewJob("EXECUTE_CHARGE"), NewJob("EVALUATE_RECOVERY")}
    ELSE {NewJob("EVALUATE_RECOVERY")}

Finish(w) ==
    LET done == [jobs EXCEPT ![worker[w].job] = Over]
    IN  /\ worker[w].pc = "saving"
        /\ \/ jobs' = done
           \/ \E k \in Jobs, next \in Following(Mine(w).type) :
                 /\ jobs[k].status = "DONE"
                 /\ jobs' = [done EXCEPT ![k] = next]
        /\ Leave(w, "idle")
        /\ UNCHANGED kills

(* An ambiguous charge can be claimed again at once. *)
FinishAmbiguous(w) ==
    /\ worker[w].pc = "saving"
    /\ Mine(w).type = "EXECUTE_CHARGE"
    /\ jobs' = [jobs EXCEPT ![worker[w].job].status = "PENDING"]
    /\ Leave(w, "idle")
    /\ UNCHANGED kills

(* A worker is killed and started again, or an exception after its claim   *)
(* ends in the loop, which sleeps: its job waits for the lease to run out. *)
Kill(w) ==
    /\ worker[w].pc \in {"locking"} \cup Working
    /\ kills < MaxKills
    /\ kills' = kills + 1
    /\ \E pc \in {"idle", "sleeping"} : Leave(w, pc)
    /\ UNCHANGED jobs

-----------------------------------------------------------------------------
Limit(pc) ==
    CASE pc = "asking"                   -> AiLimit
      [] pc \in {"verifying", "charging"} -> GatewayLimit
      [] pc \in {"locking", "saving"}     -> RowWait
      [] OTHER                            -> WORKER_POLL_INTERVAL

Older(age) == IF age > WORKER_LEASE_TIMEOUT THEN age ELSE age + 1

(* Time passes, but never beyond the limit of what a worker is doing. *)
Tick ==
    /\ \A w \in Workers : worker[w].pc # "idle" => worker[w].spent < Limit(worker[w].pc)
    /\ jobs' = [j \in Jobs |-> [jobs[j] EXCEPT
                   !.age = IF jobs[j].status = "RUNNING" THEN Older(@) ELSE @]]
    /\ worker' = [w \in Workers |-> IF worker[w].pc = "idle" THEN worker[w]
                     ELSE [worker[w] EXCEPT !.age = Older(@), !.spent = @ + 1]]
    /\ UNCHANGED kills

WorkerStep(w) ==
    \/ \E j \in Jobs : Claim(w, j)
    \/ NothingToClaim(w) \/ WakeUp(w)
    \/ CancelClaimed(w) \/ ClaimRaises(w) \/ CommitClaim(w)
    \/ NotFound(w) \/ Answered(w) \/ Finish(w) \/ FinishAmbiguous(w)

Next == \/ \E w \in Workers : WorkerStep(w) \/ Kill(w)
        \/ \E j \in Jobs : OpenCase(j) \/ CancelPending(j)
        \/ Tick

Spec == Init /\ [][Next]_vars

FairSpec == Spec /\ WF_vars(Tick) /\ \A w \in Workers : WF_vars(WorkerStep(w))

-----------------------------------------------------------------------------
(* What it takes for a lease to be long enough: both transactions and the  *)
(* calls of one claim fit into it, at their longest.  The settings that    *)
(* ValidateTimeouts lets pass do not see to it.                            *)
TimeoutsFit == /\ 2 * RowWait + 2 * GatewayLimit <= WORKER_LEASE_TIMEOUT
               /\ 2 * RowWait + AiLimit <= WORKER_LEASE_TIMEOUT

(* Until a live worker is done with a job, the job is its own and its      *)
(* lease has not run out, so that no other worker takes it for abandoned.  *)
LeaseOutlastsWork ==
    \A w \in Workers : worker[w].pc \in Working =>
        /\ Mine(w).status = "RUNNING"
        /\ Mine(w).owner = w
        /\ Mine(w).age <= WORKER_LEASE_TIMEOUT

(* Why: what a worker has in hand, that nobody else has it, and how long   *)
(* after its claim it may get that far.                                    *)
Busy == {"locking"} \cup Working

JobsInHand ==
    \A w \in Workers : worker[w].pc \in Busy =>
        /\ worker[w].job \in Jobs
        /\ worker[w].pc \in Working => /\ Mine(w).status = "RUNNING"
                                      /\ Mine(w).owner = w
                                      /\ Mine(w).age = worker[w].age

OneEach ==
    \A v, w \in Workers :
        v # w /\ worker[v].pc \in Busy /\ worker[w].pc \in Busy
            => worker[v].job # worker[w].job

LatestStart(pc) ==
    CASE pc = "locking"                -> 0
      [] pc \in {"asking", "verifying"} -> RowWait
      [] pc = "charging"               -> RowWait + GatewayLimit
      [] OTHER                         -> WORKER_LEASE_TIMEOUT - RowWait

OnSchedule ==
    \A w \in Workers : worker[w].pc \in Busy =>
        /\ worker[w].spent <= Limit(worker[w].pc)
        /\ worker[w].age <= LatestStart(worker[w].pc) + worker[w].spent

TimingInvariant == TimingTypeOK /\ JobsInHand /\ OneEach /\ OnSchedule

(* Job j could be claimed, and a claim gets another one, again and again:  *)
(* the database owes no job its turn.                                      *)
PassedOverForEver(j) ==
    []<><<j \in Found /\ \E w \in Workers, k \in Jobs \ {j} : Claim(w, k)>>_vars

(* The claims of job j are rolled back, or its charge times out, again and *)
(* again.                                                                  *)
TriedForEver(j) ==
    []<><<\E w \in Workers : worker[w].job = j /\ (ClaimRaises(w) \/ FinishAmbiguous(w))>>_vars

(* Every job that is queued, or whose worker has died or lost it, is       *)
(* finished at last, unless it is passed over or tried in vain for ever.   *)
EveryJobIsProcessed ==
    \A j \in Jobs :
        \/ PassedOverForEver(j) \/ TriedForEver(j)
        \/ jobs[j].status \in {"PENDING", "RUNNING"} ~> jobs[j].status = "DONE"
=============================================================================
