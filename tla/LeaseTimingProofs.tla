------------------------- MODULE LeaseTimingProofs -------------------------
(***************************************************************************)
(* If both transactions and the calls of one claim fit into the lease, no  *)
(* live worker ever loses a job: for any number of workers and jobs, any   *)
(* durations, and whatever workers are killed.                             *)
(***************************************************************************)
EXTENDS LeaseTiming, TLAPS

(* What the clock can show of a worker that is on schedule. *)
LEMMA ScheduleFits ==
    ASSUME TimeoutsFit, TimingTypeOK, OnSchedule,
           NEW w \in Workers, worker[w].pc \in Busy
    PROVE  /\ worker[w].age \in Nat /\ worker[w].spent \in Nat
           /\ worker[w].age <= WORKER_LEASE_TIMEOUT
<1>1. worker[w].age \in Nat /\ worker[w].spent \in Nat
    BY DEF TimingTypeOK, WorkerState
<1>2. /\ worker[w].spent <= Limit(worker[w].pc)
      /\ worker[w].age <= LatestStart(worker[w].pc) + worker[w].spent
    BY DEF OnSchedule
<1>3. CASE worker[w].pc = "locking"
    BY <1>1, <1>2, <1>3, TimingAssumption DEF TimeoutsFit, Limit, LatestStart
<1>4. CASE worker[w].pc = "asking"
    BY <1>1, <1>2, <1>4, TimingAssumption DEF TimeoutsFit, Limit, LatestStart
<1>5. CASE worker[w].pc \in {"verifying", "charging"}
    BY <1>1, <1>2, <1>5, TimingAssumption DEF TimeoutsFit, Limit, LatestStart
<1>6. CASE worker[w].pc = "saving"
    BY <1>1, <1>2, <1>6, TimingAssumption DEF TimeoutsFit, Limit, LatestStart
<1> QED BY <1>1, <1>3, <1>4, <1>5, <1>6 DEF Busy, Working, Calling

(* So the invariant is what it explains. *)
LEMMA InvariantImpliesOutlasts ==
    ASSUME TimeoutsFit, TimingInvariant PROVE LeaseOutlastsWork
<1> SUFFICES ASSUME NEW w \in Workers, worker[w].pc \in Working
             PROVE  /\ Mine(w).status = "RUNNING"
                    /\ Mine(w).owner = w
                    /\ Mine(w).age <= WORKER_LEASE_TIMEOUT
    BY DEF LeaseOutlastsWork
<1>1. worker[w].pc \in Busy BY DEF Busy
<1> QED BY <1>1, ScheduleFits DEF TimingInvariant, JobsInHand

LEMMA InitInvariant == Init => TimingInvariant
<1> SUFFICES ASSUME Init PROVE TimingInvariant OBVIOUS
<1>1. \A w \in Workers : worker[w] = NoWork("idle") BY DEF Init
<1>2. TimingTypeOK
    <2>1. \A j \in Jobs : jobs[j] \in JobRow BY DEF Init, Over, JobRow, NewJob
    <2>2. jobs \in [Jobs -> JobRow] BY <2>1 DEF Init
    <2>3. NoWork("idle") \in WorkerState BY DEF NoWork, WorkerState
    <2> QED BY <2>2, <2>3 DEF Init, TimingTypeOK
<1>3. \A w \in Workers : worker[w].pc \notin Busy
    <2>1. NoWork("idle").pc \notin Busy BY DEF NoWork, Busy, Working, Calling
    <2> QED BY <1>1, <2>1
<1> QED BY <1>2, <1>3 DEF TimingInvariant, JobsInHand, OneEach, OnSchedule

-----------------------------------------------------------------------------
(* A worker goes to bed, or looks for the next job. *)
LEMMA LeaveKeepsWorkers ==
    ASSUME TimingInvariant, NEW w \in Workers, NEW pc \in {"idle", "sleeping"},
           Leave(w, pc)
    PROVE  /\ worker' \in [Workers -> WorkerState]
           /\ \A v \in Workers : worker'[v].pc \in Busy =>
                 v # w /\ worker'[v] = worker[v] /\ worker[v].pc \in Busy
<1>1. NoWork(pc) \in WorkerState BY DEF NoWork, WorkerState
<1>2. worker \in [Workers -> WorkerState] BY DEF TimingInvariant, TimingTypeOK
<1>3. \A v \in Workers : worker'[v] = IF v = w THEN NoWork(pc) ELSE worker[v]
    BY <1>2 DEF Leave
<1>4. NoWork(pc).pc \notin Busy BY DEF NoWork, Busy, Working, Calling
<1> QED BY <1>1, <1>2, <1>3, <1>4 DEF Leave

(* A worker that leaves takes nothing with it: if it changed any row, it   *)
(* was the one it had in hand, or one that nobody has.                     *)
LEMMA LeavingKeepsInvariant ==
    ASSUME TimingInvariant, NEW w \in Workers, NEW pc \in {"idle", "sleeping"},
           Leave(w, pc), jobs' \in [Jobs -> JobRow], kills' \in Nat,
           \A v \in Workers \ {w} : worker[v].pc \in Working
               => jobs'[worker[v].job] = jobs[worker[v].job]
    PROVE  TimingInvariant'
<1>1. /\ worker' \in [Workers -> WorkerState]
      /\ \A v \in Workers : worker'[v].pc \in Busy =>
            v # w /\ worker'[v] = worker[v] /\ worker[v].pc \in Busy
    BY LeaveKeepsWorkers
<1>2. TimingTypeOK' BY <1>1 DEF TimingTypeOK
<1>3. JobsInHand'
    <2> SUFFICES ASSUME NEW v \in Workers, worker'[v].pc \in Busy
                 PROVE  /\ worker'[v].job \in Jobs
                        /\ worker'[v].pc \in Working =>
                             /\ Mine(v)'.status = "RUNNING"
                             /\ Mine(v)'.owner = v
                             /\ Mine(v)'.age = worker'[v].age
        BY DEF JobsInHand
    <2>1. v # w /\ worker'[v] = worker[v] /\ worker[v].pc \in Busy BY <1>1
    <2>2. worker[v].pc \in Working => Mine(v)' = Mine(v) BY <2>1 DEF Mine
    <2> QED BY <2>1, <2>2 DEF TimingInvariant, JobsInHand
<1>4. OneEach' BY <1>1 DEF TimingInvariant, OneEach
<1>5. OnSchedule' BY <1>1 DEF TimingInvariant, OnSchedule
<1> QED BY <1>2, <1>3, <1>4, <1>5 DEF TimingInvariant

(* A worker that goes on with its job, in time. *)
LEMMA MovingKeepsInvariant ==
    ASSUME TimingInvariant, NEW w \in Workers, NEW pc \in Working,
           worker[w].pc \in Busy, MoveTo(w, pc), kills' = kills,
           jobs' \in [Jobs -> JobRow],
           jobs'[worker[w].job].status = "RUNNING",
           jobs'[worker[w].job].owner = w,
           jobs'[worker[w].job].age = worker[w].age,
           \A j \in Jobs \ {worker[w].job} : jobs'[j] = jobs[j],
           worker[w].age <= LatestStart(pc)
    PROVE  TimingInvariant'
<1>1. worker \in [Workers -> WorkerState] BY DEF TimingInvariant, TimingTypeOK
<1>2. /\ worker'[w] = [worker[w] EXCEPT !.pc = pc, !.spent = 0]
      /\ \A v \in Workers \ {w} : worker'[v] = worker[v]
      /\ worker'[w] \in WorkerState
      /\ worker'[w].pc = pc /\ worker'[w].job = worker[w].job
      /\ worker'[w].age = worker[w].age /\ worker'[w].spent = 0
    BY <1>1 DEF MoveTo, WorkerState
<1>3. TimingTypeOK'
    <2>1. worker' \in [Workers -> WorkerState] BY <1>1, <1>2 DEF MoveTo
    <2> QED BY <2>1 DEF TimingInvariant, TimingTypeOK
<1>4. \A v \in Workers : /\ worker'[v].pc \in Busy => worker[v].pc \in Busy
                         /\ worker'[v].job = worker[v].job
    BY <1>2
<1>5. OneEach' BY <1>4 DEF TimingInvariant, OneEach
<1>6. JobsInHand'
    <2> SUFFICES ASSUME NEW v \in Workers, worker'[v].pc \in Busy
                 PROVE  /\ worker'[v].job \in Jobs
                        /\ worker'[v].pc \in Working =>
                             /\ Mine(v)'.status = "RUNNING"
                             /\ Mine(v)'.owner = v
                             /\ Mine(v)'.age = worker'[v].age
        BY DEF JobsInHand
    <2>1. worker'[v].job \in Jobs BY <1>4 DEF TimingInvariant, JobsInHand
    <2>2. CASE v = w BY <2>1, <2>2, <1>2 DEF Mine
    <2>3. CASE v # w
        <3>1. worker[v].job # worker[w].job
            BY <2>3, <1>4 DEF TimingInvariant, OneEach
        <3>2. Mine(v)' = Mine(v) /\ worker'[v] = worker[v]
            BY <3>1, <2>1, <2>3, <1>2 DEF Mine
        <3> QED BY <3>2, <1>4, <2>1 DEF TimingInvariant, JobsInHand
    <2> QED BY <2>2, <2>3
<1>7. OnSchedule'
    <2> SUFFICES ASSUME NEW v \in Workers, worker'[v].pc \in Busy
                 PROVE  /\ worker'[v].spent <= Limit(worker'[v].pc)
                        /\ worker'[v].age <= LatestStart(worker'[v].pc) + worker'[v].spent
        BY DEF OnSchedule
    <2>1. CASE v # w BY <2>1, <1>2 DEF TimingInvariant, OnSchedule
    <2>2. CASE v = w
        <3>1. Limit(pc) \in Nat BY TimingAssumption DEF Limit
        <3>2. LatestStart(pc) \in Int BY TimingAssumption DEF LatestStart
        <3>3. worker[w].age \in Nat BY <1>1 DEF WorkerState
        <3> QED BY <2>2, <1>2, <3>1, <3>2, <3>3
    <2> QED BY <2>1, <2>2
<1> QED BY <1>3, <1>5, <1>6, <1>7 DEF TimingInvariant

-----------------------------------------------------------------------------
(* What everybody knows of the worker and of the jobs in hand. *)
LEMMA InHand ==
    ASSUME TimingInvariant, NEW w \in Workers, worker[w].pc \in Busy
    PROVE  /\ worker[w] \in WorkerState
           /\ worker[w].job \in Jobs
           /\ Mine(w) \in JobRow
           /\ \A v \in Workers \ {w} :
                 worker[v].pc \in Working => worker[v].job # worker[w].job
<1>1. worker[w] \in WorkerState /\ worker[w].job \in Jobs
    BY DEF TimingInvariant, TimingTypeOK, JobsInHand
<1>2. Mine(w) \in JobRow BY <1>1 DEF TimingInvariant, TimingTypeOK, Mine
<1>3. \A v \in Workers \ {w} :
         worker[v].pc \in Working => worker[v].job # worker[w].job
    BY DEF TimingInvariant, OneEach, Busy
<1> QED BY <1>1, <1>2, <1>3

LEMMA OverIsARow == Over \in JobRow
BY TimingAssumption DEF Over, NewJob, JobRow

(* Rows that come and go without a worker. *)
LEMMA RequestSteps ==
    ASSUME TimingInvariant, NEW k \in Jobs, OpenCase(k) \/ CancelPending(k)
    PROVE  TimingInvariant'
<1>1. jobs \in [Jobs -> JobRow] /\ kills \in Nat
    BY DEF TimingInvariant, TimingTypeOK
<1>2. NewJob("EVALUATE_RECOVERY") \in JobRow
    BY TimingAssumption DEF NewJob, JobRow
<1>3. jobs' \in [Jobs -> JobRow]
    BY <1>1, <1>2, OverIsARow DEF OpenCase, CancelPending
<1>4. TimingTypeOK' BY <1>3 DEF OpenCase, CancelPending, TimingInvariant, TimingTypeOK
<1>5. \A w \in Workers : worker[w].pc \in Working => Mine(w)' = Mine(w)
    <2> SUFFICES ASSUME NEW w \in Workers, worker[w].pc \in Working
                 PROVE  Mine(w)' = Mine(w)
        OBVIOUS
    <2>1. worker[w].job \in Jobs /\ jobs[worker[w].job].status = "RUNNING"
        BY DEF TimingInvariant, JobsInHand, Busy, Mine
    <2>2. worker[w].job # k BY <2>1 DEF OpenCase, CancelPending
    <2> QED BY <2>1, <2>2, <1>1 DEF OpenCase, CancelPending, Mine
<1>6. JobsInHand' BY <1>5 DEF OpenCase, CancelPending, TimingInvariant, JobsInHand
<1>7. OneEach' /\ OnSchedule'
    BY DEF OpenCase, CancelPending, TimingInvariant, OneEach, OnSchedule
<1> QED BY <1>4, <1>6, <1>7 DEF TimingInvariant

(* The one step that would take a job from a live worker. *)
LEMMA ClaimStep ==
    ASSUME TimeoutsFit, TimingInvariant, NEW w \in Workers, NEW j \in Jobs, Claim(w, j)
    PROVE  TimingInvariant'
<1> DEFINE Start == [NoWork("locking") EXCEPT !.job = j]
<1>1. worker \in [Workers -> WorkerState] BY DEF TimingInvariant, TimingTypeOK
<1>2. /\ Start \in WorkerState
      /\ Start.pc = "locking" /\ Start.job = j /\ Start.spent = 0 /\ Start.age = 0
    BY DEF NoWork, WorkerState
<1>3. \A v \in Workers : worker'[v] = IF v = w THEN Start ELSE worker[v]
    BY <1>1 DEF Claim
<1>4. worker' \in [Workers -> WorkerState] BY <1>1, <1>2 DEF Claim
<1>5. TimingTypeOK' BY <1>4 DEF Claim, TimingInvariant, TimingTypeOK
<1>6. "locking" \notin Working /\ "locking" \in Busy BY DEF Busy, Working, Calling
<1>7. \A v \in Workers : worker[v].pc \in Busy => worker[v].job # j
    <2> SUFFICES ASSUME NEW v \in Workers, worker[v].pc \in Busy, worker[v].job = j
                 PROVE  FALSE
        OBVIOUS
    <2>1. worker[v].pc # "locking" BY DEF Claim, Found, Locked
    <2>2. worker[v].pc \in Working BY <2>1 DEF Busy
    <2>3. jobs[j].status = "RUNNING" /\ jobs[j].age <= WORKER_LEASE_TIMEOUT
        BY <2>2, InvariantImpliesOutlasts DEF LeaseOutlastsWork, Mine
    <2>4. jobs[j].age \in Nat BY DEF TimingInvariant, TimingTypeOK, JobRow
    <2>5. Claimable(j) BY DEF Claim, Found
    <2> QED BY <2>3, <2>4, <2>5, TimingAssumption DEF Claimable
<1>8. JobsInHand'
    <2> HIDE DEF Start
    <2>1. \A v \in Workers : Mine(v)' = jobs[worker'[v].job] BY DEF Claim, Mine
    <2>2. worker'[w].job \in Jobs /\ worker'[w].pc \notin Working
        BY <1>2, <1>3, <1>6
    <2>3. \A v \in Workers \ {w} : worker'[v] = worker[v] /\ Mine(v)' = Mine(v)
        BY <1>3, <2>1 DEF Mine
    <2> QED BY <2>2, <2>3 DEF TimingInvariant, JobsInHand
<1>9. OneEach' BY ZenonT(30), <1>2, <1>3, <1>7 DEF TimingInvariant, OneEach
<1>10. OnSchedule'
    <2>1. Limit("locking") = RowWait /\ LatestStart("locking") = 0
        BY DEF Limit, LatestStart
    <2> HIDE DEF Start
    <2>2. /\ worker'[w].spent <= Limit(worker'[w].pc)
          /\ worker'[w].age <= LatestStart(worker'[w].pc) + worker'[w].spent
        BY <2>1, <1>2, <1>3, TimingAssumption
    <2>3. \A v \in Workers \ {w} : worker'[v] = worker[v] BY <1>3
    <2> QED BY <2>2, <2>3 DEF TimingInvariant, OnSchedule
<1> QED BY <1>5, <1>8, <1>9, <1>10 DEF TimingInvariant

(* Steps after which a worker has no job. *)
LEMMA LeavingSteps ==
    ASSUME TimingInvariant, NEW w \in Workers,
           \/ NothingToClaim(w) \/ WakeUp(w) \/ Kill(w)
           \/ CancelClaimed(w) \/ ClaimRaises(w)
           \/ Finish(w) \/ FinishAmbiguous(w)
    PROVE  TimingInvariant'
<1>0. jobs \in [Jobs -> JobRow] /\ kills \in Nat
    BY DEF TimingInvariant, TimingTypeOK
<1>1. CASE NothingToClaim(w) \/ WakeUp(w) \/ ClaimRaises(w)
    BY <1>0, <1>1, LeavingKeepsInvariant DEF NothingToClaim, WakeUp, ClaimRaises
<1>2. CASE Kill(w)
    <2>1. PICK pc \in {"idle", "sleeping"} : Leave(w, pc) BY <1>2 DEF Kill
    <2>2. jobs' = jobs /\ kills' \in Nat BY <1>0, <1>2 DEF Kill
    <2> QED BY <1>0, <2>1, <2>2, LeavingKeepsInvariant
<1>3. CASE CancelClaimed(w)
    <2>1. worker[w].pc \in Busy BY <1>3 DEF CancelClaimed, Busy
    <2>2. jobs' = [jobs EXCEPT ![worker[w].job] = Over] BY <1>3 DEF CancelClaimed
    <2>3. jobs' \in [Jobs -> JobRow] BY <1>0, <2>2, OverIsARow
    <2>4. \A v \in Workers \ {w} : worker[v].pc \in Working =>
             worker[v].job \in Jobs /\ worker[v].job # worker[w].job
        BY <2>1, InHand DEF TimingInvariant, JobsInHand, Busy
    <2>5. \A v \in Workers \ {w} : worker[v].pc \in Working
             => jobs'[worker[v].job] = jobs[worker[v].job]
        BY <1>0, <2>2, <2>4
    <2> QED BY <1>0, <1>3, <2>3, <2>5, LeavingKeepsInvariant DEF CancelClaimed
<1>4. CASE Finish(w) \/ FinishAmbiguous(w)
    <2>1. worker[w].pc \in Busy BY <1>4 DEF Finish, FinishAmbiguous, Busy, Working
    <2>2. PICK row \in {Over, [Mine(w) EXCEPT !.status = "PENDING"]} :
            LET done == [jobs EXCEPT ![worker[w].job] = row]
            IN  \/ jobs' = done
                \/ \E k \in Jobs, next \in Following(Mine(w).type) :
                      /\ jobs[k].status = "DONE"
                      /\ jobs' = [done EXCEPT ![k] = next]
        <3>1. CASE Finish(w) BY <3>1 DEF Finish
        <3>2. CASE FinishAmbiguous(w)
            <4>1. jobs' = [jobs EXCEPT ![worker[w].job] =
                              [Mine(w) EXCEPT !.status = "PENDING"]]
                BY <3>2, <1>0, <2>1, InHand DEF FinishAmbiguous, Mine
            <4> QED BY <4>1
        <3> QED BY <1>4, <3>1, <3>2
    <2> DEFINE done == [jobs EXCEPT ![worker[w].job] = row]
    <2>3. row \in JobRow
        <3>1. Mine(w) \in JobRow BY <2>1, InHand
        <3>2. [Mine(w) EXCEPT !.status = "PENDING"] \in JobRow BY <3>1 DEF JobRow
        <3> QED BY <2>2, <3>2, OverIsARow
    <2>4. done \in [Jobs -> JobRow] BY <1>0, <2>3
    <2>5. \A type : Following(type) \subseteq JobRow
        BY TimingAssumption DEF Following, NewJob, JobRow
    <2>6. jobs' \in [Jobs -> JobRow] BY <2>2, <2>4, <2>5
    <2>7. \A v \in Workers \ {w} : worker[v].pc \in Working =>
             /\ worker[v].job \in Jobs
             /\ jobs[worker[v].job].status = "RUNNING"
             /\ worker[v].job # worker[w].job
        BY <2>1, InHand DEF TimingInvariant, JobsInHand, Busy, Mine
    <2>8. \A v \in Workers \ {w} : worker[v].pc \in Working
             => jobs'[worker[v].job] = jobs[worker[v].job]
        BY <1>0, <2>2, <2>4, <2>7
    <2> QED BY <1>0, <1>4, <2>6, <2>8, LeavingKeepsInvariant DEF Finish, FinishAmbiguous
<1> QED BY <1>1, <1>2, <1>3, <1>4

(* Steps after which a worker goes on with the same job. *)
LEMMA MovingSteps ==
    ASSUME TimeoutsFit, TimingInvariant, NEW w \in Workers,
           CommitClaim(w) \/ NotFound(w) \/ Answered(w)
    PROVE  TimingInvariant'
<1>0. jobs \in [Jobs -> JobRow] /\ kills \in Nat
    BY DEF TimingInvariant, TimingTypeOK
<1>1. worker[w].pc \in Busy
    BY DEF CommitClaim, NotFound, Answered, Busy, Working, Calling
<1>2. /\ worker[w].age \in Nat /\ worker[w].spent \in Nat
      /\ worker[w].spent <= Limit(worker[w].pc)
      /\ worker[w].age <= LatestStart(worker[w].pc) + worker[w].spent
    BY <1>1 DEF TimingInvariant, OnSchedule, TimingTypeOK, WorkerState
<1>3. worker[w].job \in Jobs BY <1>1, InHand
<1>4. CASE CommitClaim(w)
    <2>1. PICK pc \in {"asking", "verifying", "charging"} : MoveTo(w, pc)
        BY <1>4 DEF CommitClaim
    <2>2. worker[w].age <= LatestStart(pc)
        <3>1. worker[w].age <= RowWait
            BY <1>2, <1>4, TimingAssumption DEF CommitClaim, Limit, LatestStart
        <3> QED BY <1>2, <2>1, <3>1, TimingAssumption DEF LatestStart
    <2> DEFINE Row == [Mine(w) EXCEPT !.status = "RUNNING", !.owner = w, !.age = worker[w].age]
    <2>3. /\ Row \in JobRow
          /\ Row.status = "RUNNING" /\ Row.owner = w /\ Row.age = worker[w].age
        BY <1>1, <1>2, InHand DEF JobRow
    <2>4. jobs' = [jobs EXCEPT ![worker[w].job] = Row]
        BY <1>4, <1>0, <1>3 DEF CommitClaim, Mine
    <2>5. /\ jobs' \in [Jobs -> JobRow]
          /\ jobs'[worker[w].job] = Row
          /\ \A j \in Jobs \ {worker[w].job} : jobs'[j] = jobs[j]
        <3> HIDE DEF Row
        <3> QED BY <1>0, <1>3, <2>3, <2>4
    <2>6. pc \in Working BY <2>1 DEF Working, Calling
    <2>7. kills' = kills BY <1>4 DEF CommitClaim
    <2> HIDE DEF Row
    <2> QED BY <1>1, <2>1, <2>2, <2>3, <2>5, <2>6, <2>7, MovingKeepsInvariant
<1>5. CASE NotFound(w)
    <2>1. worker[w].age <= LatestStart("charging")
        BY <1>2, <1>5, TimingAssumption DEF NotFound, Limit, LatestStart
    <2>2. worker[w].pc \in Working /\ "charging" \in Working
        BY <1>5 DEF NotFound, Working, Calling
    <2>3. /\ jobs[worker[w].job].status = "RUNNING"
          /\ jobs[worker[w].job].owner = w
          /\ jobs[worker[w].job].age = worker[w].age
        BY <1>1, <2>2 DEF TimingInvariant, JobsInHand, Mine
    <2>4. MoveTo(w, "charging") /\ jobs' = jobs /\ kills' = kills
        BY <1>5 DEF NotFound
    <2> QED BY <1>0, <1>1, <2>1, <2>2, <2>3, <2>4, MovingKeepsInvariant
<1>6. CASE Answered(w)
    <2>1. worker[w].pc \in Working /\ "saving" \in Working
        BY <1>6 DEF Answered, Working
    <2>2. /\ jobs[worker[w].job].status = "RUNNING"
          /\ jobs[worker[w].job].owner = w
          /\ jobs[worker[w].job].age = worker[w].age
        BY <1>1, <2>1 DEF TimingInvariant, JobsInHand, Mine
    <2>3. MoveTo(w, "saving") /\ jobs' = jobs /\ kills' = kills
        BY <1>6, <2>2 DEF Answered, Mine
    <2>4. worker[w].age <= LatestStart("saving")
        <3>1. CASE worker[w].pc = "asking"
            BY <1>2, <3>1, TimingAssumption DEF TimeoutsFit, Limit, LatestStart
        <3>2. CASE worker[w].pc \in {"verifying", "charging"}
            BY <1>2, <3>2, TimingAssumption DEF TimeoutsFit, Limit, LatestStart
        <3> QED BY <1>6, <3>1, <3>2 DEF Answered, Calling
    <2> QED BY <1>0, <1>1, <2>1, <2>2, <2>3, <2>4, MovingKeepsInvariant
<1> QED BY <1>4, <1>5, <1>6

(* A moment later every clock shows one more, and nobody is late. *)
LEMMA TickStep ==
    ASSUME TimeoutsFit, TimingInvariant, Tick PROVE TimingInvariant'
<1>0. /\ jobs \in [Jobs -> JobRow]
      /\ worker \in [Workers -> WorkerState]
      /\ kills \in Nat
    BY DEF TimingInvariant, TimingTypeOK
<1>1. ASSUME NEW n \in Nat PROVE Older(n) \in Nat /\ (n <= WORKER_LEASE_TIMEOUT => Older(n) = n + 1)
    BY TimingAssumption DEF Older
<1>2. ASSUME NEW j \in Jobs
      PROVE  /\ jobs'[j] \in JobRow
             /\ jobs'[j].status = jobs[j].status /\ jobs'[j].owner = jobs[j].owner
             /\ jobs[j].status = "RUNNING" => jobs'[j].age = Older(jobs[j].age)
    <2>1. jobs[j] \in JobRow BY <1>0
    <2>2. jobs[j].age \in Nat BY <2>1 DEF JobRow
    <2>3. Older(jobs[j].age) \in Nat BY <1>1, <2>2
    <2>4. jobs'[j] = [jobs[j] EXCEPT
                        !.age = IF jobs[j].status = "RUNNING" THEN Older(jobs[j].age)
                                ELSE jobs[j].age]
        BY <2>1 DEF Tick, JobRow
    <2> QED BY <2>1, <2>2, <2>3, <2>4 DEF JobRow
<1>3. ASSUME NEW w \in Workers
      PROVE  /\ worker'[w] \in WorkerState
             /\ worker'[w].pc = worker[w].pc /\ worker'[w].job = worker[w].job
             /\ worker[w].pc # "idle" => /\ worker'[w].age = Older(worker[w].age)
                                         /\ worker'[w].spent = worker[w].spent + 1
    <2>1. worker[w] \in WorkerState BY <1>0
    <2>2. worker[w].age \in Nat /\ worker[w].spent \in Nat BY <2>1 DEF WorkerState
    <2>3. Older(worker[w].age) \in Nat /\ worker[w].spent + 1 \in Nat BY <1>1, <2>2
    <2>4. worker'[w] = IF worker[w].pc = "idle" THEN worker[w]
                       ELSE [worker[w] EXCEPT !.age = Older(worker[w].age),
                                              !.spent = worker[w].spent + 1]
        BY <2>1 DEF Tick, WorkerState
    <2> QED BY <2>1, <2>3, <2>4 DEF WorkerState
<1>4. TimingTypeOK'
    <2>1. jobs' \in [Jobs -> JobRow] BY <1>2 DEF Tick
    <2>2. worker' \in [Workers -> WorkerState] BY <1>3 DEF Tick
    <2> QED BY <1>0, <2>1, <2>2 DEF Tick, TimingTypeOK
<1>5. OneEach' BY <1>3 DEF TimingInvariant, OneEach
<1>6. "idle" \notin Busy BY DEF Busy, Working, Calling
<1>7. JobsInHand'
    <2> SUFFICES ASSUME NEW w \in Workers, worker'[w].pc \in Busy
                 PROVE  /\ worker'[w].job \in Jobs
                        /\ worker'[w].pc \in Working =>
                             /\ Mine(w)'.status = "RUNNING"
                             /\ Mine(w)'.owner = w
                             /\ Mine(w)'.age = worker'[w].age
        BY DEF JobsInHand
    <2>1. worker[w].pc \in Busy /\ worker'[w].job = worker[w].job BY <1>3
    <2>2. worker[w].job \in Jobs BY <2>1, InHand
    <2>3. Mine(w)' = jobs'[worker[w].job] BY <2>1 DEF Mine
    <2>4. worker[w].pc # "idle" BY <2>1, <1>6
    <2> QED BY <1>2, <1>3, <2>1, <2>2, <2>3, <2>4 DEF TimingInvariant, JobsInHand, Mine
<1>8. OnSchedule'
    <2> SUFFICES ASSUME NEW w \in Workers, worker'[w].pc \in Busy
                 PROVE  /\ worker'[w].spent <= Limit(worker'[w].pc)
                        /\ worker'[w].age <= LatestStart(worker'[w].pc) + worker'[w].spent
        BY DEF OnSchedule
    <2>1. worker[w].pc \in Busy /\ worker[w].pc # "idle" BY <1>3, <1>6
    <2>2. /\ worker[w].spent \in Nat /\ worker[w].age \in Nat
          /\ worker[w].age <= WORKER_LEASE_TIMEOUT
        BY <2>1, ScheduleFits DEF TimingInvariant
    <2>3. worker[w].spent < Limit(worker[w].pc) BY <2>1 DEF Tick
    <2>4. worker[w].age <= LatestStart(worker[w].pc) + worker[w].spent
        BY <2>1 DEF TimingInvariant, OnSchedule
    <2>5. Limit(worker[w].pc) \in Int /\ LatestStart(worker[w].pc) \in Int
        BY TimingAssumption DEF Limit, LatestStart
    <2>6. worker'[w].spent = worker[w].spent + 1 /\ worker'[w].age = worker[w].age + 1
          /\ worker'[w].pc = worker[w].pc
        BY <1>1, <1>3, <2>1, <2>2
    <2> QED BY <2>2, <2>3, <2>4, <2>5, <2>6
<1> QED BY <1>4, <1>5, <1>7, <1>8 DEF TimingInvariant

LEMMA StepInvariant ==
    ASSUME TimeoutsFit, TimingInvariant, [Next]_vars PROVE TimingInvariant'
<1>1. CASE UNCHANGED vars
    BY <1>1 DEF vars, TimingInvariant, TimingTypeOK, JobsInHand, OneEach, OnSchedule, Mine
<1>2. CASE Tick BY <1>2, TickStep
<1>3. CASE \E j \in Jobs : OpenCase(j) \/ CancelPending(j)
    BY <1>3, RequestSteps
<1>4. CASE \E w \in Workers : WorkerStep(w) \/ Kill(w)
    BY <1>4, ClaimStep, LeavingSteps, MovingSteps DEF WorkerStep
<1> QED BY <1>1, <1>2, <1>3, <1>4 DEF Next

-----------------------------------------------------------------------------
(* The schedule of a claim whose calls and waits take no longer than fits: *)
(* what a worker has in hand is its own and nobody else's, and it gets to  *)
(* each of its calls and to its last transaction in time.                  *)
THEOREM TimingInvariantHolds ==
    ASSUME TimeoutsFit PROVE Spec => []TimingInvariant
<1>1. Init => TimingInvariant BY InitInvariant
<1>2. TimingInvariant /\ [Next]_vars => TimingInvariant' BY StepInvariant
<1> QED BY <1>1, <1>2, PTL DEF Spec

(* No lease runs out under a live worker, if the times that calls and      *)
(* waits really take fit; settings.py neither bounds nor checks those.     *)
THEOREM LeaseOutlastsWorkHolds ==
    ASSUME TimeoutsFit PROVE Spec => []LeaseOutlastsWork
<1>1. TimingInvariant => LeaseOutlastsWork BY InvariantImpliesOutlasts
<1> QED BY <1>1, TimingInvariantHolds, PTL
=============================================================================
