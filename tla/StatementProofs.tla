-------------------------- MODULE StatementProofs --------------------------
(***************************************************************************)
(* The handlers statement by statement: proofs about the row locks.        *)
(***************************************************************************)
EXTENDS StatementInvariant, RecoveryEngineProofs

-----------------------------------------------------------------------------
(* Rows and locks. *)

LEMMA RowsDiffer ==
  /\ \A m, n, r, s : Lock(m, r) = Lock(n, s) <=> m = n /\ r = s
  /\ \A i, k : EventRow(i) = EventRow(k) <=> i = k
  /\ \A p, q : PaymentRowOf(p) = PaymentRowOf(q) <=> p = q
  /\ \A c, d : CaseRowOf(c) = CaseRowOf(d) <=> c = d
  /\ \A i, j : JobRowOf(i) = JobRowOf(j) <=> i = j
  /\ \A c, d, m, n : AttemptRow(c, m) = AttemptRow(d, n) <=> c = d /\ m = n
  /\ \A x, y : /\ EventRow(x) # PaymentRowOf(y) /\ EventRow(x) # CaseRowOf(y)
               /\ EventRow(x) # JobRowOf(y) /\ PaymentRowOf(x) # CaseRowOf(y)
               /\ PaymentRowOf(x) # JobRowOf(y) /\ CaseRowOf(x) # JobRowOf(y)
  /\ \A x, c, n : /\ AttemptRow(c, n) # EventRow(x) /\ AttemptRow(c, n) # PaymentRowOf(x)
                  /\ AttemptRow(c, n) # CaseRowOf(x) /\ AttemptRow(c, n) # JobRowOf(x)
<1>1. \A m, n, r, s : Lock(m, r) = Lock(n, s) <=> m = n /\ r = s
  BY DEF Lock
<1>2. QED
  BY <1>1 DEF EventRow, PaymentRowOf, CaseRowOf, JobRowOf, AttemptRow

(* Whoever has one of these locks on a row may write it. *)
Locked(t, row) == Holds(t, "update", row) \/ Holds(t, "change", row)

(* Nobody else has a lock that would let them write it, and a row that is  *)
(* locked FOR UPDATE is not referred to.                                   *)
LEMMA LockedByOne ==
  ASSUME LocksExclude, NEW t \in Tx, NEW u \in Tx, t # u, NEW row
  PROVE  /\ ~(Locked(t, row) /\ Locked(u, row))
         /\ ~(Holds(t, "update", row) /\ Holds(u, "refer", row))
<1>1. \A l \in tx[t].held, m \in tx[u].held :
          l.row = m.row => Compatible(l.mode, m.mode)
  BY DEF LocksExclude
<1>2. \A m, n \in LockMode :
         Lock(m, row) \in tx[t].held /\ Lock(n, row) \in tx[u].held => Compatible(m, n)
  <2> TAKE m \in LockMode, n \in LockMode
  <2>1. Lock(m, row).row = row /\ Lock(n, row).row = row
        /\ Lock(m, row).mode = m /\ Lock(n, row).mode = n
    BY DEF Lock
  <2>2. QED
    BY <1>1, <2>1
<1>3. QED
  BY <1>2 DEF Locked, Holds, Compatible, LockMode

(* A step that gives t at most a lock that was free. *)
LEMMA StillExclusive ==
  ASSUME LocksExclude, NEW t \in Tx, NEW l,
         \A u \in Tx \ {t} : tx'[u] = tx[u],
         \/ tx'[t].held \subseteq tx[t].held
         \/ tx'[t].held \subseteq tx[t].held \cup {l} /\ LockIsFree(t, l)
  PROVE  LocksExclude'
<1> SUFFICES ASSUME NEW u \in Tx, NEW v \in Tx, u # v,
                    NEW a \in tx'[u].held, NEW b \in tx'[v].held, a.row = b.row
             PROVE  Compatible(a.mode, b.mode)
  BY DEF LocksExclude, Tx
<1>1. CASE a \in tx[u].held /\ b \in tx[v].held
  BY <1>1 DEF LocksExclude
<1>2. CASE a = l /\ u = t /\ LockIsFree(t, l)
  <2>1. b \in tx[v].held
    BY <1>2
  <2>2. QED
    BY <1>2, <2>1 DEF LockIsFree, Blocks, Compatible
<1>3. CASE b = l /\ v = t /\ LockIsFree(t, l)
  <2>1. a \in tx[u].held
    BY <1>3
  <2>2. QED
    BY <1>3, <2>1 DEF LockIsFree, Blocks, Compatible
<1>4. QED
  BY <1>1, <1>2, <1>3

-----------------------------------------------------------------------------
(* What the steps of others leave to transaction u. *)

SameReferences(j) ==
    /\ jobs'[j].case = jobs[j].case
    /\ jobs'[j].type = jobs[j].type
    /\ jobs[j].attempt # 0 \/ jobs[j].type = "EVALUATE_RECOVERY" =>
          jobs'[j].attempt = jobs[j].attempt /\ jobs'[j].count = jobs[j].count

(* No row is deleted, and what rows refer to does not change. *)
RowsKept ==
    /\ \A c \in CaseIds : CaseExists(c) =>
          CaseExists(c)' /\ cases'[c].payment = cases[c].payment
    /\ \A j \in JobIds : JobExists(j) => JobExists(j)' /\ SameReferences(j)

(* Rows that u has locked for writing are as they were. *)
LockedRowsKept(u) ==
    /\ \A i \in EventIds : Holds(u, "update", EventRow(i)) =>
          (i \in handled' <=> i \in handled)
    /\ \A p \in PaymentIds : Locked(u, PaymentRowOf(p)) => payments'[p] = payments[p]
    /\ \A p \in PaymentIds : Holds(u, "update", PaymentRowOf(p)) =>
          ActiveCases(p)' \subseteq ActiveCases(p)
    /\ \A c \in CaseIds : CaseExists(c) /\ Locked(u, CaseRowOf(c)) =>
          cases'[c] = cases[c]
    /\ \A j \in JobIds : JobExists(j) /\ Locked(u, JobRowOf(j)) =>
          \/ jobs'[j] = jobs[j]
          \/ /\ jobs[j].status = "RUNNING" /\ ~jobs[j].expired
             /\ jobs'[j] = [jobs[j] EXCEPT !.expired = TRUE]

Undisturbed(u) ==
    /\ tx'[u] = tx[u]
    /\ u \in Workers => worker'[u] = worker[u]
    /\ \A p \in PaymentIds : Paid(p) => Paid(p)'
    /\ RowsKept
    /\ LockedRowsKept(u)

(* Then u knows of the rows what it knew. *)
LEMMA TakesKept ==
  ASSUME NEW u, tx'[u] = tx[u]
  PROVE  /\ \A m, r : Holds(u, m, r)' <=> Holds(u, m, r)
         /\ \A m, r : Takes(u, m, r)' <=> Takes(u, m, r)
         /\ CasesTaken(u)' = CasesTaken(u)
         /\ JobsTaken(u)' = JobsTaken(u)
BY DEF Holds, Takes, CasesTaken, JobsTaken, CaseRowOf, JobRowOf, Lock

LEMMA WebhookStageKept ==
  ASSUME NEW u, WebhookStage(u), Undisturbed(u)
  PROVE  WebhookStage(u)'
<1> DEFINE e == tx[u].event
           p == e.payment
<1>1. tx'[u] = tx[u]
  BY DEF Undisturbed
<1>2. /\ \A m, r : Holds(u, m, r)' <=> Holds(u, m, r)
      /\ \A m, r : Takes(u, m, r)' <=> Takes(u, m, r)
      /\ CasesTaken(u)' = CasesTaken(u)
      /\ JobsTaken(u)' = JobsTaken(u)
  BY <1>1, TakesKept
<1>3. e \in Events /\ e.id \in EventIds /\ p \in PaymentIds
  BY EventsAssumption DEF WebhookStage, WebhookEvent
<1>4. tx[u].at # "dedupe" => e.id \notin handled'
  BY <1>3 DEF WebhookStage, Undisturbed, LockedRowsKept
<1>5. tx[u].at \in {"insert", "cancel", "save"} =>
         /\ payments'[p] = payments[p]
         /\ ActiveCases(p)' \subseteq ActiveCases(p)
  BY <1>3 DEF WebhookStage, Undisturbed, LockedRowsKept, Locked
<1>6. tx[u].at \in {"insert", "cancel", "save"} => Applicable(e)'
  BY <1>1, <1>5 DEF WebhookStage, Applicable, Terminal
<1>7. tx[u].at \in {"cancel", "save"} =>
         /\ \A c \in ActiveCases(p)' : Takes(u, "update", CaseRowOf(c))
         /\ \A c \in CasesTaken(u) : CaseExists(c)' /\ cases'[c].payment = p
  <2>1. CasesTaken(u) \subseteq CaseIds
    BY DEF CasesTaken
  <2>2. QED
    BY <1>5, <2>1 DEF WebhookStage, Undisturbed, RowsKept
<1>8. /\ tx[u].at = "insert" => e.type = "payment.failed" /\ ActiveCases(p)' = {}
      /\ tx[u].at \in {"cancel", "save"} => e.type = "payment.succeeded"
  BY <1>5 DEF WebhookStage
<1>9. \A j \in JobsTaken(u) : JobExists(j)'
  BY DEF WebhookStage, JobsTaken, Undisturbed, RowsKept
<1>10. QED
  BY <1>1, <1>2, <1>4, <1>6, <1>7, <1>8, <1>9
     DEF WebhookStage, CaseRowOf, EventRow, PaymentRowOf

LEMMA AdminStageKept ==
  ASSUME NEW u, AdminStage(u), Undisturbed(u), RowsRefer
  PROVE  AdminStage(u)'
<1> DEFINE c == tx[u].case
           p == cases[c].payment
<1>1. tx'[u] = tx[u]
  BY DEF Undisturbed
<1>2. /\ \A m, r : Holds(u, m, r)' <=> Holds(u, m, r)
      /\ \A m, r : Takes(u, m, r)' <=> Takes(u, m, r)
      /\ CasesTaken(u)' = CasesTaken(u)
      /\ JobsTaken(u)' = JobsTaken(u)
  BY <1>1, TakesKept
<1>3. c \in CaseIds /\ CaseExists(c) /\ p \in PaymentIds
  BY DEF AdminStage, RowsRefer
<1>4. CaseExists(c)' /\ cases'[c].payment = p
  BY <1>3 DEF Undisturbed, RowsKept
<1>5. tx[u].at # "payment" => cases'[c] = cases[c]
  BY <1>3 DEF AdminStage, Undisturbed, LockedRowsKept, Locked
<1>6. tx[u].at \in {"save", "insert"} => payments'[p] = payments[p]
  BY <1>3 DEF AdminStage, Undisturbed, LockedRowsKept, Locked
<1>7. \A j \in JobsTaken(u) : JobExists(j)'
  BY DEF AdminStage, JobsTaken, Undisturbed, RowsKept
<1>8. QED
  BY <1>1, <1>2, <1>3, <1>4, <1>5, <1>6, <1>7
     DEF AdminStage, Paid, ActiveCase, CaseExists, CaseRowOf, PaymentRowOf

LEMMA ClaimStageKept ==
  ASSUME NEW u, ClaimStage(u), Undisturbed(u), RowsRefer
  PROVE  ClaimStage(u)'
<1> DEFINE j == tx[u].job
           c == jobs[j].case
<1>1. tx'[u] = tx[u] /\ worker'[u] = worker[u]
  BY DEF Undisturbed, ClaimStage
<1>2. /\ \A m, r : Holds(u, m, r)' <=> Holds(u, m, r)
      /\ \A m, r : Takes(u, m, r)' <=> Takes(u, m, r)
  BY <1>1, TakesKept
<1>3. j \in JobIds /\ JobExists(j) /\ c \in CaseIds /\ CaseExists(c)
  BY DEF ClaimStage, RowsRefer
<1>4. /\ JobExists(j)' /\ jobs'[j].case = c
      /\ cases'[c].payment = cases[c].payment
  BY <1>3 DEF Undisturbed, RowsKept, SameReferences
<1>5. jobs'[j] = jobs[j]
  BY <1>3 DEF ClaimStage, Undisturbed, LockedRowsKept, Locked, Claimable
<1>6. QED
  BY <1>1, <1>2, <1>3, <1>4, <1>5
     DEF ClaimStage, Claimable, PaymentOf, CaseRowOf, PaymentRowOf, JobRowOf

LEMMA OutcomesKept ==
  ASSUME NEW u, tx'[u] = tx[u], worker'[u] = worker[u],
         jobs'[Job(u)].count = jobs[Job(u)].count
  PROVE  /\ JobOutcome(u)' = JobOutcome(u)
         /\ AttemptOutcome(u)' = AttemptOutcome(u)
         /\ CaseOutcome(u)' = CaseOutcome(u)
         /\ NextJob(u)' = NextJob(u)
<1>1. /\ JobOutcome(u)' = JobOutcome(u)
      /\ AttemptOutcome(u)' = AttemptOutcome(u)
  BY DEF JobOutcome, AttemptOutcome
<1>2. GivesUp(u)' <=> GivesUp(u)
  BY <1>1 DEF GivesUp, AttemptsLeft, Job
<1>3. QED
  BY <1>1, <1>2 DEF CaseOutcome, NextJob

(* A job in hand keeps its number and its count. *)
LEMMA JobInHandKept ==
  ASSUME RowsAndWorkers, RowsKept, NEW u \in Workers, worker[u].pc # "idle"
  PROVE  /\ Job(u) \in JobIds /\ JobExists(Job(u))
         /\ jobs'[Job(u)].case = jobs[Job(u)].case
         /\ jobs'[Job(u)].count = jobs[Job(u)].count
         /\ jobs'[Job(u)].attempt = jobs[Job(u)].attempt
         /\ jobs[Job(u)].case \in CaseIds /\ CaseExists(jobs[Job(u)].case)
         /\ PaymentOf(Job(u)) \in PaymentIds
         /\ cases'[jobs[Job(u)].case].payment = cases[jobs[Job(u)].case].payment
<1>1. /\ Job(u) \in JobIds /\ JobExists(Job(u))
      /\ jobs[Job(u)].case \in CaseIds /\ CaseExists(jobs[Job(u)].case)
      /\ PaymentOf(Job(u)) \in PaymentIds
  BY JobInHand
<1>2. worker[u].pc \in WorkerPc
  BY DEF RowsAndWorkers, TypeOK, WorkerTypeOK, WorkerState
<1>3. jobs[Job(u)].attempt # 0 \/ jobs[Job(u)].type = "EVALUATE_RECOVERY"
  BY <1>2 DEF RowsAndWorkers, WorkersAreSound, WorkerPc
<1>4. QED
  BY <1>1, <1>3 DEF RowsKept, SameReferences

LEMMA FinalizeStageKept ==
  ASSUME NEW u, FinalizeStage(u), Undisturbed(u), RowsAndWorkers
  PROVE  FinalizeStage(u)'
<1> DEFINE j == tx[u].job
           c == jobs[j].case
           p == cases[c].payment
<1>1. u \in Workers /\ tx'[u] = tx[u] /\ worker'[u] = worker[u]
      /\ worker[u].pc # "idle" /\ j = Job(u)
  BY DEF Undisturbed, FinalizeStage, FinalizePc
<1>2. /\ \A m, r : Holds(u, m, r)' <=> Holds(u, m, r)
      /\ \A m, r : Takes(u, m, r)' <=> Takes(u, m, r)
  BY <1>1, TakesKept
<1>3. /\ j \in JobIds /\ jobs'[j].case = c /\ jobs'[j].count = jobs[j].count
      /\ c \in CaseIds /\ p \in PaymentIds /\ cases'[c].payment = p
  BY <1>1, JobInHandKept DEF Undisturbed, PaymentOf
<1>4. /\ AttemptOutcome(u)' = AttemptOutcome(u)
      /\ CaseOutcome(u)' = CaseOutcome(u)
      /\ NextJob(u)' = NextJob(u)
  BY <1>1, <1>3, OutcomesKept
<1>5. Holds(u, "update", PaymentRowOf(p)) => payments'[p] = payments[p]
  BY <1>3 DEF Undisturbed, LockedRowsKept, Locked
<1>6. Paid(p) => payments'[p].status = "SUCCEEDED"
  BY <1>3 DEF Undisturbed, Paid
<1>7. PaymentOf(j) = p /\ PaymentOf(j)' = p
  BY <1>1, <1>3 DEF PaymentOf
<1>8. Paid(PaymentOf(j)) => Paid(PaymentOf(j))'
  BY <1>6, <1>7 DEF Paid
<1>9. Holds(u, "update", PaymentRowOf(p)) => (Paid(PaymentOf(j))' <=> Paid(PaymentOf(j)))
  BY <1>5, <1>7 DEF Paid
<1>10. QED
  BY <1>1, <1>2, <1>3, <1>4, <1>7, <1>8, <1>9
     DEF FinalizeStage, CaseRowOf, PaymentRowOf, AttemptRow, Job

LEMMA StageKept ==
  ASSUME RowsAndWorkers, NEW u, Stage(u), Undisturbed(u)
  PROVE  Stage(u)'
<1>1. tx'[u] = tx[u] /\ RowsRefer
  BY DEF Undisturbed, RowsAndWorkers
<1>2. QED
  BY <1>1, WebhookStageKept, AdminStageKept, ClaimStageKept, FinalizeStageKept
     DEF Stage, NoTx

(* A step that changes no row disturbs nobody. *)
LEMMA SilentStep ==
  ASSUME NEW t, \A u \in Tx \ {t} : tx'[u] = tx[u], UNCHANGED vars
  PROVE  \A u \in Tx \ {t} : Undisturbed(u)
<1>1. /\ payments' = payments /\ cases' = cases /\ jobs' = jobs
      /\ handled' = handled /\ worker' = worker
  BY DEF vars, dbVars, workerVars
<1>2. RowsKept
  BY <1>1 DEF RowsKept, SameReferences, CaseExists, JobExists
<1>3. \A u : LockedRowsKept(u)
  BY <1>1 DEF LockedRowsKept, ActiveCases, ActiveCase, CaseExists
<1>4. QED
  BY <1>1, <1>2, <1>3 DEF Undisturbed, Paid

(* A step of t that writes only rows t has locked, and makes a case active *)
(* only if t has locked its payment.                                       *)
WritesOwn(t) ==
    /\ \A u \in Tx \ {t} : tx'[u] = tx[u]
    /\ \A w \in Workers \ {t} : worker'[w] = worker[w]
    /\ \A i \in EventIds : ~(i \in handled' <=> i \in handled)
                              => Holds(t, "update", EventRow(i))
    /\ \A p \in PaymentIds : payments'[p] # payments[p] => Locked(t, PaymentRowOf(p))
    /\ \A p \in PaymentIds : Paid(p) => Paid(p)'
    /\ \A p \in PaymentIds : \/ ActiveCases(p)' \subseteq ActiveCases(p)
                              \/ Holds(t, "update", PaymentRowOf(p))
    /\ \A c \in CaseIds : CaseExists(c) /\ cases'[c] # cases[c]
                              => Locked(t, CaseRowOf(c))
    /\ \A j \in JobIds : JobExists(j) /\ jobs'[j] # jobs[j]
                              => Locked(t, JobRowOf(j))
    /\ RowsKept

LEMMA OwnWritesDisturbNobody ==
  ASSUME LocksExclude, NEW t \in Tx, WritesOwn(t)
  PROVE  \A u \in Tx \ {t} : Undisturbed(u)
<1> TAKE u \in Tx \ {t}
<1>1. \A row : ~(Locked(t, row) /\ Locked(u, row))
  BY LockedByOne
<1>2. LockedRowsKept(u)
  BY <1>1 DEF WritesOwn, LockedRowsKept, Locked
<1>3. QED
  BY <1>2 DEF WritesOwn, Undisturbed

(* The parts of the invariant after a step of t. *)
LEMMA InvKept ==
  ASSUME StatementInv, NEW t \in Tx, \A u \in Tx \ {t} : Undisturbed(u),
         Stage(t)', RowsAndWorkers', LocksTypeOK', LocksExclude'
  PROVE  StatementInv'
<1>1. \A u \in Tx \ {t} : Stage(u)'
  BY StageKept DEF StatementInv, Stages
<1>2. QED
  BY <1>1 DEF StatementInv, Stages, Tx

(* What t holds and takes after it has asked for more locks. *)
LEMMA Asked ==
  ASSUME LocksTypeOK, NEW t \in Tx, NEW locks \in SUBSET Locks, NEW s \in Statement,
         tx[t].want = {}, Ask(t, locks, s)
  PROVE  /\ tx' \in [Tx -> TxState]
         /\ \A u \in Tx \ {t} : tx'[u] = tx[u]
         /\ tx'[t].op = tx[t].op /\ tx'[t].at = s /\ tx'[t].job = tx[t].job
         /\ tx'[t].case = tx[t].case /\ tx'[t].event = tx[t].event
         /\ tx'[t].answer = tx[t].answer /\ tx'[t].found = tx[t].found
         /\ tx'[t].held = tx[t].held
         /\ tx'[t].held \cup tx'[t].want = tx[t].held \cup locks
         /\ \A m, r : Holds(t, m, r)' <=> Holds(t, m, r)
         /\ \A m, r : Takes(t, m, r) <=> Holds(t, m, r)
         /\ \A m, r : Takes(t, m, r)' <=> Holds(t, m, r) \/ Lock(m, r) \in locks
<1>1. tx \in [Tx -> TxState] /\ tx[t] \in TxState
  BY DEF LocksTypeOK
<1>2. tx' = [tx EXCEPT ![t] = [tx[t] EXCEPT !.want = locks \ tx[t].held, !.at = s]]
  BY <1>1 DEF Ask
<1>3. [tx[t] EXCEPT !.want = locks \ tx[t].held, !.at = s] \in TxState
  BY <1>1 DEF TxState
<1>4. tx'[t] = [tx[t] EXCEPT !.want = locks \ tx[t].held, !.at = s]
  BY <1>1, <1>2
<1>5. /\ tx'[t].op = tx[t].op /\ tx'[t].at = s /\ tx'[t].job = tx[t].job
      /\ tx'[t].case = tx[t].case /\ tx'[t].event = tx[t].event
      /\ tx'[t].answer = tx[t].answer /\ tx'[t].found = tx[t].found
      /\ tx'[t].held = tx[t].held /\ tx'[t].want = locks \ tx[t].held
  BY <1>1, <1>4 DEF TxState
<1>6. QED
  BY <1>1, <1>2, <1>3, <1>4, <1>5 DEF Holds, Takes, Lock

(* A silent step of t that opens, goes on with or closes its transaction. *)
LEMMA SilentKeepsInv ==
  ASSUME StatementInv, NEW t \in Tx, UNCHANGED vars, Stage(t)',
         tx' \in [Tx -> TxState], acked' \in SUBSET EventIds,
         \A u \in Tx \ {t} : tx'[u] = tx[u],
         tx'[t].held \subseteq tx[t].held
  PROVE  StatementInv'
<1>1. \A u \in Tx \ {t} : Undisturbed(u)
  BY SilentStep
<1>2. RowsAndWorkers'
  BY StepKeepsRowsAndWorkers DEF StatementInv
<1>3. LocksExclude'
  BY StillExclusive DEF StatementInv
<1>4. LocksTypeOK'
  BY DEF LocksTypeOK
<1>5. QED
  BY <1>1, <1>2, <1>3, <1>4, InvKept

LEMMA CloseKeepsStage ==
  ASSUME LocksTypeOK, NEW t \in Tx, Close(t)
  PROVE  /\ Stage(t)' /\ tx' \in [Tx -> TxState] /\ tx'[t] = NoTx
         /\ tx'[t].held = {}
         /\ \A u \in Tx \ {t} : tx'[u] = tx[u]
<1>1. tx \in [Tx -> TxState] /\ NoTx \in TxState
  BY DEF LocksTypeOK, TxState, NoTx, Statement
<1>2. tx'[t] = NoTx /\ tx' \in [Tx -> TxState]
      /\ \A u \in Tx \ {t} : tx'[u] = tx[u]
  BY <1>1 DEF Close
<1>3. QED
  BY <1>2 DEF Stage, NoTx

LEMMA SilentCloseKeepsInv ==
  ASSUME StatementInv, NEW t \in Tx, UNCHANGED vars, Close(t),
         acked' \in SUBSET EventIds
  PROVE  StatementInv'
<1>1. /\ Stage(t)' /\ tx' \in [Tx -> TxState] /\ tx'[t].held = {}
      /\ \A u \in Tx \ {t} : tx'[u] = tx[u]
  BY CloseKeepsStage DEF StatementInv
<1>2. QED
  BY <1>1, SilentKeepsInv

(* Locks of webhooks and administrators. *)
LEMMA LockTypes ==
  /\ \A i \in EventIds, m \in LockMode : Lock(m, EventRow(i)) \in Locks
  /\ \A p \in PaymentIds, m \in LockMode : Lock(m, PaymentRowOf(p)) \in Locks
  /\ \A c \in CaseIds, m \in LockMode : Lock(m, CaseRowOf(c)) \in Locks
  /\ \A j \in JobIds, m \in LockMode : Lock(m, JobRowOf(j)) \in Locks
  /\ \A c \in CaseIds, n \in AttemptNos, m \in LockMode :
        Lock(m, AttemptRow(c, n)) \in Locks
BY DEF Locks, Lock, Rows

-----------------------------------------------------------------------------
(* Webhook deliveries. *)

LEMMA DeliverKeepsInv ==
  ASSUME StatementInv, NEW r \in Requests, Deliver(r)
  PROVE  StatementInv'
<1>1. PICK e \in Events :
         /\ e.type \in SupportedTypes /\ e.terms \in AcceptedTerms
         /\ Open(r, [NoTx EXCEPT !.op = "webhook", !.event = e, !.at = "dedupe",
                                 !.want = {Lock("update", EventRow(e.id))}])
  BY DEF Deliver
<1> DEFINE x == [NoTx EXCEPT !.op = "webhook", !.event = e, !.at = "dedupe",
                             !.want = {Lock("update", EventRow(e.id))}]
<1>2. r \in Tx /\ UNCHANGED <<vars, acked>> /\ tx \in [Tx -> TxState]
      /\ acked \in SUBSET EventIds
  BY DEF Deliver, Tx, StatementInv, LocksTypeOK
<1>3. e.id \in EventIds
  BY EventsAssumption DEF WebhookEvent
<1>4. Lock("update", EventRow(e.id)) \in Locks
  BY <1>3, LockTypes DEF LockMode
<1>5. x \in TxState
  BY <1>4 DEF TxState, NoTx, Statement
<1>6. tx' = [tx EXCEPT ![r] = x]
  BY <1>1 DEF Open
<1>7. /\ tx'[r] = x /\ tx' \in [Tx -> TxState]
      /\ \A u \in Tx \ {r} : tx'[u] = tx[u]
  BY <1>2, <1>5, <1>6
<1>8. /\ x.op = "webhook" /\ x.event = e /\ x.at = "dedupe"
      /\ x.held = {} /\ x.want = {Lock("update", EventRow(e.id))}
  BY DEF NoTx
<1> HIDE DEF x
<1>9. /\ \A m, row : Takes(r, m, row)' <=> Lock(m, row) = Lock("update", EventRow(e.id))
  BY <1>7, <1>8 DEF Takes, Lock
<1>10. CasesTaken(r)' = {} /\ JobsTaken(r)' = {}
  BY <1>9, RowsDiffer DEF CasesTaken, JobsTaken
<1>11. WebhookStage(r)'
  BY <1>1, <1>7, <1>8, <1>9, <1>10 DEF WebhookStage, EventRow
<1>12. Stage(r)'
  BY <1>7, <1>8, <1>11 DEF Stage
<1>13. QED
  BY <1>2, <1>7, <1>8, <1>12, SilentKeepsInv

(* What a delivery knows when it is to execute a statement. *)
LEMMA WebhookKnows ==
  ASSUME StatementInv, NEW r \in Requests, tx[r].op = "webhook"
  PROVE  /\ WebhookStage(r) /\ r \in Tx /\ tx[r] \in TxState /\ LocksTypeOK
         /\ tx[r].event \in Events /\ tx[r].event.id \in EventIds
         /\ tx[r].event.payment \in PaymentIds /\ tx[r].event.terms \in Terms
         /\ acked \in SUBSET EventIds /\ handled \in SUBSET EventIds
<1>1. r \in Tx /\ WebhookStage(r)
  BY DEF StatementInv, Stages, Stage, Tx
<1>2. QED
  BY <1>1, EventsAssumption
     DEF WebhookStage, WebhookEvent, StatementInv, LocksTypeOK, RowsAndWorkers, TypeOK, DbTypeOK

LEMMA DedupeKeepsInv ==
  ASSUME StatementInv, NEW r \in Requests, Dedupe(r)
  PROVE  StatementInv'
<1> DEFINE e == tx[r].event
           x == [tx[r] EXCEPT !.want = PaymentLocks(e), !.at = "apply",
                              !.found = payments[e.payment].status # "ABSENT"]
<1>1. /\ tx[r].op = "webhook" /\ tx[r].at = "dedupe" /\ tx[r].want = {}
      /\ UNCHANGED vars
  BY DEF Dedupe, At
<1>2. /\ WebhookStage(r) /\ r \in Tx /\ tx[r] \in TxState /\ LocksTypeOK
      /\ e.id \in EventIds /\ e.payment \in PaymentIds
      /\ acked \in SUBSET EventIds
  BY <1>1, WebhookKnows
<1>3. CASE e.id \in handled
  BY <1>1, <1>2, <1>3, SilentCloseKeepsInv DEF Dedupe
<1>4. CASE e.id \notin handled
  <2>1. tx' = [tx EXCEPT ![r] = x] /\ UNCHANGED acked
    BY <1>2, <1>4 DEF Dedupe, LocksTypeOK
  <2>2. PaymentLocks(e) = {Lock("update", PaymentRowOf(e.payment))}
        /\ PaymentLocks(e) \in SUBSET Locks
    BY <1>2, LockTypes DEF PaymentLocks, LockMode
  <2>3. x \in TxState
    BY <1>2, <2>2 DEF TxState, Statement
  <2>4. /\ tx'[r] = x /\ tx' \in [Tx -> TxState]
        /\ \A u \in Tx \ {r} : tx'[u] = tx[u]
    BY <1>2, <2>1, <2>3 DEF LocksTypeOK
  <2>5. /\ x.op = "webhook" /\ x.event = e /\ x.at = "apply"
        /\ x.held = tx[r].held /\ x.want = {Lock("update", PaymentRowOf(e.payment))}
    BY <1>1, <1>2, <2>2 DEF TxState
  <2> HIDE DEF x
  <2>6. \A m, row : Holds(r, m, row)' <=> Holds(r, m, row)
    BY <2>4, <2>5 DEF Holds, Lock
  <2>7. \A m, row : Takes(r, m, row) <=> Holds(r, m, row)
    BY <1>1 DEF Holds, Takes
  <2>8. \A m, row : Takes(r, m, row)' <=>
           Holds(r, m, row) \/ Lock(m, row) = Lock("update", PaymentRowOf(e.payment))
    BY <2>4, <2>5 DEF Takes, Holds, Lock
  <2>9. CasesTaken(r)' = {} /\ JobsTaken(r)' = {}
    <3>1. CasesTaken(r) = {} /\ JobsTaken(r) = {}
      BY <1>1, <1>2 DEF WebhookStage
    <3>2. QED
      BY <3>1, <2>7, <2>8, RowsDiffer DEF CasesTaken, JobsTaken
  <2>10. handled' = handled /\ Holds(r, "update", EventRow(e.id))
    BY <1>1, <1>2, <2>7 DEF WebhookStage, vars, dbVars
  <2>11. /\ e \in Events /\ e.type \in SupportedTypes /\ e.terms \in AcceptedTerms
    BY <1>2 DEF WebhookStage
  <2>12. WebhookStage(r)'
    BY <1>4, <2>4, <2>5, <2>6, <2>8, <2>9, <2>10, <2>11
       DEF WebhookStage, EventRow, PaymentRowOf
  <2>13. Stage(r)'
    BY <2>4, <2>5, <2>12 DEF Stage
  <2>14. QED
    BY <1>1, <1>2, <2>1, <2>4, <2>5, <2>13, SilentKeepsInv
<1>5. QED
  BY <1>3, <1>4

(* A request that commits: its own rows, and sound ones. *)
LEMMA RequestCommitKeepsInv ==
  ASSUME StatementInv, NEW r \in Requests, Close(r), acked' \in SUBSET EventIds,
         DbTypeOK', CasesKept, JobsKept, WritesOwn(r),
         UNCHANGED <<attempts, store, workerVars>>
  PROVE  StatementInv'
<1>1. /\ r \in Tx /\ RowsAndWorkers /\ TypeOK /\ LocksTypeOK /\ LocksExclude
  BY DEF StatementInv, Tx, RowsAndWorkers
<1>2. TypeOK'
  BY <1>1 DEF TypeOK, GatewayTypeOK, WorkerTypeOK, workerVars
<1>3. Quiet
  BY DEF Quiet, AttemptsKept
<1>4. \A v \in Workers : GoesOn(v)
  BY DEF GoesOn, workerVars
<1>5. RowsAndWorkers'
  BY <1>1, <1>2, <1>3, <1>4, QuietKeepsRows, GoingOnIsSound DEF Quiet, RowsAndWorkers
<1>6. \A u \in Tx \ {r} : Undisturbed(u)
  BY <1>1, OwnWritesDisturbNobody
<1>7. /\ Stage(r)' /\ tx' \in [Tx -> TxState] /\ tx'[r].held = {}
      /\ \A u \in Tx \ {r} : tx'[u] = tx[u]
  BY <1>1, CloseKeepsStage
<1>8. LocksExclude'
  BY <1>1, <1>7, StillExclusive
<1>9. QED
  BY <1>1, <1>5, <1>6, <1>7, <1>8, InvKept DEF LocksTypeOK

(* CasesKept and JobsKept leave the rows that others refer to. *)
LEMMA KeptRows ==
  ASSUME CasesKept, JobsKept
  PROVE  RowsKept
BY DEF CasesKept, JobsKept, RowsKept, SameJob, SameReferences

LEMMA ApplyToTerminalKeepsInv ==
  ASSUME StatementInv, NEW r \in Requests, ApplyToTerminal(r)
  PROVE  StatementInv'
<1> DEFINE e == tx[r].event
<1>1. /\ tx[r].op = "webhook" /\ tx[r].at = "apply" /\ Close(r)
      /\ handled' = handled \cup {e.id} /\ acked' = acked \cup {e.id}
      /\ UNCHANGED <<payments, cases, jobs, attempts, store, workerVars>>
  BY DEF ApplyToTerminal, Applying, At, Commit200
<1>2. /\ WebhookStage(r) /\ r \in Tx /\ LocksTypeOK /\ e.id \in EventIds
      /\ acked \in SUBSET EventIds /\ handled \in SUBSET EventIds
  BY <1>1, WebhookKnows
<1>3. DbTypeOK'
  BY <1>1, <1>2 DEF StatementInv, RowsAndWorkers, TypeOK, DbTypeOK
<1>4. CasesKept /\ JobsKept
  BY <1>1 DEF CasesKept, JobsKept, CaseExists, JobExists, SameJob, StatementInv, RowsAndWorkers, RowsRefer
<1>5. WritesOwn(r)
  <2>1. Holds(r, "update", EventRow(e.id))
    BY <1>1, <1>2 DEF WebhookStage
  <2>2. \A u \in Tx \ {r} : tx'[u] = tx[u]
    BY <1>1, <1>2, CloseKeepsStage
  <2>3. /\ \A p \in PaymentIds : ActiveCases(p)' = ActiveCases(p)
        /\ \A p \in PaymentIds : Paid(p) => Paid(p)'
    BY <1>1 DEF ActiveCases, ActiveCase, CaseExists, Paid
  <2>4. RowsKept
    BY <1>4, KeptRows
  <2>5. QED
    BY <1>1, <2>1, <2>2, <2>3, <2>4 DEF WritesOwn, workerVars
<1>6. QED
  BY <1>1, <1>2, <1>3, <1>4, <1>5, RequestCommitKeepsInv

LEMMA WebhookFailsKeepsInv ==
  ASSUME StatementInv, NEW r \in Requests, WebhookFails(r) \/ InsertFails(r)
  PROVE  StatementInv'
<1>1. Close(r) /\ UNCHANGED <<vars, acked>> /\ r \in Tx /\ acked \in SUBSET EventIds
  BY DEF WebhookFails, InsertFails, Tx, StatementInv, LocksTypeOK
<1>2. QED
  BY <1>1, SilentCloseKeepsInv

(* The locked payment of an event that is applied is written. *)
LEMMA PaymentPut ==
  ASSUME StatementInv, NEW e \in Events, NEW s \in PaymentState, ~Terminal(e.payment),
         PutPayment(e, s)
  PROVE  /\ payments' \in [PaymentIds -> PaymentRow]
         /\ \A p \in PaymentIds : payments'[p] # payments[p] => p = e.payment
         /\ \A p \in PaymentIds : Paid(p) => Paid(p)'
<1>1. /\ payments \in [PaymentIds -> PaymentRow]
      /\ e.payment \in PaymentIds /\ e.terms \in Terms
  BY EventsAssumption DEF StatementInv, RowsAndWorkers, TypeOK, DbTypeOK, WebhookEvent
<1>2. QED
  BY <1>1 DEF PutPayment, PaymentRow, Paid, Terminal

LEMMA RecordsOwnEvent ==
  ASSUME StatementInv, NEW r \in Requests, tx[r].op = "webhook", Commit200(r)
  PROVE  /\ \A i \in EventIds : ~(i \in handled' <=> i \in handled)
                                   => i = tx[r].event.id
         /\ handled' \in SUBSET EventIds /\ acked' \in SUBSET EventIds
         /\ Close(r) /\ \A u \in Tx \ {r} : tx'[u] = tx[u]
<1>1. /\ tx[r].event.id \in EventIds /\ LocksTypeOK /\ r \in Tx
      /\ acked \in SUBSET EventIds /\ handled \in SUBSET EventIds
  BY WebhookKnows
<1>2. QED
  BY <1>1, CloseKeepsStage DEF Commit200

LEMMA ApplyFailureKeepsInv ==
  ASSUME StatementInv, NEW r \in Requests, ApplyFailure(r)
  PROVE  StatementInv'
<1> DEFINE e == tx[r].event
           p == e.payment
<1>1. /\ tx[r].op = "webhook" /\ tx[r].at = "apply" /\ tx[r].want = {}
      /\ Applicable(e) /\ e.type = "payment.failed" /\ ~Terminal(p)
      /\ UNCHANGED <<cases, jobs, attempts, store, workerVars>>
  BY DEF ApplyFailure, Applying, At, Applicable
<1>2. /\ WebhookStage(r) /\ r \in Tx /\ tx[r] \in TxState /\ LocksTypeOK
      /\ e \in Events /\ e.id \in EventIds /\ p \in PaymentIds
      /\ acked \in SUBSET EventIds /\ handled \in SUBSET EventIds
  BY <1>1, WebhookKnows
<1>3. Holds(r, "update", EventRow(e.id)) /\ Holds(r, "update", PaymentRowOf(p))
  BY <1>1, <1>2 DEF WebhookStage, Takes, Holds
<1>4. CASE ActiveCases(p) # {}
  <2>1. PutPayment(e, "FAILED") /\ Commit200(r)
    BY <1>4 DEF ApplyFailure
  <2>2. /\ payments' \in [PaymentIds -> PaymentRow]
        /\ \A q \in PaymentIds : payments'[q] # payments[q] => q = p
        /\ \A q \in PaymentIds : Paid(q) => Paid(q)'
    BY <1>1, <1>2, <2>1, PaymentPut DEF PaymentState
  <2>3. /\ \A i \in EventIds : ~(i \in handled' <=> i \in handled) => i = e.id
        /\ handled' \in SUBSET EventIds /\ acked' \in SUBSET EventIds
        /\ Close(r) /\ \A u \in Tx \ {r} : tx'[u] = tx[u]
    BY <1>1, <2>1, RecordsOwnEvent
  <2>4. DbTypeOK'
    BY <1>1, <2>2, <2>3 DEF StatementInv, RowsAndWorkers, TypeOK, DbTypeOK
  <2>5. CasesKept /\ JobsKept
    BY <1>1 DEF CasesKept, JobsKept, CaseExists, JobExists, SameJob, StatementInv,
                RowsAndWorkers, RowsRefer
  <2>6. RowsKept
    BY <2>5, KeptRows
  <2>7. \A q \in PaymentIds : ActiveCases(q)' = ActiveCases(q)
    BY <1>1 DEF ActiveCases, ActiveCase, CaseExists
  <2>8. WritesOwn(r)
    BY <1>1, <1>3, <2>2, <2>3, <2>6, <2>7 DEF WritesOwn, Locked, workerVars
  <2>9. QED
    BY <1>1, <2>3, <2>4, <2>5, <2>8, RequestCommitKeepsInv
<1>5. CASE ActiveCases(p) = {}
  <2>1. Ask(r, {}, "insert") /\ UNCHANGED <<vars, acked>>
    BY <1>1, <1>5 DEF ApplyFailure, vars, dbVars, workerVars
  <2>2. /\ tx' \in [Tx -> TxState] /\ \A u \in Tx \ {r} : tx'[u] = tx[u]
        /\ tx'[r].op = "webhook" /\ tx'[r].at = "insert" /\ tx'[r].event = e
        /\ tx'[r].held = tx[r].held
        /\ \A m, row : Holds(r, m, row)' <=> Holds(r, m, row)
        /\ \A m, row : Takes(r, m, row)' <=> Takes(r, m, row)
    BY <1>1, <1>2, <2>1, Asked DEF Statement
  <2>3. CasesTaken(r)' = {} /\ JobsTaken(r)' = {}
    BY <1>1, <1>2, <2>2 DEF WebhookStage, CasesTaken, JobsTaken, CaseRowOf, JobRowOf
  <2>4. /\ handled' = handled /\ payments' = payments /\ cases' = cases
    BY <2>1 DEF vars, dbVars
  <2>5. /\ e \in Events /\ e.type \in SupportedTypes /\ e.terms \in AcceptedTerms
        /\ e.id \notin handled
    BY <1>1, <1>2 DEF WebhookStage
  <2>6. Applicable(e)' /\ ActiveCases(p)' = {}
    BY <1>1, <1>5, <2>2, <2>4 DEF Applicable, Terminal, ActiveCases, ActiveCase, CaseExists
  <2>7. WebhookStage(r)'
    BY <1>1, <1>3, <2>2, <2>3, <2>4, <2>5, <2>6 DEF WebhookStage, EventRow, PaymentRowOf
  <2>8. Stage(r)'
    BY <2>2, <2>7 DEF Stage
  <2>9. QED
    BY <1>2, <2>1, <2>2, <2>8, SilentKeepsInv
<1>6. QED
  BY <1>4, <1>5

LEMMA ApplySuccessKeepsInv ==
  ASSUME StatementInv, NEW r \in Requests, ApplySuccess(r)
  PROVE  StatementInv'
<1> DEFINE e == tx[r].event
           p == e.payment
           locks == {Lock("update", CaseRowOf(c)) : c \in ActiveCases(p)}
<1>1. /\ tx[r].op = "webhook" /\ tx[r].at = "apply" /\ tx[r].want = {}
      /\ Applicable(e) /\ e.type = "payment.succeeded"
      /\ UNCHANGED <<vars, acked>> /\ Ask(r, locks, "cancel")
  BY DEF ApplySuccess, Applying, At, Applicable
<1>2. /\ WebhookStage(r) /\ r \in Tx /\ tx[r] \in TxState /\ LocksTypeOK
      /\ p \in PaymentIds /\ acked \in SUBSET EventIds
  BY <1>1, WebhookKnows
<1>3. Holds(r, "update", EventRow(e.id)) /\ Holds(r, "update", PaymentRowOf(p))
  BY <1>1, <1>2 DEF WebhookStage, Takes, Holds
<1>4. locks \in SUBSET Locks
  BY LockTypes DEF LockMode, ActiveCases
<1> HIDE DEF locks
<1>5. /\ tx' \in [Tx -> TxState] /\ \A u \in Tx \ {r} : tx'[u] = tx[u]
      /\ tx'[r].op = "webhook" /\ tx'[r].at = "cancel" /\ tx'[r].event = e
      /\ tx'[r].held = tx[r].held
      /\ \A m, row : Holds(r, m, row)' <=> Holds(r, m, row)
      /\ \A m, row : Takes(r, m, row) <=> Holds(r, m, row)
      /\ \A m, row : Takes(r, m, row)' <=> Holds(r, m, row) \/ Lock(m, row) \in locks
  BY <1>1, <1>2, <1>4, Asked DEF Statement
<1>6. \A m, row : Lock(m, row) \in locks <=>
         \E c \in ActiveCases(p) : m = "update" /\ row = CaseRowOf(c)
  BY RowsDiffer DEF locks
<1>7. CasesTaken(r) = {} /\ JobsTaken(r) = {}
  BY <1>1, <1>2 DEF WebhookStage
<1>8. CasesTaken(r)' \subseteq ActiveCases(p)
  BY <1>5, <1>6, <1>7, RowsDiffer DEF CasesTaken
<1>9. JobsTaken(r)' = {}
  BY <1>5, <1>6, <1>7, RowsDiffer DEF JobsTaken
<1>10. \A c \in ActiveCases(p) : Takes(r, "update", CaseRowOf(c))'
  BY <1>5, <1>6 DEF CaseRowOf
<1>11. /\ handled' = handled /\ payments' = payments /\ cases' = cases /\ jobs' = jobs
  BY <1>1 DEF vars, dbVars
<1>12. /\ e \in Events /\ e.type \in SupportedTypes /\ e.terms \in AcceptedTerms
       /\ e.id \notin handled
  BY <1>1, <1>2 DEF WebhookStage
<1>13. Applicable(e)' /\ ActiveCases(p)' = ActiveCases(p)
  BY <1>1, <1>5, <1>11 DEF Applicable, Terminal, ActiveCases, ActiveCase, CaseExists
<1>14. \A c \in CasesTaken(r)' : CaseExists(c)' /\ cases'[c].payment = p
  BY <1>8, <1>11 DEF ActiveCases, ActiveCase, CaseExists
<1>15. WebhookStage(r)'
  BY <1>1, <1>3, <1>5, <1>9, <1>10, <1>11, <1>12, <1>13, <1>14
     DEF WebhookStage, EventRow, PaymentRowOf, CaseRowOf
<1>16. Stage(r)'
  BY <1>5, <1>15 DEF Stage
<1>17. QED
  BY <1>1, <1>2, <1>5, <1>16, SilentKeepsInv

LEMMA InsertCaseKeepsInv ==
  ASSUME StatementInv, NEW r \in Requests, InsertCase(r)
  PROVE  StatementInv'
<1> DEFINE e == tx[r].event
           p == e.payment
<1>1. /\ tx[r].op = "webhook" /\ tx[r].at = "insert"
      /\ UNCHANGED <<attempts, store, workerVars>>
  BY DEF InsertCase, At
<1>2. /\ WebhookStage(r) /\ r \in Tx /\ LocksTypeOK
      /\ e \in Events /\ p \in PaymentIds
      /\ Holds(r, "update", EventRow(e.id)) /\ Holds(r, "update", PaymentRowOf(p))
      /\ ~Terminal(p) /\ ActiveCases(p) = {}
  BY <1>1, WebhookKnows DEF WebhookStage, Applicable
<1>3. PICK c \in CaseIds, j \in JobIds :
         /\ ~CaseExists(c) /\ ~JobExists(j)
         /\ PutPayment(e, "FAILED")
         /\ cases' = [cases EXCEPT ![c] = [status |-> "OPEN", payment |-> p]]
         /\ jobs' = [jobs EXCEPT ![j] = NewJob(c, "EVALUATE_RECOVERY", 0)]
         /\ Commit200(r)
  BY <1>2 DEF InsertCase
<1>4. /\ payments' \in [PaymentIds -> PaymentRow]
      /\ \A q \in PaymentIds : payments'[q] # payments[q] => q = p
      /\ \A q \in PaymentIds : Paid(q) => Paid(q)'
  BY <1>2, <1>3, PaymentPut DEF PaymentState
<1>5. /\ \A i \in EventIds : ~(i \in handled' <=> i \in handled) => i = e.id
      /\ handled' \in SUBSET EventIds /\ acked' \in SUBSET EventIds
      /\ Close(r) /\ \A u \in Tx \ {r} : tx'[u] = tx[u]
  BY <1>1, <1>3, RecordsOwnEvent
<1>6. /\ cases \in [CaseIds -> CaseRow] /\ jobs \in [JobIds -> JobRow]
      /\ attempts' = attempts /\ RowsAndWorkers /\ RowsRefer
  BY <1>1 DEF StatementInv, RowsAndWorkers, TypeOK, DbTypeOK
<1>7. /\ cases'[c] = [status |-> "OPEN", payment |-> p]
      /\ cases' \in [CaseIds -> CaseRow]
      /\ \A d \in CaseIds \ {c} : cases'[d] = cases[d]
  BY <1>2, <1>3, <1>6 DEF CaseRow, RecoveryState
<1>8. /\ jobs'[j] = NewJob(c, "EVALUATE_RECOVERY", 0)
      /\ jobs' \in [JobIds -> JobRow]
      /\ \A i \in JobIds \ {j} : jobs'[i] = jobs[i]
  BY <1>3, <1>6 DEF NewJob, JobRow, JobType, JobState, AttemptNos
<1>9. DbTypeOK'
  BY <1>4, <1>5, <1>6, <1>7, <1>8 DEF StatementInv, RowsAndWorkers, TypeOK, DbTypeOK
<1>10. CasesKept
  BY <1>2, <1>3, <1>6, <1>7 DEF CasesKept, CaseExists, RowsRefer
<1>11. JobsKept
  BY <1>3, <1>6, <1>7, <1>8, MaxAttemptsAssumption
     DEF JobsKept, JobExists, SameJob, FitsIn, CaseExists, NewJob
<1>12. \A q \in PaymentIds : q # p => ActiveCases(q)' \subseteq ActiveCases(q)
  BY <1>7 DEF ActiveCases, ActiveCase, CaseExists
<1>13. RowsKept
  BY <1>10, <1>11, KeptRows
<1>14. WritesOwn(r)
  BY <1>1, <1>2, <1>3, <1>4, <1>5, <1>7, <1>8, <1>12, <1>13
     DEF WritesOwn, Locked, workerVars
<1>15. QED
  BY <1>1, <1>5, <1>9, <1>10, <1>11, <1>14, RequestCommitKeepsInv

(* A request asks for the PENDING jobs of the cases it has locked. *)
LEMMA AskedForJobs ==
  ASSUME StatementInv, NEW r \in Requests, tx[r].want = {}, JobsTaken(r) = {},
         Ask(r, {Lock("change", JobRowOf(j)) : j \in PendingOf(OpenLocked(r))}, "save")
  PROVE  /\ tx' \in [Tx -> TxState] /\ \A u \in Tx \ {r} : tx'[u] = tx[u]
         /\ tx'[r].op = tx[r].op /\ tx'[r].at = "save" /\ tx'[r].event = tx[r].event
         /\ tx'[r].case = tx[r].case /\ tx'[r].held = tx[r].held
         /\ \A m, row : Holds(r, m, row)' <=> Holds(r, m, row)
         /\ \A m, row : Takes(r, m, row) <=> Holds(r, m, row)
         /\ \A c : Takes(r, "update", CaseRowOf(c))' <=> Holds(r, "update", CaseRowOf(c))
         /\ \A p : Takes(r, "update", PaymentRowOf(p))'
                       <=> Holds(r, "update", PaymentRowOf(p))
         /\ CasesTaken(r)' = CasesTaken(r)
         /\ JobsTaken(r)' = PendingOf(OpenLocked(r))
<1> DEFINE locks == {Lock("change", JobRowOf(j)) : j \in PendingOf(OpenLocked(r))}
<1>1. r \in Tx /\ LocksTypeOK
  BY DEF Tx, StatementInv
<1>2. locks \in SUBSET Locks
  BY LockTypes DEF LockMode, PendingOf
<1>3. Ask(r, locks, "save")
  OBVIOUS
<1>4. \A m, row : Lock(m, row) \in locks <=>
         \E j \in PendingOf(OpenLocked(r)) : m = "change" /\ row = JobRowOf(j)
  BY RowsDiffer
<1> HIDE DEF locks
<1>5. /\ tx' \in [Tx -> TxState] /\ \A u \in Tx \ {r} : tx'[u] = tx[u]
      /\ tx'[r].op = tx[r].op /\ tx'[r].at = "save" /\ tx'[r].event = tx[r].event
      /\ tx'[r].case = tx[r].case /\ tx'[r].held = tx[r].held
      /\ \A m, row : Holds(r, m, row)' <=> Holds(r, m, row)
      /\ \A m, row : Takes(r, m, row) <=> Holds(r, m, row)
      /\ \A m, row : Takes(r, m, row)' <=> Holds(r, m, row) \/ Lock(m, row) \in locks
  BY <1>1, <1>2, <1>3, Asked DEF Statement
<1>6. /\ \A c : Takes(r, "update", CaseRowOf(c))' <=> Holds(r, "update", CaseRowOf(c))
      /\ \A p : Takes(r, "update", PaymentRowOf(p))'
                    <=> Holds(r, "update", PaymentRowOf(p))
  BY <1>4, <1>5 DEF CaseRowOf, PaymentRowOf
<1>7. CasesTaken(r)' = CasesTaken(r)
  <2>1. \A c, m : Takes(r, m, CaseRowOf(c))' <=> Takes(r, m, CaseRowOf(c))
    BY <1>4, <1>5 DEF CaseRowOf, JobRowOf
  <2>2. QED
    BY <2>1 DEF CasesTaken
<1>8. JobsTaken(r)' = PendingOf(OpenLocked(r))
  <2>1. PendingOf(OpenLocked(r)) \subseteq JobIds
    BY DEF PendingOf
  <2>2. QED
    BY <1>4, <1>5, <2>1, RowsDiffer DEF JobsTaken
<1>9. QED
  BY <1>5, <1>6, <1>7, <1>8

LEMMA CancelJobsKeepsInv ==
  ASSUME StatementInv, NEW r \in Requests, CancelJobs(r)
  PROVE  StatementInv'
<1> DEFINE e == tx[r].event
           p == e.payment
<1>1. /\ tx[r].op = "webhook" /\ tx[r].at = "cancel" /\ tx[r].want = {}
      /\ UNCHANGED <<vars, acked>>
  BY DEF CancelJobs, At
<1>2. /\ WebhookStage(r) /\ r \in Tx /\ acked \in SUBSET EventIds
      /\ JobsTaken(r) = {} /\ p \in PaymentIds
  BY <1>1, WebhookKnows DEF WebhookStage
<1>3. /\ tx' \in [Tx -> TxState] /\ \A u \in Tx \ {r} : tx'[u] = tx[u]
      /\ tx'[r].op = "webhook" /\ tx'[r].at = "save" /\ tx'[r].event = e
      /\ tx'[r].held = tx[r].held
      /\ \A m, row : Holds(r, m, row)' <=> Holds(r, m, row)
      /\ \A m, row : Takes(r, m, row) <=> Holds(r, m, row)
      /\ \A c : Takes(r, "update", CaseRowOf(c))' <=> Holds(r, "update", CaseRowOf(c))
      /\ CasesTaken(r)' = CasesTaken(r)
      /\ JobsTaken(r)' = PendingOf(OpenLocked(r))
  BY <1>1, <1>2, AskedForJobs DEF CancelJobs
<1>4. /\ handled' = handled /\ payments' = payments /\ cases' = cases /\ jobs' = jobs
  BY <1>1 DEF vars, dbVars
<1>5. \A j \in JobsTaken(r)' : JobExists(j)'
  BY <1>3, <1>4 DEF PendingOf, JobExists
<1>6. Applicable(e)' /\ ActiveCases(p)' = ActiveCases(p)
  BY <1>1, <1>2, <1>3, <1>4
     DEF WebhookStage, Applicable, Terminal, ActiveCases, ActiveCase, CaseExists
<1>7. \A c \in CasesTaken(r)' : CaseExists(c)' /\ cases'[c].payment = p
  BY <1>1, <1>2, <1>3, <1>4 DEF WebhookStage, CaseExists
<1>8. WebhookStage(r)'
  BY <1>1, <1>2, <1>3, <1>4, <1>5, <1>6, <1>7
     DEF WebhookStage, EventRow, PaymentRowOf, CaseRowOf
<1>9. Stage(r)'
  BY <1>3, <1>8 DEF Stage
<1>10. QED
  BY <1>1, <1>2, <1>3, <1>9, SilentKeepsInv

(* The cases and jobs a request closes are its own. *)
LEMMA ClosesOwn ==
  ASSUME StatementInv, NEW r \in Requests, NEW cs \in SUBSET CaseIds,
         \A c \in cs : CaseExists(c) /\ Holds(r, "update", CaseRowOf(c)),
         \A j \in JobsTaken(r) : JobExists(j),
         NEW s \in {"RECOVERED", "STOPPED"},
         cases' = WithStatus(cs, s), jobs' = Cancelled(SeenPending(r)) \/ jobs' = jobs
  PROVE  /\ cases' \in [CaseIds -> CaseRow] /\ jobs' \in [JobIds -> JobRow]
         /\ CasesKept /\ JobsKept
         /\ \A c \in CaseIds : CaseExists(c) /\ cases'[c] # cases[c]
                                  => Locked(r, CaseRowOf(c))
         /\ \A j \in JobIds : JobExists(j) /\ jobs'[j] # jobs[j] => Locked(r, JobRowOf(j))
         /\ \A q \in PaymentIds : ActiveCases(q)' \subseteq ActiveCases(q)
<1>1. /\ cases \in [CaseIds -> CaseRow] /\ jobs \in [JobIds -> JobRow]
      /\ \A c \in CaseIds : CaseExists(c) => cases[c].payment \in PaymentIds
  BY DEF StatementInv, RowsAndWorkers, TypeOK, DbTypeOK, RowsRefer
<1>2. \A c \in CaseIds : \/ cases'[c] = cases[c]
                         \/ c \in cs /\ cases'[c] = [cases[c] EXCEPT !.status = s]
  BY DEF WithStatus
<1>3. cases' \in [CaseIds -> CaseRow]
  BY <1>1 DEF WithStatus, CaseRow, RecoveryState
<1>4. \A c \in CaseIds : cases'[c].payment = cases[c].payment
                         /\ (CaseExists(c)' <=> CaseExists(c))
                         /\ (ActiveCase(c)' => ActiveCase(c))
  BY ZenonT(30), <1>1, <1>2 DEF CaseRow, CaseExists, ActiveCase, TerminalCaseStates
<1>5. \A j \in JobIds : \/ jobs'[j] = jobs[j]
                        \/ /\ j \in SeenPending(r)
                           /\ jobs'[j] = [jobs[j] EXCEPT !.status = "CANCELLED"]
  BY DEF Cancelled
<1>6. jobs' \in [JobIds -> JobRow]
  <2>1. CASE jobs' = jobs
    BY <1>1, <2>1
  <2>2. CASE jobs' = Cancelled(SeenPending(r))
    BY <1>1, <2>2 DEF Cancelled, JobRow, JobState
  <2>3. QED
    BY <2>1, <2>2
<1>7. SeenPending(r) \subseteq JobsTaken(r)
  BY DEF SeenPending, JobsTaken, Takes, Holds
<1>8. JobsKept
  BY ZenonT(30), <1>1, <1>5, <1>7 DEF JobsKept, SameJob, JobExists, JobRow
<1>9. CasesKept
  BY <1>1, <1>4 DEF CasesKept
<1>10. QED
  BY <1>2, <1>3, <1>4, <1>5, <1>6, <1>8, <1>9
     DEF ActiveCases, Locked, SeenPending

LEMMA CommitSuccessKeepsInv ==
  ASSUME StatementInv, NEW r \in Requests, CommitSuccess(r)
  PROVE  StatementInv'
<1> DEFINE e == tx[r].event
           p == e.payment
<1>1. /\ tx[r].op = "webhook" /\ tx[r].at \in {"cancel", "save"} /\ tx[r].want = {}
      /\ PutPayment(e, "SUCCEEDED")
      /\ cases' = WithStatus(OpenLocked(r), "RECOVERED")
      /\ jobs' = Cancelled(SeenPending(r))
      /\ Commit200(r)
      /\ UNCHANGED <<attempts, store, workerVars>>
  BY DEF CommitSuccess, At
<1>2. /\ WebhookStage(r) /\ r \in Tx /\ LocksTypeOK
      /\ e \in Events /\ p \in PaymentIds
      /\ Holds(r, "update", EventRow(e.id)) /\ Holds(r, "update", PaymentRowOf(p))
      /\ ~Terminal(p) /\ \A j \in JobsTaken(r) : JobExists(j)
  BY <1>1, WebhookKnows DEF WebhookStage, Applicable
<1>3. /\ payments' \in [PaymentIds -> PaymentRow]
      /\ \A q \in PaymentIds : payments'[q] # payments[q] => q = p
      /\ \A q \in PaymentIds : Paid(q) => Paid(q)'
  BY <1>1, <1>2, PaymentPut DEF PaymentState
<1>4. /\ \A i \in EventIds : ~(i \in handled' <=> i \in handled) => i = e.id
      /\ handled' \in SUBSET EventIds /\ acked' \in SUBSET EventIds
      /\ Close(r) /\ \A u \in Tx \ {r} : tx'[u] = tx[u]
  BY <1>1, RecordsOwnEvent
<1>5. /\ OpenLocked(r) \in SUBSET CaseIds
      /\ \A c \in OpenLocked(r) : CaseExists(c) /\ Holds(r, "update", CaseRowOf(c))
  BY DEF OpenLocked, ActiveCase
<1>6. /\ cases' \in [CaseIds -> CaseRow] /\ jobs' \in [JobIds -> JobRow]
      /\ CasesKept /\ JobsKept
      /\ \A c \in CaseIds : CaseExists(c) /\ cases'[c] # cases[c]
                               => Locked(r, CaseRowOf(c))
      /\ \A j \in JobIds : JobExists(j) /\ jobs'[j] # jobs[j] => Locked(r, JobRowOf(j))
      /\ \A q \in PaymentIds : ActiveCases(q)' \subseteq ActiveCases(q)
  BY <1>1, <1>2, <1>5, ClosesOwn
<1>7. DbTypeOK'
  BY <1>1, <1>3, <1>4, <1>6 DEF StatementInv, RowsAndWorkers, TypeOK, DbTypeOK
<1>8. RowsKept
  BY <1>6, KeptRows
<1>9. WritesOwn(r)
  BY <1>1, <1>2, <1>3, <1>4, <1>6, <1>8 DEF WritesOwn, Locked, workerVars
<1>10. QED
  BY <1>1, <1>4, <1>6, <1>7, <1>9, RequestCommitKeepsInv

-----------------------------------------------------------------------------
(* Administrators. *)

LEMMA BeginAdminKeepsInv ==
  ASSUME StatementInv, NEW r \in Requests, NEW c \in CaseIds, BeginAdmin(r, c)
  PROVE  StatementInv'
<1>1. PICK op \in {"stop", "retry"} :
         Open(r, [NoTx EXCEPT !.op = op, !.case = c, !.at = "payment",
                              !.want = {Lock("update", CaseRowOf(c))}])
  BY DEF BeginAdmin
<1> DEFINE x == [NoTx EXCEPT !.op = op, !.case = c, !.at = "payment",
                             !.want = {Lock("update", CaseRowOf(c))}]
<1>2. /\ r \in Tx /\ UNCHANGED <<vars, acked>> /\ tx \in [Tx -> TxState]
      /\ acked \in SUBSET EventIds /\ CaseExists(c)
  BY DEF BeginAdmin, Tx, StatementInv, LocksTypeOK
<1>3. Lock("update", CaseRowOf(c)) \in Locks
  BY LockTypes DEF LockMode
<1>4. x \in TxState
  BY <1>3 DEF TxState, NoTx, Statement
<1>5. tx' = [tx EXCEPT ![r] = x]
  BY <1>1 DEF Open
<1>6. /\ tx'[r] = x /\ tx' \in [Tx -> TxState]
      /\ \A u \in Tx \ {r} : tx'[u] = tx[u]
  BY <1>2, <1>4, <1>5
<1>7. /\ x.op = op /\ x.case = c /\ x.at = "payment"
      /\ x.held = {} /\ x.want = {Lock("update", CaseRowOf(c))}
  BY DEF NoTx
<1> HIDE DEF x
<1>8. \A m, row : Takes(r, m, row)' <=> Lock(m, row) = Lock("update", CaseRowOf(c))
  BY <1>6, <1>7 DEF Takes, Lock
<1>9. CasesTaken(r)' \subseteq {c} /\ JobsTaken(r)' = {}
  BY <1>8, RowsDiffer DEF CasesTaken, JobsTaken
<1>10. CaseExists(c)'
  BY <1>2 DEF vars, dbVars, CaseExists
<1>11. AdminStage(r)'
  BY <1>2, <1>6, <1>7, <1>8, <1>9, <1>10 DEF AdminStage, CaseRowOf, CaseExists
<1>12. Stage(r)'
  BY <1>6, <1>7, <1>11 DEF Stage
<1>13. QED
  BY <1>2, <1>6, <1>7, <1>12, SilentKeepsInv

LEMMA AdminKnows ==
  ASSUME StatementInv, NEW r \in Requests, tx[r].op \in {"stop", "retry"}
  PROVE  /\ AdminStage(r) /\ r \in Tx /\ tx[r] \in TxState /\ LocksTypeOK
         /\ tx[r].case \in CaseIds /\ CaseExists(tx[r].case)
         /\ cases[tx[r].case].payment \in PaymentIds
         /\ acked \in SUBSET EventIds
<1>1. r \in Tx /\ AdminStage(r)
  BY DEF StatementInv, Stages, Stage, Tx
<1>2. QED
  BY <1>1 DEF AdminStage, StatementInv, LocksTypeOK, RowsAndWorkers, RowsRefer

LEMMA LockItsPaymentKeepsInv ==
  ASSUME StatementInv, NEW r \in Requests, LockItsPayment(r)
  PROVE  StatementInv'
<1> DEFINE c == tx[r].case
           p == cases[c].payment
<1>1. /\ tx[r].op \in {"stop", "retry"} /\ tx[r].at = "payment" /\ tx[r].want = {}
      /\ UNCHANGED <<vars, acked>>
      /\ Ask(r, {Lock("update", PaymentRowOf(p))}, "decide")
  BY DEF LockItsPayment, At
<1>2. /\ AdminStage(r) /\ r \in Tx /\ LocksTypeOK /\ p \in PaymentIds /\ CaseExists(c)
      /\ acked \in SUBSET EventIds /\ JobsTaken(r) = {} /\ c \in CaseIds
      /\ CasesTaken(r) \subseteq {c}
  BY <1>1, AdminKnows DEF AdminStage
<1>3. {Lock("update", PaymentRowOf(p))} \in SUBSET Locks
  BY <1>2, LockTypes DEF LockMode
<1>4. /\ tx' \in [Tx -> TxState] /\ \A u \in Tx \ {r} : tx'[u] = tx[u]
      /\ tx'[r].op = tx[r].op /\ tx'[r].at = "decide" /\ tx'[r].case = c
      /\ tx'[r].held = tx[r].held
      /\ \A m, row : Holds(r, m, row)' <=> Holds(r, m, row)
      /\ \A m, row : Takes(r, m, row) <=> Holds(r, m, row)
      /\ \A m, row : Takes(r, m, row)' <=>
            Holds(r, m, row) \/ Lock(m, row) \in {Lock("update", PaymentRowOf(p))}
  BY <1>1, <1>2, <1>3, Asked DEF Statement
<1>5. CasesTaken(r)' \subseteq {c} /\ JobsTaken(r)' = {}
  <2>1. /\ \A m, d : Takes(r, m, CaseRowOf(d))' <=> Takes(r, m, CaseRowOf(d))
        /\ \A m, j : Takes(r, m, JobRowOf(j))' <=> Takes(r, m, JobRowOf(j))
    BY <1>4, RowsDiffer DEF CaseRowOf, JobRowOf
  <2>2. QED
    BY <1>2, <2>1 DEF CasesTaken, JobsTaken
<1>6. cases' = cases
  BY <1>1 DEF vars, dbVars
<1>7. AdminStage(r)'
  BY <1>1, <1>2, <1>4, <1>5, <1>6
     DEF AdminStage, CaseExists, CaseRowOf, PaymentRowOf
<1>8. Stage(r)'
  BY <1>1, <1>4, <1>7 DEF Stage
<1>9. QED
  BY <1>1, <1>2, <1>4, <1>8, SilentKeepsInv

LEMMA RefuseKeepsInv ==
  ASSUME StatementInv, NEW r \in Requests, Refuse(r) \/ RequestAborts(r)
  PROVE  StatementInv'
<1>1. Close(r) /\ UNCHANGED <<vars, acked>> /\ r \in Tx /\ acked \in SUBSET EventIds
  BY DEF Refuse, RequestAborts, Tx, StatementInv, LocksTypeOK
<1>2. QED
  BY <1>1, SilentCloseKeepsInv

LEMMA StopReadsJobsKeepsInv ==
  ASSUME StatementInv, NEW r \in Requests, StopReadsJobs(r)
  PROVE  StatementInv'
<1> DEFINE c == tx[r].case
           p == cases[c].payment
<1>1. /\ tx[r].op = "stop" /\ tx[r].at = "decide" /\ tx[r].want = {}
      /\ ~Paid(p) /\ PendingOf(OpenLocked(r)) # {} /\ UNCHANGED <<vars, acked>>
  BY DEF StopReadsJobs, Ruling, At
<1>2. /\ AdminStage(r) /\ r \in Tx /\ acked \in SUBSET EventIds
      /\ JobsTaken(r) = {} /\ c \in CaseIds /\ CaseExists(c) /\ CasesTaken(r) \subseteq {c}
      /\ Holds(r, "update", CaseRowOf(c)) /\ Takes(r, "update", PaymentRowOf(p))
  BY <1>1, AdminKnows DEF AdminStage
<1>3. /\ tx' \in [Tx -> TxState] /\ \A u \in Tx \ {r} : tx'[u] = tx[u]
      /\ tx'[r].op = "stop" /\ tx'[r].at = "save"
      /\ tx'[r].case = tx[r].case /\ tx'[r].held = tx[r].held
      /\ \A m, row : Holds(r, m, row)' <=> Holds(r, m, row)
      /\ \A m, row : Takes(r, m, row) <=> Holds(r, m, row)
      /\ \A d : Takes(r, "update", CaseRowOf(d))' <=> Holds(r, "update", CaseRowOf(d))
      /\ CasesTaken(r)' = CasesTaken(r)
      /\ JobsTaken(r)' = PendingOf(OpenLocked(r))
  BY <1>1, <1>2, AskedForJobs DEF StopReadsJobs
<1>4. /\ payments' = payments /\ cases' = cases /\ jobs' = jobs
  BY <1>1 DEF vars, dbVars
<1>5. \A j \in JobsTaken(r)' : JobExists(j)'
  BY <1>3, <1>4 DEF PendingOf, JobExists
<1>6. ActiveCase(c)
  <2>1. OpenLocked(r) \subseteq CasesTaken(r) /\ OpenLocked(r) # {}
    BY <1>1 DEF OpenLocked, CasesTaken, Takes, Holds, LockMode, PendingOf
  <2>2. QED
    BY <1>2, <2>1 DEF OpenLocked
<1>7. /\ CaseExists(c)' /\ ActiveCase(c)' /\ cases'[c].payment = p
      /\ payments'[p].status # "SUCCEEDED"
  BY <1>1, <1>2, <1>3, <1>4, <1>6 DEF CaseExists, ActiveCase, Paid
<1>8. AdminStage(r)'
  BY <1>1, <1>2, <1>3, <1>4, <1>5, <1>7
     DEF AdminStage, CaseRowOf, PaymentRowOf, Paid, Holds
<1>9. Stage(r)'
  BY <1>3, <1>8 DEF Stage
<1>10. QED
  BY <1>1, <1>2, <1>3, <1>9, SilentKeepsInv

LEMMA ClosingKeepsInv ==
  ASSUME StatementInv, NEW r \in Requests, CommitStop(r) \/ RejectPaid(r)
  PROVE  StatementInv'
<1> DEFINE c == tx[r].case
<1>1. /\ tx[r].op \in {"stop", "retry"} /\ tx[r].at # "payment" /\ tx[r].want = {}
      /\ \E s \in {"RECOVERED", "STOPPED"} : cases' = WithStatus({c}, s)
      /\ jobs' = Cancelled(SeenPending(r)) \/ jobs' = jobs
      /\ Close(r)
      /\ UNCHANGED <<payments, attempts, handled, store, workerVars, acked>>
  BY DEF CommitStop, RejectPaid, Ruling, At
<1>2. /\ AdminStage(r) /\ r \in Tx /\ LocksTypeOK /\ acked \in SUBSET EventIds
      /\ CaseExists(c) /\ c \in CaseIds /\ Holds(r, "update", CaseRowOf(c))
      /\ \A j \in JobsTaken(r) : JobExists(j)
  BY <1>1, AdminKnows DEF AdminStage
<1>3. \A u \in Tx \ {r} : tx'[u] = tx[u]
  BY <1>1, <1>2, CloseKeepsStage
<1>4. /\ cases' \in [CaseIds -> CaseRow] /\ jobs' \in [JobIds -> JobRow]
      /\ CasesKept /\ JobsKept
      /\ \A d \in CaseIds : CaseExists(d) /\ cases'[d] # cases[d]
                               => Locked(r, CaseRowOf(d))
      /\ \A j \in JobIds : JobExists(j) /\ jobs'[j] # jobs[j] => Locked(r, JobRowOf(j))
      /\ \A q \in PaymentIds : ActiveCases(q)' \subseteq ActiveCases(q)
  <2>1. {c} \in SUBSET CaseIds
        /\ \A d \in {c} : CaseExists(d) /\ Holds(r, "update", CaseRowOf(d))
    BY <1>2
  <2>2. QED
    BY <1>1, <1>2, <2>1, ClosesOwn
<1>5. DbTypeOK'
  BY <1>1, <1>4 DEF StatementInv, RowsAndWorkers, TypeOK, DbTypeOK
<1>6. RowsKept
  BY <1>4, KeptRows
<1>7. WritesOwn(r)
  BY <1>1, <1>3, <1>4, <1>6 DEF WritesOwn, workerVars, Paid
<1>8. QED
  BY <1>1, <1>2, <1>4, <1>5, <1>7, RequestCommitKeepsInv

LEMMA RetryReadsJobsKeepsInv ==
  ASSUME StatementInv, NEW r \in Requests, RetryReadsJobs(r)
  PROVE  StatementInv'
<1> DEFINE c == tx[r].case
           p == cases[c].payment
<1>1. /\ tx[r].op = "retry" /\ tx[r].at = "decide" /\ tx[r].want = {}
      /\ ~Paid(p) /\ cases[c].status # "RECOVERED" /\ UNCHANGED <<vars, acked>>
      /\ Ask(r, {}, "insert")
  BY DEF RetryReadsJobs, Ruling, At
<1>2. /\ AdminStage(r) /\ r \in Tx /\ LocksTypeOK /\ acked \in SUBSET EventIds
      /\ JobsTaken(r) = {} /\ c \in CaseIds /\ CaseExists(c) /\ CasesTaken(r) \subseteq {c}
      /\ Holds(r, "update", CaseRowOf(c)) /\ Takes(r, "update", PaymentRowOf(p))
  BY <1>1, AdminKnows DEF AdminStage
<1>3. /\ tx' \in [Tx -> TxState] /\ \A u \in Tx \ {r} : tx'[u] = tx[u]
      /\ tx'[r].op = "retry" /\ tx'[r].at = "insert" /\ tx'[r].case = c
      /\ tx'[r].held = tx[r].held
      /\ \A m, row : Holds(r, m, row)' <=> Holds(r, m, row)
      /\ \A m, row : Takes(r, m, row) <=> Holds(r, m, row)
      /\ \A m, row : Takes(r, m, row)' <=> Takes(r, m, row)
  BY <1>1, <1>2, Asked DEF Statement
<1>4. CasesTaken(r)' = CasesTaken(r) /\ JobsTaken(r)' = JobsTaken(r)
  BY <1>3 DEF CasesTaken, JobsTaken, CaseRowOf, JobRowOf
<1>5. payments' = payments /\ cases' = cases
  BY <1>1 DEF vars, dbVars
<1>6. AdminStage(r)'
  BY <1>1, <1>2, <1>3, <1>4, <1>5
     DEF AdminStage, CaseExists, CaseRowOf, PaymentRowOf, Paid
<1>7. Stage(r)'
  BY <1>3, <1>6 DEF Stage
<1>8. QED
  BY <1>1, <1>2, <1>3, <1>7, SilentKeepsInv

LEMMA CommitRetryKeepsInv ==
  ASSUME StatementInv, NEW r \in Requests, NEW j \in JobIds, CommitRetry(r, j)
  PROVE  StatementInv'
<1> DEFINE c == tx[r].case
           p == cases[c].payment
<1>1. /\ tx[r].op = "retry" /\ tx[r].at = "insert" /\ ~JobExists(j) /\ Close(r)
      /\ cases' = WithStatus({c}, "OPEN")
      /\ jobs' = [jobs EXCEPT ![j] = NewJob(c, "EVALUATE_RECOVERY", 0)]
      /\ UNCHANGED <<payments, attempts, handled, store, workerVars, acked>>
  BY DEF CommitRetry, At
<1>2. /\ AdminStage(r) /\ r \in Tx /\ LocksTypeOK /\ acked \in SUBSET EventIds
      /\ c \in CaseIds /\ CaseExists(c) /\ p \in PaymentIds
      /\ Holds(r, "update", CaseRowOf(c)) /\ Holds(r, "update", PaymentRowOf(p))
  BY <1>1, AdminKnows DEF AdminStage
<1>3. \A u \in Tx \ {r} : tx'[u] = tx[u]
  BY <1>1, <1>2, CloseKeepsStage
<1>4. /\ cases \in [CaseIds -> CaseRow] /\ jobs \in [JobIds -> JobRow] /\ RowsRefer
  BY DEF StatementInv, RowsAndWorkers, TypeOK, DbTypeOK
<1>5. /\ cases' \in [CaseIds -> CaseRow]
      /\ cases'[c] = [cases[c] EXCEPT !.status = "OPEN"]
      /\ \A d \in CaseIds \ {c} : cases'[d] = cases[d]
  BY <1>1, <1>2, <1>4 DEF WithStatus, CaseRow, RecoveryState
<1>6. cases'[c].status = "OPEN" /\ cases'[c].payment = p
  BY <1>2, <1>4, <1>5 DEF CaseRow
<1>7. /\ jobs'[j] = NewJob(c, "EVALUATE_RECOVERY", 0)
      /\ jobs' \in [JobIds -> JobRow]
      /\ \A i \in JobIds \ {j} : jobs'[i] = jobs[i]
  BY <1>1, <1>2, <1>4 DEF NewJob, JobRow, JobType, JobState, AttemptNos
<1>8. DbTypeOK'
  BY <1>1, <1>5, <1>7 DEF StatementInv, RowsAndWorkers, TypeOK, DbTypeOK
<1>9. CasesKept
  BY <1>2, <1>4, <1>5, <1>6 DEF CasesKept, CaseExists, RowsRefer
<1>10. JobsKept
  BY <1>1, <1>2, <1>4, <1>6, <1>7, MaxAttemptsAssumption
     DEF JobsKept, JobExists, SameJob, FitsIn, CaseExists, NewJob
<1>11. \A q \in PaymentIds : q # p => ActiveCases(q)' \subseteq ActiveCases(q)
  BY <1>5, <1>6 DEF ActiveCases, ActiveCase, CaseExists
<1>12. RowsKept
  BY <1>9, <1>10, KeptRows
<1>13. WritesOwn(r)
  BY <1>1, <1>2, <1>3, <1>5, <1>7, <1>11, <1>12 DEF WritesOwn, Locked, workerVars, Paid
<1>14. QED
  BY <1>1, <1>2, <1>8, <1>9, <1>10, <1>13, RequestCommitKeepsInv

(* A lock that is free is taken. *)
LEMMA AcquireKeepsInv ==
  ASSUME StatementInv, NEW t \in Tx, Acquire(t)
  PROVE  StatementInv'
<1>1. PICK lock \in tx[t].want :
         /\ LockIsFree(t, lock)
         /\ tx' = [tx EXCEPT ![t].want = @ \ {lock}, ![t].held = @ \cup {lock}]
         /\ UNCHANGED <<vars, acked>>
  BY DEF Acquire
<1>2. /\ tx \in [Tx -> TxState] /\ tx[t] \in TxState /\ lock \in Locks
      /\ RowsAndWorkers /\ LocksExclude /\ Stage(t) /\ acked \in SUBSET EventIds
  BY DEF StatementInv, LocksTypeOK, TxState, Stages
<1> DEFINE x == [tx[t] EXCEPT !.want = @ \ {lock}, !.held = @ \cup {lock}]
<1>3. x \in TxState
  BY <1>2 DEF TxState
<1>4. /\ tx'[t] = x /\ tx' \in [Tx -> TxState]
      /\ \A u \in Tx \ {t} : tx'[u] = tx[u]
  BY <1>1, <1>2, <1>3
<1>5. /\ x.op = tx[t].op /\ x.at = tx[t].at /\ x.job = tx[t].job /\ x.case = tx[t].case
      /\ x.event = tx[t].event /\ x.answer = tx[t].answer
      /\ x.held = tx[t].held \cup {lock} /\ x.held \cup x.want = tx[t].held \cup tx[t].want
  BY <1>1, <1>2 DEF TxState
<1> HIDE DEF x
<1>6. /\ \A m, r : Holds(t, m, r) => Holds(t, m, r)'
      /\ \A m, r : Takes(t, m, r)' <=> Takes(t, m, r)
  BY <1>4, <1>5 DEF Holds, Takes, Lock
<1>7. CasesTaken(t)' = CasesTaken(t) /\ JobsTaken(t)' = JobsTaken(t)
  BY <1>6 DEF CasesTaken, JobsTaken, CaseRowOf, JobRowOf
<1>8. /\ payments' = payments /\ cases' = cases /\ jobs' = jobs /\ handled' = handled
      /\ worker' = worker
  BY <1>1 DEF vars, dbVars, workerVars
<1>9. tx[t].op # "none"
  BY <1>1, <1>2 DEF Stage, NoTx
<1>10. ASSUME WebhookStage(t) PROVE WebhookStage(t)'
  BY <1>4, <1>5, <1>6, <1>7, <1>8, <1>10
     DEF WebhookStage, Applicable, Terminal, ActiveCases, ActiveCase, CaseExists,
         JobExists, EventRow, PaymentRowOf, CaseRowOf
<1>11. ASSUME AdminStage(t) PROVE AdminStage(t)'
  BY <1>4, <1>5, <1>6, <1>7, <1>8, <1>11
     DEF AdminStage, Paid, ActiveCase, CaseExists, JobExists, PaymentRowOf, CaseRowOf
<1>12. ASSUME ClaimStage(t) PROVE ClaimStage(t)'
  BY <1>4, <1>5, <1>6, <1>8, <1>12
     DEF ClaimStage, JobExists, Claimable, PaymentOf, PaymentRowOf, CaseRowOf, JobRowOf
<1>13. ASSUME FinalizeStage(t) PROVE FinalizeStage(t)'
  <2>1. /\ AttemptOutcome(t)' = AttemptOutcome(t)
        /\ CaseOutcome(t)' = CaseOutcome(t) /\ NextJob(t)' = NextJob(t)
    BY <1>4, <1>5, <1>8
       DEF AttemptOutcome, CaseOutcome, NextJob, GivesUp, AttemptsLeft, Job
  <2>2. QED
    BY ZenonT(30), <1>4, <1>5, <1>6, <1>8, <1>13, <2>1
       DEF FinalizeStage, Job, PaymentOf, Paid, PaymentRowOf, CaseRowOf, AttemptRow
<1>14. Stage(t)'
  BY <1>2, <1>4, <1>5, <1>9, <1>10, <1>11, <1>12, <1>13 DEF Stage
<1>15. \A u \in Tx \ {t} : Undisturbed(u)
  BY <1>1, <1>4, SilentStep
<1>16. RowsAndWorkers'
  BY <1>1, <1>2, StepKeepsRowsAndWorkers
<1>17. LocksExclude'
  BY <1>1, <1>2, <1>4, <1>5, StillExclusive
<1>18. LocksTypeOK'
  BY <1>1, <1>2, <1>4 DEF LocksTypeOK
<1>19. QED
  BY <1>14, <1>15, <1>16, <1>17, <1>18, InvKept

-----------------------------------------------------------------------------
(* Workers. *)

LEMMA WorkersDiffer == \A w \in Workers : w \notin Requests
BY RequestsAssumption

LEMMA SelectJobKeepsInv ==
  ASSUME StatementInv, NEW w \in Workers, NEW j \in JobIds, SelectJob(w, j)
  PROVE  StatementInv'
<1> DEFINE c == jobs[j].case
           lock == Lock("update", JobRowOf(j))
           x == [NoTx EXCEPT !.op = "claim", !.job = j, !.at = "payment",
                             !.held = {lock}, !.want = {Lock("update", CaseRowOf(c))}]
<1>1. /\ worker[w].pc = "idle" /\ Claimable(j) /\ LockIsFree(w, lock)
      /\ tx' = [tx EXCEPT ![w] = x] /\ tx[w] = NoTx /\ UNCHANGED <<vars, acked>>
  BY DEF SelectJob, Open
<1>2. /\ w \in Tx /\ tx \in [Tx -> TxState] /\ acked \in SUBSET EventIds
      /\ RowsAndWorkers /\ LocksExclude
  BY DEF Tx, StatementInv, LocksTypeOK
<1>3. JobExists(j) /\ c \in CaseIds
  BY <1>1, <1>2 DEF Claimable, JobExists, RowsAndWorkers, RowsRefer
<1>4. lock \in Locks /\ Lock("update", CaseRowOf(c)) \in Locks
  BY <1>3, LockTypes DEF LockMode
<1> HIDE DEF lock
<1>5. x \in TxState
  BY <1>4 DEF TxState, NoTx, Statement
<1>6. /\ tx'[w] = x /\ tx' \in [Tx -> TxState]
      /\ \A u \in Tx \ {w} : tx'[u] = tx[u]
  BY <1>1, <1>2, <1>5
<1>7. /\ x.op = "claim" /\ x.job = j /\ x.at = "payment"
      /\ x.held = {lock} /\ x.want = {Lock("update", CaseRowOf(c))}
  BY DEF NoTx
<1> HIDE DEF x
<1>8. jobs' = jobs /\ worker' = worker
  BY <1>1 DEF vars, dbVars, workerVars
<1>9. ClaimStage(w)'
  BY <1>1, <1>3, <1>6, <1>7, <1>8
     DEF ClaimStage, JobExists, Claimable, Holds, Takes, Lock, lock, JobRowOf, CaseRowOf
<1>10. Stage(w)'
  BY <1>6, <1>7, <1>9 DEF Stage
<1>11. \A u \in Tx \ {w} : Undisturbed(u)
  BY <1>1, <1>6, SilentStep
<1>12. LocksExclude'
  BY <1>1, <1>2, <1>6, <1>7, StillExclusive
<1>13. RowsAndWorkers' /\ LocksTypeOK'
  BY <1>1, <1>2, <1>6, StepKeepsRowsAndWorkers DEF LocksTypeOK
<1>14. QED
  BY <1>2, <1>10, <1>11, <1>12, <1>13, InvKept

LEMMA ClaimKnows ==
  ASSUME StatementInv, NEW w \in Workers, tx[w].op = "claim"
  PROVE  /\ ClaimStage(w) /\ w \in Tx /\ tx[w] \in TxState /\ LocksTypeOK
         /\ tx[w].job \in JobIds /\ JobExists(tx[w].job)
         /\ jobs[tx[w].job].case \in CaseIds /\ PaymentOf(tx[w].job) \in PaymentIds
         /\ acked \in SUBSET EventIds
<1>1. w \in Tx /\ ClaimStage(w)
  BY DEF StatementInv, Stages, Stage, Tx
<1>2. QED
  BY <1>1 DEF ClaimStage, StatementInv, LocksTypeOK, RowsAndWorkers, RowsRefer, PaymentOf

LEMMA FinalizeKnows ==
  ASSUME StatementInv, NEW w \in Workers, tx[w].op = "finalize"
  PROVE  /\ FinalizeStage(w) /\ w \in Tx /\ tx[w] \in TxState /\ LocksTypeOK
         /\ tx[w].job = Job(w) /\ worker[w].pc # "idle"
         /\ Job(w) \in JobIds /\ JobExists(Job(w))
         /\ jobs[Job(w)].case \in CaseIds /\ CaseExists(jobs[Job(w)].case)
         /\ PaymentOf(Job(w)) \in PaymentIds
         /\ worker[w].attempt \in AttemptNos \cup {0}
         /\ acked \in SUBSET EventIds
<1>1. w \in Tx /\ FinalizeStage(w)
  BY DEF StatementInv, Stages, Stage, Tx
<1>2. worker[w].pc # "idle"
  BY <1>1 DEF FinalizeStage, FinalizePc
<1>3. worker[w] \in WorkerState
  BY DEF StatementInv, RowsAndWorkers, TypeOK, WorkerTypeOK
<1>4. QED
  BY <1>1, <1>2, <1>3, JobInHand
     DEF FinalizeStage, StatementInv, LocksTypeOK, WorkerState

LEMMA LockPaymentKeepsInv ==
  ASSUME StatementInv, NEW w \in Workers, LockPayment(w)
  PROVE  StatementInv'
<1> DEFINE j == tx[w].job
           p == PaymentOf(j)
<1>1. /\ tx[w].op \in {"claim", "finalize"} /\ tx[w].at = "payment" /\ tx[w].want = {}
      /\ UNCHANGED <<vars, acked>>
      /\ Ask(w, {Lock("update", PaymentRowOf(p))}, "decide")
  BY DEF LockPayment, At
<1>2. /\ w \in Tx /\ LocksTypeOK /\ p \in PaymentIds /\ acked \in SUBSET EventIds
      /\ tx[w].op = "claim" => ClaimStage(w)
      /\ tx[w].op = "finalize" => FinalizeStage(w)
  BY <1>1, ClaimKnows, FinalizeKnows
<1>3. {Lock("update", PaymentRowOf(p))} \in SUBSET Locks
  BY <1>2, LockTypes DEF LockMode
<1>4. /\ tx' \in [Tx -> TxState] /\ \A u \in Tx \ {w} : tx'[u] = tx[u]
      /\ tx'[w].op = tx[w].op /\ tx'[w].at = "decide" /\ tx'[w].job = j
      /\ tx'[w].answer = tx[w].answer /\ tx'[w].held = tx[w].held
      /\ tx'[w].held \cup tx'[w].want = tx[w].held \cup {Lock("update", PaymentRowOf(p))}
      /\ \A m, row : Holds(w, m, row)' <=> Holds(w, m, row)
      /\ \A m, row : Takes(w, m, row) <=> Holds(w, m, row)
      /\ \A m, row : Takes(w, m, row)' <=>
            Holds(w, m, row) \/ Lock(m, row) \in {Lock("update", PaymentRowOf(p))}
  <2> DEFINE locks == {Lock("update", PaymentRowOf(p))}
  <2>1. /\ LocksTypeOK /\ w \in Tx /\ "decide" \in Statement /\ locks \in SUBSET Locks
        /\ tx[w].want = {} /\ Ask(w, locks, "decide")
    BY <1>1, <1>2, <1>3 DEF Statement
  <2> HIDE DEF locks
  <2>2. /\ tx' \in [Tx -> TxState] /\ \A u \in Tx \ {w} : tx'[u] = tx[u]
        /\ tx'[w].op = tx[w].op /\ tx'[w].at = "decide" /\ tx'[w].job = tx[w].job
        /\ tx'[w].answer = tx[w].answer /\ tx'[w].held = tx[w].held
        /\ tx'[w].held \cup tx'[w].want = tx[w].held \cup locks
        /\ \A m, row : Holds(w, m, row)' <=> Holds(w, m, row)
        /\ \A m, row : Takes(w, m, row) <=> Holds(w, m, row)
        /\ \A m, row : Takes(w, m, row)' <=> Holds(w, m, row) \/ Lock(m, row) \in locks
    BY <2>1, Asked
  <2>3. QED
    BY <2>2 DEF locks
<1>5. cases' = cases /\ jobs' = jobs /\ worker' = worker /\ payments' = payments
  BY <1>1 DEF vars, dbVars, workerVars
<1>6. PaymentOf(j)' = p /\ Takes(w, "update", PaymentRowOf(p))'
  BY <1>4, <1>5 DEF PaymentOf, PaymentRowOf
<1>7. CASE tx[w].op = "claim"
  <2>1. ClaimStage(w)'
    BY <1>1, <1>2, <1>4, <1>5, <1>6, <1>7
       DEF ClaimStage, JobExists, Claimable, CaseRowOf, PaymentRowOf, JobRowOf
  <2>2. Stage(w)'
    BY <1>4, <1>7, <2>1 DEF Stage
  <2>3. QED
    BY <1>1, <1>2, <1>4, <2>2, SilentKeepsInv
<1>8. CASE tx[w].op = "finalize"
  <2>1. \A l \in tx'[w].held \cup tx'[w].want : l.mode = "update"
    BY <1>1, <1>2, <1>4, <1>8 DEF FinalizeStage, Lock
  <2>2. FinalizeStage(w)'
    BY <1>1, <1>2, <1>4, <1>5, <1>6, <1>8, <2>1
       DEF FinalizeStage, Job, CaseRowOf, PaymentRowOf
  <2>3. Stage(w)'
    BY <1>4, <1>8, <2>2 DEF Stage
  <2>4. QED
    BY <1>1, <1>2, <1>4, <2>3, SilentKeepsInv
<1>9. QED
  BY <1>1, <1>7, <1>8

(* With its rows locked a claim commits what one step of the engine does.  *)
LEMMA CommittedClaim ==
  ASSUME StatementInv, NEW w \in Workers, CommitClaim(w)
  PROVE  \/ UNCHANGED vars
         \/ ClaimForPaid(w, tx[w].job) \/ BeginEvaluation(w, tx[w].job)
         \/ StartAttempt(w, tx[w].job) \/ ResumeAttempt(w, tx[w].job)
<1> DEFINE j == tx[w].job
           c == jobs[j].case
           n == jobs[j].count + 1
<1>1. /\ tx[w].op = "claim"
      /\ UNCHANGED <<payments, cases, handled, store, crashes>>
  BY DEF CommitClaim, At
<1>2. ClaimStage(w) /\ j \in JobIds
  BY <1>1, ClaimKnows
<1>3. worker[w].pc = "idle" /\ Claimable(j)
  BY <1>2 DEF ClaimStage
<1>4. jobs[j].type \in JobType
  BY <1>2 DEF StatementInv, RowsAndWorkers, TypeOK, DbTypeOK, JobRow
<1>5. CASE Paid(PaymentOf(j))
  <2>1. /\ jobs' = [jobs EXCEPT ![j] = [Claimed(w, j) EXCEPT !.status = "CANCELLED"]]
        /\ UNCHANGED <<attempts, worker>>
    BY <1>5 DEF CommitClaim
  <2>2. ClaimForPaid(w, j)
    BY <1>1, <1>3, <1>5, <2>1 DEF ClaimForPaid, workerVars
  <2>3. QED
    BY <2>2
<1>6. CASE ~Paid(PaymentOf(j)) /\ jobs[j].type = "EVALUATE_RECOVERY"
  <2>1. /\ jobs' = [jobs EXCEPT ![j] = Claimed(w, j)]
        /\ worker' = [worker EXCEPT ![w] = [Idle EXCEPT !.pc = "evaluating", !.job = j]]
        /\ UNCHANGED attempts
    BY <1>6 DEF CommitClaim
  <2>2. BeginEvaluation(w, j)
    BY <1>1, <1>3, <1>6, <2>1 DEF BeginEvaluation
  <2>3. QED
    BY <2>2
<1>7. CASE ~Paid(PaymentOf(j)) /\ jobs[j].type = "EXECUTE_CHARGE" /\ jobs[j].attempt # 0
  <2>1. /\ jobs' = [jobs EXCEPT ![j] = Claimed(w, j)]
        /\ worker' = [worker EXCEPT ![w] = [Idle EXCEPT
             !.pc = IF attempts[c][jobs[j].attempt] \in {"AMBIGUOUS", "RUNNING"}
                    THEN "verifying" ELSE "charging",
             !.job = j, !.attempt = jobs[j].attempt]]
        /\ UNCHANGED attempts
    BY <1>7 DEF CommitClaim
  <2>2. ResumeAttempt(w, j)
    BY <1>1, <1>3, <1>7, <2>1 DEF ResumeAttempt
  <2>3. QED
    BY <2>2
<1>8. CASE ~Paid(PaymentOf(j)) /\ jobs[j].type = "EXECUTE_CHARGE" /\ jobs[j].attempt = 0
  <2>1. IF n \in AttemptNos /\ NumberIsFree(c, n)
        THEN /\ InsertAttempt(c, n)
             /\ jobs' = [jobs EXCEPT ![j] = [Claimed(w, j) EXCEPT
                                                !.attempt = n, !.count = n]]
             /\ worker' = [worker EXCEPT ![w] = [Idle EXCEPT
                              !.pc = "verifying", !.job = j, !.attempt = n]]
        ELSE UNCHANGED <<attempts, jobs, worker>>
    BY <1>8 DEF CommitClaim
  <2>2. CASE n \in AttemptNos /\ NumberIsFree(c, n)
    <3>1. StartAttempt(w, j)
      BY <1>1, <1>3, <1>8, <2>1, <2>2 DEF StartAttempt
    <3>2. QED
      BY <3>1
  <2>3. CASE ~(n \in AttemptNos /\ NumberIsFree(c, n))
    BY <1>1, <2>1, <2>3 DEF vars, dbVars, workerVars
  <2>4. QED
    BY <2>2, <2>3
<1>9. QED
  BY <1>4, <1>5, <1>6, <1>7, <1>8 DEF JobType

LEMMA ClaimIsStep ==
  ASSUME NEW w \in Workers, NEW j \in JobIds,
         ClaimForPaid(w, j) \/ BeginEvaluation(w, j)
           \/ StartAttempt(w, j) \/ ResumeAttempt(w, j)
  PROVE  Next
BY DEF Next, WorkerStep, Claim

(* A claim writes its job and its worker only. *)
LEMMA ClaimsOwn ==
  ASSUME RowsAndWorkers, NEW w \in Workers, NEW j \in JobIds, JobExists(j),
         ClaimForPaid(w, j) \/ BeginEvaluation(w, j)
           \/ StartAttempt(w, j) \/ ResumeAttempt(w, j)
  PROVE  /\ UNCHANGED <<payments, cases, handled>>
         /\ \A v \in Workers \ {w} : worker'[v] = worker[v]
         /\ \A i \in JobIds \ {j} : jobs'[i] = jobs[i]
         /\ JobExists(j)' /\ SameReferences(j)
<1>1. jobs \in [JobIds -> JobRow] /\ worker \in [Workers -> WorkerState]
  BY DEF RowsAndWorkers, TypeOK, DbTypeOK, WorkerTypeOK
<1>2. CASE ClaimForPaid(w, j)
  BY <1>1, <1>2 DEF ClaimForPaid, Claimed, JobRow, JobExists, SameReferences, workerVars
<1>3. CASE BeginEvaluation(w, j)
  BY <1>1, <1>3 DEF BeginEvaluation, Claimed, JobRow, JobExists, SameReferences
<1>4. CASE ResumeAttempt(w, j)
  BY <1>1, <1>4 DEF ResumeAttempt, Claimed, JobRow, JobExists, SameReferences
<1>5. CASE StartAttempt(w, j)
  BY <1>1, <1>5 DEF StartAttempt, Claimed, JobRow, JobExists, SameReferences
<1>6. QED
  BY <1>2, <1>3, <1>4, <1>5

(* A worker that commits: its own rows. *)
LEMMA WorkerCommitKeepsInv ==
  ASSUME StatementInv, NEW w \in Workers, Close(w), UNCHANGED acked,
         RowsAndWorkers', WritesOwn(w)
  PROVE  StatementInv'
<1>1. /\ w \in Tx /\ LocksTypeOK /\ LocksExclude /\ acked \in SUBSET EventIds
  BY DEF StatementInv, Tx, LocksTypeOK
<1>2. \A u \in Tx \ {w} : Undisturbed(u)
  BY <1>1, OwnWritesDisturbNobody
<1>3. /\ Stage(w)' /\ tx' \in [Tx -> TxState] /\ tx'[w].held = {}
      /\ \A u \in Tx \ {w} : tx'[u] = tx[u]
  BY <1>1, CloseKeepsStage
<1>4. LocksExclude'
  BY <1>1, <1>3, StillExclusive
<1>5. QED
  BY <1>1, <1>2, <1>3, <1>4, InvKept DEF LocksTypeOK

LEMMA CommitClaimKeepsInv ==
  ASSUME StatementInv, NEW w \in Workers, CommitClaim(w)
  PROVE  StatementInv'
<1>1. /\ tx[w].op = "claim" /\ Close(w) /\ UNCHANGED acked
  BY DEF CommitClaim, At
<1> PICK j \in JobIds : j = tx[w].job
  BY <1>1, ClaimKnows
<1>2. /\ ClaimStage(w) /\ w \in Tx /\ LocksTypeOK /\ JobExists(j)
      /\ acked \in SUBSET EventIds /\ RowsAndWorkers
  BY <1>1, ClaimKnows DEF StatementInv
<1>3. CASE UNCHANGED vars
  BY <1>1, <1>2, <1>3, SilentCloseKeepsInv
<1>4. CASE \/ ClaimForPaid(w, j) \/ BeginEvaluation(w, j)
           \/ StartAttempt(w, j) \/ ResumeAttempt(w, j)
  <2>1. /\ payments' = payments /\ cases' = cases /\ handled' = handled
        /\ \A v \in Workers \ {w} : worker'[v] = worker[v]
        /\ \A i \in JobIds \ {j} : jobs'[i] = jobs[i]
        /\ JobExists(j)' /\ SameReferences(j)
    BY <1>2, <1>4, ClaimsOwn
  <2>2. RowsAndWorkers'
    BY <1>2, <1>4, ClaimIsStep, StepKeepsRowsAndWorkers
  <2>3. RowsKept
    BY <2>1 DEF RowsKept, CaseExists, JobExists, SameReferences
  <2>4. Holds(w, "update", JobRowOf(j))
    BY <1>2 DEF ClaimStage
  <2>5. \A u \in Tx \ {w} : tx'[u] = tx[u]
    BY <1>1, <1>2, CloseKeepsStage
  <2>6. \A p \in PaymentIds : ActiveCases(p)' = ActiveCases(p) /\ (Paid(p) => Paid(p)')
    BY <2>1 DEF ActiveCases, ActiveCase, CaseExists, Paid
  <2>7. WritesOwn(w)
    BY <2>1, <2>3, <2>4, <2>5, <2>6 DEF WritesOwn, Locked
  <2>8. QED
    BY <1>1, <2>2, <2>7, WorkerCommitKeepsInv
<1>5. QED
  BY <1>3, <1>4, CommittedClaim

LEMMA ReadJobKeepsInv ==
  ASSUME StatementInv, NEW w \in Workers, ReadJob(w)
  PROVE  StatementInv'
<1>1. PICK a \in Answers(worker[w].pc) :
         Open(w, [NoTx EXCEPT
                 !.op = "finalize", !.job = Job(w), !.answer = a,
                 !.at = IF a \in Decisions THEN "payment" ELSE "load",
                 !.want = IF a \in Decisions
                          THEN {Lock("update", CaseRowOf(jobs[Job(w)].case))}
                          ELSE {}])
  BY DEF ReadJob, Decisions
<1> DEFINE c == jobs[Job(w)].case
           locks == IF a \in Decisions THEN {Lock("update", CaseRowOf(c))} ELSE {}
           x == [NoTx EXCEPT !.op = "finalize", !.job = Job(w), !.answer = a,
                             !.at = IF a \in Decisions THEN "payment" ELSE "load",
                             !.want = locks]
<1>2. /\ worker[w].pc \in FinalizePc \cup {"evaluating", "ambiguous"}
      /\ UNCHANGED <<vars, acked>> /\ w \in Tx /\ tx \in [Tx -> TxState]
      /\ acked \in SUBSET EventIds /\ RowsAndWorkers
  BY DEF ReadJob, Tx, StatementInv, LocksTypeOK
<1>3. Job(w) \in JobIds /\ c \in CaseIds
  BY <1>2, JobInHand DEF FinalizePc
<1>4. locks \in SUBSET Locks /\ \A l \in locks : l.mode = "update"
  <2>1. Lock("update", CaseRowOf(c)) \in Locks
    BY <1>3, LockTypes DEF LockMode
  <2>2. Lock("update", CaseRowOf(c)).mode = "update"
    BY DEF Lock
  <2>3. QED
    BY <2>1, <2>2
<1>5. /\ worker[w].pc = "evaluating" => a \in {"error"} \cup Decisions
      /\ worker[w].pc # "evaluating" => a = "none"
  BY DEF Answers, Decisions
<1>6. x \in TxState
  BY <1>3, <1>4, <1>5 DEF TxState, NoTx, Statement, Decisions
<1>7. tx' = [tx EXCEPT ![w] = x]
  BY <1>1 DEF Open
<1>8. /\ tx'[w] = x /\ tx' \in [Tx -> TxState]
      /\ \A u \in Tx \ {w} : tx'[u] = tx[u]
  BY <1>2, <1>6, <1>7
<1>9. /\ x.op = "finalize" /\ x.job = Job(w) /\ x.answer = a
      /\ x.at = (IF a \in Decisions THEN "payment" ELSE "load")
      /\ x.held = {} /\ x.want = locks
  BY DEF NoTx
<1> HIDE DEF x
<1>10. jobs' = jobs /\ worker' = worker
  BY <1>2 DEF vars, dbVars, workerVars
<1>11. a \in Decisions => Takes(w, "update", CaseRowOf(jobs[tx[w].job].case))'
  <2>1. jobs'[tx'[w].job].case = c
    BY <1>8, <1>9, <1>10
  <2>2. QED
    BY <1>8, <1>9, <2>1 DEF Takes, Lock, CaseRowOf
<1>12. "late" \notin {"none", "error"} \cup Decisions /\ "none" \notin Decisions
       /\ "error" \notin Decisions
  BY DEF Decisions
<1>13. FinalizeStage(w)'
  <2>1. /\ tx'[w].at \in {"payment", "load"}
        /\ tx'[w].at = "payment" <=> a \in Decisions
    BY <1>8, <1>9
  <2>2. IF worker'[w].pc = "evaluating" THEN tx'[w].answer # "none"
        ELSE tx'[w].answer = "none"
    BY <1>5, <1>8, <1>9, <1>10, <1>12
  <2>3. \A l \in tx'[w].held \cup tx'[w].want : l.mode = "update"
    BY <1>4, <1>8, <1>9
  <2>4. tx'[w].answer = a /\ a # "late"
    BY <1>5, <1>8, <1>9, <1>12
  <2>5. QED
    BY <1>2, <1>8, <1>9, <1>10, <1>11, <2>1, <2>2, <2>3, <2>4
       DEF FinalizeStage, Job
<1>14. Stage(w)'
  BY <1>8, <1>9, <1>13 DEF Stage
<1>15. tx'[w].held \subseteq tx[w].held
  BY <1>8, <1>9
<1>16. QED
  BY <1>2, <1>8, <1>14, <1>15, SilentKeepsInv

LEMMA DecideKeepsInv ==
  ASSUME StatementInv, NEW w \in Workers, Decide(w)
  PROVE  StatementInv'
<1> DEFINE p == PaymentOf(Job(w))
           x == [tx[w] EXCEPT !.answer = IF Paid(p) THEN "late" ELSE @, !.at = "load"]
<1>1. /\ tx[w].op = "finalize" /\ tx[w].at = "decide" /\ tx[w].want = {}
      /\ UNCHANGED <<vars, acked>>
      /\ tx' = [tx EXCEPT ![w].answer = IF Paid(p) THEN "late" ELSE @,
                          ![w].at = "load"]
  BY DEF Decide, At
<1>2. /\ FinalizeStage(w) /\ w \in Tx /\ tx[w] \in TxState /\ tx \in [Tx -> TxState]
      /\ tx[w].job = Job(w) /\ acked \in SUBSET EventIds
  BY <1>1, FinalizeKnows DEF LocksTypeOK
<1>3. x \in TxState
  <2> DEFINE answer == IF Paid(p) THEN "late" ELSE tx[w].answer
  <2>1. answer \in {"none", "error", "CHARGE", "ABORT", "DELAY", "late"}
    BY <1>2 DEF TxState
  <2>2. "load" \in Statement
    BY DEF Statement
  <2>3. x = [tx[w] EXCEPT !.answer = answer, !.at = "load"]
    OBVIOUS
  <2> HIDE DEF answer, x
  <2>4. x = [op |-> tx[w].op, at |-> "load", want |-> tx[w].want, held |-> tx[w].held,
             job |-> tx[w].job, case |-> tx[w].case, event |-> tx[w].event,
             found |-> tx[w].found, answer |-> answer]
    BY <1>2, <2>3 DEF TxState
  <2>5. QED
    BY <1>2, <2>1, <2>2, <2>4 DEF TxState
<1>4. tx' = [tx EXCEPT ![w] = x]
  BY <1>1, <1>2
<1>5. /\ tx'[w] = x /\ tx' \in [Tx -> TxState]
      /\ \A u \in Tx \ {w} : tx'[u] = tx[u]
  BY <1>2, <1>3, <1>4
<1>6. /\ x.op = "finalize" /\ x.job = Job(w) /\ x.at = "load"
      /\ x.answer = (IF Paid(p) THEN "late" ELSE tx[w].answer)
      /\ x.held = tx[w].held /\ x.want = {}
  BY <1>1, <1>2 DEF TxState
<1> HIDE DEF x
<1>7. /\ tx[w].answer \in Decisions /\ Holds(w, "update", CaseRowOf(jobs[Job(w)].case))
      /\ Holds(w, "update", PaymentRowOf(p))
      /\ \A l \in tx[w].held \cup tx[w].want : l.mode = "update"
      /\ worker[w].pc = "evaluating"
  BY <1>1, <1>2 DEF FinalizeStage, Takes, Holds, Decisions
<1>8. jobs' = jobs /\ worker' = worker /\ cases' = cases /\ payments' = payments
  BY <1>1 DEF vars, dbVars, workerVars
<1>9. \A m, row : Holds(w, m, row)' <=> Holds(w, m, row)
  BY <1>5, <1>6 DEF Holds, Lock
<1>10. FinalizeStage(w)'
  BY <1>2, <1>5, <1>6, <1>7, <1>8, <1>9
     DEF FinalizeStage, Job, PaymentOf, Paid, CaseRowOf, PaymentRowOf, Decisions
<1>11. Stage(w)'
  BY <1>5, <1>6, <1>10 DEF Stage
<1>12. QED
  BY <1>1, <1>2, <1>5, <1>6, <1>11, SilentKeepsInv

(* The rows a finalizing worker found it has to write, when it found out.  *)
LEMMA LoadedRows ==
  ASSUME StatementInv, NEW w \in Workers, LoadRows(w),
         NEW c, c = jobs[Job(w)].case
  PROVE  /\ tx' \in [Tx -> TxState] /\ \A u \in Tx \ {w} : tx'[u] = tx[u]
         /\ tx'[w].op = "finalize" /\ tx'[w].at = "save" /\ tx'[w].job = tx[w].job
         /\ tx'[w].answer = tx[w].answer /\ tx'[w].held = tx[w].held
         /\ \A m, row : Holds(w, m, row)' <=> Holds(w, m, row)
         /\ Takes(w, "change", JobRowOf(Job(w)))'
               <=> JobOutcome(w) # jobs[Job(w)].status
         /\ worker[w].attempt # 0 =>
               (Takes(w, "change", AttemptRow(c, worker[w].attempt))' <=>
                   AttemptOutcome(w) \notin {"none", attempts[c][worker[w].attempt]})
         /\ Takes(w, "change", CaseRowOf(c))' <=>
               CaseOutcome(w) \notin {"none", cases[c].status}
         /\ Takes(w, "change", PaymentRowOf(cases[c].payment))' <=>
               AttemptOutcome(w) = "SUCCEEDED" /\ ~Paid(cases[c].payment)
         /\ Takes(w, "refer", CaseRowOf(c))' <=> NextJob(w) # "none"
<1> DEFINE j == Job(w)
           n == worker[w].attempt
           p == cases[c].payment
           Changed(old, new, row) == IF new \in {"none", old} THEN {}
                                     ELSE {Lock("change", row)}
           locks == Changed(jobs[j].status, JobOutcome(w), JobRowOf(j))
                    \cup (IF n = 0 THEN {} ELSE
                          Changed(attempts[c][n], AttemptOutcome(w), AttemptRow(c, n)))
                    \cup Changed(cases[c].status, CaseOutcome(w), CaseRowOf(c))
                    \cup PaymentRowToChange(w)
                    \cup (IF NextJob(w) = "none" THEN {}
                          ELSE {Lock("refer", CaseRowOf(c))})
<1>1. /\ tx[w].op = "finalize" /\ tx[w].at = "load" /\ tx[w].want = {}
      /\ UNCHANGED <<vars, acked>> /\ Ask(w, locks, "save")
  BY DEF LoadRows, At
<1>2. /\ FinalizeStage(w) /\ w \in Tx /\ LocksTypeOK
      /\ j \in JobIds /\ c \in CaseIds /\ p \in PaymentIds
      /\ PaymentOf(j) = p /\ n \in AttemptNos \cup {0}
  BY <1>1, FinalizeKnows DEF PaymentOf
<1>3. PaymentRowToChange(w) =
         {Lock("change", PaymentRowOf(q)) :
             q \in {r \in {p} : AttemptOutcome(w) = "SUCCEEDED" /\ ~Paid(r)}}
  BY <1>2 DEF PaymentRowToChange
<1>4. /\ Lock("change", JobRowOf(j)) \in Locks
      /\ n # 0 => Lock("change", AttemptRow(c, n)) \in Locks
      /\ Lock("change", CaseRowOf(c)) \in Locks /\ Lock("refer", CaseRowOf(c)) \in Locks
      /\ Lock("change", PaymentRowOf(p)) \in Locks
  BY <1>2, LockTypes DEF LockMode
<1>5. locks \in SUBSET Locks
  BY <1>3, <1>4
<1>6. JobOutcome(w) # "none"
  BY DEF JobOutcome
<1>7. \A m, row : Lock(m, row) \in locks <=>
         \/ /\ m = "change" /\ row = JobRowOf(j) /\ JobOutcome(w) # jobs[j].status
         \/ /\ n # 0 /\ m = "change" /\ row = AttemptRow(c, n)
            /\ AttemptOutcome(w) \notin {"none", attempts[c][n]}
         \/ /\ m = "change" /\ row = CaseRowOf(c)
            /\ CaseOutcome(w) \notin {"none", cases[c].status}
         \/ /\ m = "change" /\ row = PaymentRowOf(p)
            /\ AttemptOutcome(w) = "SUCCEEDED" /\ ~Paid(p)
         \/ m = "refer" /\ row = CaseRowOf(c) /\ NextJob(w) # "none"
  <2> TAKE m, row
  <2>1. Lock(m, row) \in PaymentRowToChange(w) <=>
           /\ m = "change" /\ row = PaymentRowOf(p)
           /\ AttemptOutcome(w) = "SUCCEEDED" /\ ~Paid(p)
    BY <1>3, RowsDiffer
  <2>2. \A old, new, r : Lock(m, row) \in Changed(old, new, r) <=>
           new \notin {"none", old} /\ m = "change" /\ row = r
    BY RowsDiffer
  <2>3. Lock(m, row) \in (IF NextJob(w) = "none" THEN {} ELSE {Lock("refer", CaseRowOf(c))})
           <=> m = "refer" /\ row = CaseRowOf(c) /\ NextJob(w) # "none"
    BY RowsDiffer
  <2>4. Lock(m, row) \in locks <=>
           \/ Lock(m, row) \in Changed(jobs[j].status, JobOutcome(w), JobRowOf(j))
           \/ n # 0 /\ Lock(m, row) \in Changed(attempts[c][n], AttemptOutcome(w),
                                                AttemptRow(c, n))
           \/ Lock(m, row) \in Changed(cases[c].status, CaseOutcome(w), CaseRowOf(c))
           \/ Lock(m, row) \in PaymentRowToChange(w)
           \/ Lock(m, row) \in (IF NextJob(w) = "none" THEN {}
                                ELSE {Lock("refer", CaseRowOf(c))})
    OBVIOUS
  <2> HIDE DEF locks, Changed
  <2>5. QED
    BY <1>6, <2>1, <2>2, <2>3, <2>4
<1> HIDE DEF locks
<1>8. /\ tx' \in [Tx -> TxState] /\ \A u \in Tx \ {w} : tx'[u] = tx[u]
      /\ tx'[w].op = "finalize" /\ tx'[w].at = "save" /\ tx'[w].job = tx[w].job
      /\ tx'[w].answer = tx[w].answer /\ tx'[w].held = tx[w].held
      /\ \A m, row : Holds(w, m, row)' <=> Holds(w, m, row)
      /\ \A m, row : Takes(w, m, row) <=> Holds(w, m, row)
      /\ \A m, row : Takes(w, m, row)' <=> Holds(w, m, row) \/ Lock(m, row) \in locks
  BY <1>1, <1>2, <1>5, Asked DEF Statement
<1>9. \A m, row : Holds(w, m, row) => m = "update"
  <2>1. \A l \in tx[w].held : l.mode = "update"
    BY <1>1, <1>2 DEF FinalizeStage
  <2>2. QED
    BY <2>1 DEF Holds, Lock
<1>10. \A m, row : m # "update" => (Takes(w, m, row)' <=> Lock(m, row) \in locks)
  BY <1>8, <1>9
<1>11. jobs' = jobs /\ cases' = cases /\ worker' = worker
  BY <1>1 DEF vars, dbVars, workerVars
<1>12. /\ Takes(w, "change", JobRowOf(Job(w)))' <=> Lock("change", JobRowOf(j)) \in locks
       /\ Takes(w, "change", AttemptRow(c, worker[w].attempt))'
             <=> Lock("change", AttemptRow(c, n)) \in locks
       /\ Takes(w, "change", CaseRowOf(c))' <=> Lock("change", CaseRowOf(c)) \in locks
       /\ Takes(w, "change", PaymentRowOf(cases[c].payment))'
             <=> Lock("change", PaymentRowOf(p)) \in locks
       /\ Takes(w, "refer", CaseRowOf(c))' <=> Lock("refer", CaseRowOf(c)) \in locks
  BY <1>10, <1>11 DEF Job
<1>13. /\ Lock("change", JobRowOf(j)) \in locks <=> JobOutcome(w) # jobs[j].status
       /\ n # 0 => (Lock("change", AttemptRow(c, n)) \in locks
                      <=> AttemptOutcome(w) \notin {"none", attempts[c][n]})
       /\ Lock("change", CaseRowOf(c)) \in locks
             <=> CaseOutcome(w) \notin {"none", cases[c].status}
       /\ Lock("change", PaymentRowOf(p)) \in locks
             <=> AttemptOutcome(w) = "SUCCEEDED" /\ ~Paid(p)
       /\ Lock("refer", CaseRowOf(c)) \in locks <=> NextJob(w) # "none"
  BY <1>7, RowsDiffer
<1>14. QED
  BY <1>8, <1>12, <1>13

LEMMA LoadRowsKeepsInv ==
  ASSUME StatementInv, NEW w \in Workers, LoadRows(w)
  PROVE  StatementInv'
<1> PICK c : c = jobs[Job(w)].case
  OBVIOUS
<1> DEFINE n == worker[w].attempt
           p == cases[c].payment
<1>1. /\ tx[w].op = "finalize" /\ tx[w].at = "load" /\ UNCHANGED <<vars, acked>>
  BY DEF LoadRows, At
<1>2. /\ FinalizeStage(w) /\ w \in Tx /\ acked \in SUBSET EventIds /\ tx[w].job = Job(w)
  BY <1>1, FinalizeKnows
<1>3. /\ tx' \in [Tx -> TxState] /\ \A u \in Tx \ {w} : tx'[u] = tx[u]
      /\ tx'[w].op = "finalize" /\ tx'[w].at = "save" /\ tx'[w].job = tx[w].job
      /\ tx'[w].answer = tx[w].answer /\ tx'[w].held = tx[w].held
      /\ \A m, row : Holds(w, m, row)' <=> Holds(w, m, row)
      /\ worker[w].attempt # 0 =>
            (Takes(w, "change", AttemptRow(c, worker[w].attempt))' <=>
                AttemptOutcome(w) \notin {"none", attempts[c][worker[w].attempt]})
      /\ Takes(w, "change", CaseRowOf(c))' <=>
            CaseOutcome(w) \notin {"none", cases[c].status}
      /\ Takes(w, "change", PaymentRowOf(cases[c].payment))' <=>
            AttemptOutcome(w) = "SUCCEEDED" /\ ~Paid(cases[c].payment)
      /\ Takes(w, "refer", CaseRowOf(c))' <=> NextJob(w) # "none"
  BY LoadedRows
<1>4. /\ jobs' = jobs /\ worker' = worker /\ cases' = cases /\ payments' = payments
  BY <1>1 DEF vars, dbVars, workerVars
<1>5. /\ AttemptOutcome(w)' = AttemptOutcome(w)
      /\ CaseOutcome(w)' = CaseOutcome(w) /\ NextJob(w)' = NextJob(w)
  BY <1>3, <1>4 DEF AttemptOutcome, CaseOutcome, NextJob, GivesUp, AttemptsLeft, Job
<1>6. jobs'[tx'[w].job].case = c /\ PaymentOf(tx[w].job) = p /\ PaymentOf(tx[w].job)' = p
  BY <1>2, <1>3, <1>4 DEF PaymentOf
<1>7. Paid(PaymentOf(tx[w].job))' <=> Paid(p)
  BY <1>4, <1>6 DEF Paid
<1>8. /\ Takes(w, "change", AttemptRow(jobs[tx[w].job].case, worker[w].attempt))'
            <=> Takes(w, "change", AttemptRow(c, worker[w].attempt))'
      /\ Takes(w, "change", CaseRowOf(jobs[tx[w].job].case))'
            <=> Takes(w, "change", CaseRowOf(c))'
      /\ Takes(w, "refer", CaseRowOf(jobs[tx[w].job].case))'
            <=> Takes(w, "refer", CaseRowOf(c))'
      /\ Takes(w, "change", PaymentRowOf(PaymentOf(tx[w].job)))'
            <=> Takes(w, "change", PaymentRowOf(cases[c].payment))'
  BY <1>4, <1>6
<1>9. /\ tx[w].answer \in Decisions \cup {"late"} =>
            /\ Holds(w, "update", CaseRowOf(c))
            /\ Holds(w, "update", PaymentRowOf(p))
            /\ Paid(p) <=> tx[w].answer = "late"
      /\ worker[w].pc \in FinalizePc \cup {"evaluating", "ambiguous"}
      /\ IF worker[w].pc = "evaluating" THEN tx[w].answer # "none"
         ELSE tx[w].answer = "none"
  BY <1>1, <1>2, <1>6 DEF FinalizeStage
<1>10. tx[w].answer \in Decisions \cup {"late"} =>
            /\ Holds(w, "update", CaseRowOf(jobs[tx[w].job].case))'
            /\ Holds(w, "update", PaymentRowOf(PaymentOf(tx[w].job)))'
  BY <1>3, <1>4, <1>6, <1>9 DEF CaseRowOf, PaymentRowOf
<1>11. FinalizeStage(w)'
  BY <1>2, <1>3, <1>4, <1>5, <1>6, <1>7, <1>8, <1>9, <1>10 DEF FinalizeStage, Job
<1>12. Stage(w)'
  BY <1>3, <1>11 DEF Stage
<1>13. QED
  BY <1>1, <1>2, <1>3, <1>12, SilentKeepsInv

(* A next job is only added while the budget allows another attempt. *)
LEMMA NextJobFits ==
  ASSUME StatementInv, NEW w \in Workers, tx[w].op = "finalize", NextJob(w) # "none"
  PROVE  jobs[Job(w)].count < MaxAttempts /\ NextJob(w) \in JobType
<1>1. /\ FinalizeStage(w) /\ Job(w) \in JobIds /\ JobExists(Job(w)) /\ worker[w].pc # "idle"
  BY FinalizeKnows
<1>2. ~GivesUp(w) /\ AttemptOutcome(w) \notin {"SUCCEEDED", "AMBIGUOUS"}
  <2>1. GivesUp(w) \in BOOLEAN
    BY DEF GivesUp, AttemptsLeft
  <2>2. GivesUp(w) => NextJob(w) = "none"
    BY <2>1 DEF NextJob
  <2>3. AttemptOutcome(w) \in {"SUCCEEDED", "AMBIGUOUS"} => NextJob(w) = "none"
    BY <2>1 DEF NextJob
  <2>4. QED
    BY <2>1, <2>2, <2>3
<1>3. NextJob(w) \in JobType
  BY <1>2 DEF NextJob, JobType
<1>4. /\ jobs[Job(w)] \in JobRow /\ RowsAndWorkers
  BY <1>1 DEF StatementInv, RowsAndWorkers, TypeOK, DbTypeOK
<1>5. CASE worker[w].pc = "evaluating"
  <2>1. jobs[Job(w)].attempt = 0
    BY <1>1, <1>4, <1>5 DEF RowsAndWorkers, WorkersAreSound, JobsAreSound
  <2>2. jobs[Job(w)].count + 1 <= MaxAttempts
    BY <1>1, <1>4, <2>1 DEF RowsAndWorkers, JobsAreSound, NextNumber
  <2>3. jobs[Job(w)].count \in Int
    BY <1>4 DEF JobRow, AttemptNos
  <2>4. QED
    BY <1>3, <2>2, <2>3, MaxAttemptsAssumption
<1>6. CASE worker[w].pc # "evaluating"
  <2>1. AttemptOutcome(w) = "FAILED"
    BY <1>2, <1>6 DEF AttemptOutcome
  <2>2. AttemptsLeft(Job(w))
    BY <1>2, <2>1 DEF GivesUp
  <2>3. QED
    BY <1>3, <2>2 DEF AttemptsLeft
<1>7. QED
  BY <1>5, <1>6

(* What a finalizing transaction writes, row by row. *)
LEMMA CommittedRows ==
  ASSUME StatementInv, NEW w \in Workers, NEW k \in JobIds, CommitFinalize(w, k),
         NEW j, j = Job(w), NEW c, c = jobs[j].case, NEW n, n = worker[w].attempt
  PROVE  /\ \A i \in JobIds : JobExists(i) => \/ jobs'[i] = jobs[i]
                                              \/ /\ i = j /\ Holds(w, "change", JobRowOf(j))
                                                 /\ jobs'[i] = Ended(j, JobOutcome(w))
         /\ \A i \in JobIds : ~JobExists(i) => \/ jobs'[i] = jobs[i]
                                               \/ /\ NextJob(w) # "none"
                                                  /\ jobs'[i] = NewJob(c, NextJob(w), jobs[j].count)
         /\ \A d \in CaseIds : \/ cases'[d] = cases[d]
                               \/ /\ d = c /\ Holds(w, "change", CaseRowOf(c))
                                  /\ cases'[d] = [cases[d] EXCEPT !.status = CaseOutcome(w)]
         /\ \A p \in PaymentIds : \/ payments'[p] = payments[p]
                                  \/ /\ p = cases[c].payment
                                     /\ Holds(w, "change", PaymentRowOf(p))
                                     /\ payments'[p].status = "SUCCEEDED"
         /\ \A d \in CaseIds, m \in AttemptNos :
               \/ attempts'[d][m] = attempts[d][m]
               \/ /\ d = c /\ m = n /\ Holds(w, "change", AttemptRow(c, n))
                  /\ attempts'[d][m] = AttemptOutcome(w)
         /\ jobs' \in [JobIds -> JobRow]
         /\ cases' \in [CaseIds -> CaseRow]
         /\ payments' \in [PaymentIds -> PaymentRow]
         /\ attempts' \in [CaseIds -> [AttemptNos -> AttemptState \cup {"ABSENT"}]]
<1> DEFINE saved == IF Holds(w, "change", JobRowOf(j))
                    THEN [jobs EXCEPT ![j] = Ended(j, JobOutcome(w))] ELSE jobs
<1>1. /\ tx[w].op = "finalize" /\ tx[w].at = "save" /\ tx[w].want = {}
      /\ NextJob(w) # "none" => ~JobExists(k)
      /\ jobs' = IF NextJob(w) = "none" THEN saved
                 ELSE [saved EXCEPT ![k] = NewJob(c, NextJob(w), jobs[j].count)]
      /\ attempts' = IF n # 0 /\ Holds(w, "change", AttemptRow(c, n))
                     THEN [attempts EXCEPT ![c][n] = AttemptOutcome(w)]
                     ELSE attempts
      /\ cases' = IF Holds(w, "change", CaseRowOf(c))
                  THEN [cases EXCEPT ![c].status = CaseOutcome(w)] ELSE cases
      /\ payments' = IF Holds(w, "change", PaymentRowOf(PaymentOf(j)))
                     THEN [payments EXCEPT ![PaymentOf(j)].status = "SUCCEEDED"]
                     ELSE payments
  BY DEF CommitFinalize, At
<1>2. /\ FinalizeStage(w) /\ j \in JobIds /\ JobExists(j) /\ c \in CaseIds /\ CaseExists(c)
      /\ PaymentOf(j) = cases[c].payment /\ PaymentOf(j) \in PaymentIds
      /\ n \in AttemptNos \cup {0} /\ tx[w].job = j
  BY <1>1, FinalizeKnows DEF PaymentOf
<1>3. /\ n # 0 /\ Holds(w, "change", AttemptRow(c, n)) => AttemptOutcome(w) # "none"
      /\ Holds(w, "change", CaseRowOf(c)) => CaseOutcome(w) # "none"
  BY <1>1, <1>2 DEF FinalizeStage, Takes, Holds
<1>4. /\ jobs \in [JobIds -> JobRow] /\ cases \in [CaseIds -> CaseRow]
      /\ payments \in [PaymentIds -> PaymentRow] /\ TypeOK
      /\ attempts \in [CaseIds -> [AttemptNos -> AttemptState \cup {"ABSENT"}]]
  BY DEF StatementInv, RowsAndWorkers, TypeOK, DbTypeOK
<1>5. /\ JobOutcome(w) \in JobState
      /\ AttemptOutcome(w) \in AttemptState \cup {"none"}
      /\ CaseOutcome(w) \in RecoveryState \cup {"none"}
  BY DEF JobOutcome, AttemptOutcome, CaseOutcome, JobState, AttemptState, RecoveryState
<1>6. /\ saved \in [JobIds -> JobRow]
      /\ \A i \in JobIds : \/ saved[i] = jobs[i]
                           \/ /\ i = j /\ Holds(w, "change", JobRowOf(j))
                              /\ saved[i] = Ended(j, JobOutcome(w))
  BY <1>2, <1>4, <1>5, JobRows
<1> HIDE DEF saved
<1>7. NextJob(w) # "none" => NewJob(c, NextJob(w), jobs[j].count) \in JobRow
  BY <1>1, <1>2, <1>4, NextJobFits, JobRows
<1>8. /\ jobs' \in [JobIds -> JobRow]
      /\ \A i \in JobIds : \/ jobs'[i] = saved[i]
                           \/ /\ i = k /\ NextJob(w) # "none"
                              /\ jobs'[i] = NewJob(c, NextJob(w), jobs[j].count)
  BY <1>1, <1>6, <1>7
<1>9. /\ \A i \in JobIds : JobExists(i) => \/ jobs'[i] = jobs[i]
                                           \/ /\ i = j /\ Holds(w, "change", JobRowOf(j))
                                              /\ jobs'[i] = Ended(j, JobOutcome(w))
      /\ \A i \in JobIds : ~JobExists(i) => \/ jobs'[i] = jobs[i]
                                            \/ /\ NextJob(w) # "none"
                                               /\ jobs'[i] = NewJob(c, NextJob(w), jobs[j].count)
  BY <1>1, <1>2, <1>6, <1>8
<1>10. /\ cases' \in [CaseIds -> CaseRow]
       /\ \A d \in CaseIds : \/ cases'[d] = cases[d]
                             \/ /\ d = c /\ Holds(w, "change", CaseRowOf(c))
                                /\ cases'[d] = [cases[d] EXCEPT !.status = CaseOutcome(w)]
  BY SMTT(30), <1>1, <1>2, <1>3, <1>4, <1>5 DEF CaseRow
<1>11. /\ payments' \in [PaymentIds -> PaymentRow]
       /\ \A p \in PaymentIds : \/ payments'[p] = payments[p]
                                \/ /\ p = cases[c].payment
                                   /\ Holds(w, "change", PaymentRowOf(p))
                                   /\ payments'[p].status = "SUCCEEDED"
  BY <1>1, <1>2, <1>4 DEF PaymentRow, PaymentState
<1>12. /\ attempts' \in [CaseIds -> [AttemptNos -> AttemptState \cup {"ABSENT"}]]
       /\ \A d \in CaseIds, m \in AttemptNos :
             \/ attempts'[d][m] = attempts[d][m]
             \/ /\ d = c /\ m = n /\ Holds(w, "change", AttemptRow(c, n))
                /\ attempts'[d][m] = AttemptOutcome(w)
  <2>1. CASE n # 0 /\ Holds(w, "change", AttemptRow(c, n))
    BY <1>1, <1>2, <1>3, <1>4, <1>5, <2>1
  <2>2. CASE ~(n # 0 /\ Holds(w, "change", AttemptRow(c, n)))
    BY <1>1, <1>4, <2>2
  <2>3. QED
    BY <2>1, <2>2
<1>13. QED
  BY <1>9, <1>8, <1>10, <1>11, <1>12

(* It adds one job at most, and closes one case. *)
LEMMA FinalizeIsQuiet ==
  ASSUME StatementInv, NEW w \in Workers, NEW k \in JobIds, CommitFinalize(w, k),
         NEW c, c = jobs[Job(w)].case
  PROVE  /\ CasesKept /\ JobsKept
         /\ \A d \in CaseIds :
            /\ cases'[d].payment = cases[d].payment
            /\ \/ cases'[d] = cases[d]
               \/ /\ d = c /\ cases'[d].status = CaseOutcome(w)
                  /\ CaseOutcome(w) \in {"STOPPED", "RECOVERED"}
<1> PICK j : j = Job(w)
  OBVIOUS
<1>1. tx[w].op = "finalize" /\ tx[w].at = "save" /\ tx[w].want = {}
  BY DEF CommitFinalize, At
<1>2. /\ FinalizeStage(w) /\ tx[w].job = j
      /\ j \in JobIds /\ JobExists(j) /\ c \in CaseIds /\ CaseExists(c)
  BY <1>1, FinalizeKnows
<1>3. Holds(w, "change", CaseRowOf(c)) => CaseOutcome(w) # "none"
  BY <1>1, <1>2 DEF FinalizeStage, Takes, Holds
<1>4. /\ \A i \in JobIds : JobExists(i) => \/ jobs'[i] = jobs[i]
                                           \/ /\ i = j /\ Holds(w, "change", JobRowOf(j))
                                              /\ jobs'[i] = Ended(j, JobOutcome(w))
      /\ \A i \in JobIds : ~JobExists(i) => \/ jobs'[i] = jobs[i]
                                            \/ /\ NextJob(w) # "none"
                                               /\ jobs'[i] = NewJob(c, NextJob(w), jobs[j].count)
      /\ \A d \in CaseIds : \/ cases'[d] = cases[d]
                            \/ /\ d = c /\ Holds(w, "change", CaseRowOf(c))
                               /\ cases'[d] = [cases[d] EXCEPT !.status = CaseOutcome(w)]
  <2>1. /\ \A i \in JobIds : JobExists(i) => \/ jobs'[i] = jobs[i]
                                              \/ /\ i = j /\ Holds(w, "change", JobRowOf(j))
                                                 /\ jobs'[i] = Ended(j, JobOutcome(w))
        /\ \A i \in JobIds : ~JobExists(i) => \/ jobs'[i] = jobs[i]
                                               \/ /\ NextJob(w) # "none"
                                                  /\ jobs'[i] = NewJob(c, NextJob(w), jobs[j].count)
    BY CommittedRows
  <2>2. \A d \in CaseIds :
           \/ cases'[d] = cases[d]
           \/ /\ d = c /\ Holds(w, "change", CaseRowOf(c))
              /\ cases'[d] = [cases[d] EXCEPT !.status = CaseOutcome(w)]
    BY CommittedRows
  <2>3. QED
    BY <2>1, <2>2
<1>5. RowsRefer /\ jobs \in [JobIds -> JobRow] /\ cases \in [CaseIds -> CaseRow]
  BY DEF StatementInv, RowsAndWorkers, TypeOK, DbTypeOK
<1>6. JobOutcome(w) # "ABSENT" /\ CaseOutcome(w) \in {"STOPPED", "RECOVERED", "none"}
  BY DEF JobOutcome, CaseOutcome
<1>7. \A d \in CaseIds :
          /\ cases'[d].payment = cases[d].payment
          /\ \/ cases'[d] = cases[d]
             \/ /\ d = c /\ cases'[d].status = CaseOutcome(w)
                /\ CaseOutcome(w) \in {"STOPPED", "RECOVERED"}
  <2> TAKE d \in CaseIds
  <2>1. CASE cases'[d] = cases[d]
    BY <2>1
  <2>2. CASE /\ d = c /\ Holds(w, "change", CaseRowOf(c))
             /\ cases'[d] = [cases[d] EXCEPT !.status = CaseOutcome(w)]
    <3>1. cases[d] \in CaseRow
      BY <1>5
    <3>2. cases'[d].status = CaseOutcome(w) /\ cases'[d].payment = cases[d].payment
      BY <2>2, <3>1 DEF CaseRow
    <3>3. QED
      BY <1>3, <1>6, <2>2, <3>2
  <2>3. QED
    BY <1>4, <2>1, <2>2
<1>8. CasesKept
  <2>1. \A d \in CaseIds : /\ cases'[d].payment = cases[d].payment
                           /\ CaseExists(d)' <=> CaseExists(d)
    BY <1>2, <1>6, <1>7 DEF CaseExists
  <2>2. QED
    BY <1>5, <2>1 DEF CasesKept, RowsRefer
<1>9. JobsKept
  <2> SUFFICES ASSUME NEW i \in JobIds
               PROVE  /\ JobExists(i) => JobExists(i)' /\ SameJob(i)
                      /\ ~JobExists(i) /\ JobExists(i)' => FitsIn(i)
    BY DEF JobsKept
  <2>1. CASE JobExists(i)
    <3>1. CASE jobs'[i] = jobs[i]
      BY <2>1, <3>1 DEF SameJob, JobExists
    <3>2. CASE i = j /\ jobs'[i] = Ended(j, JobOutcome(w))
      BY <1>5, <1>6, <2>1, <3>2 DEF SameJob, JobExists, Ended, JobRow
    <3>3. QED
      BY <1>4, <2>1, <3>1, <3>2
  <2>2. CASE ~JobExists(i) /\ JobExists(i)'
    <3>1. NextJob(w) # "none" /\ jobs'[i] = NewJob(c, NextJob(w), jobs[j].count)
      BY <1>4, <2>2 DEF JobExists
    <3>2. jobs[j].count < MaxAttempts
      BY <1>1, <3>1, NextJobFits
    <3>3. CaseExists(c)'
      BY <1>2, <1>8 DEF CasesKept
    <3>4. /\ jobs'[i].case = c /\ jobs'[i].attempt = 0
          /\ jobs'[i].count = jobs[j].count
      BY <3>1 DEF NewJob
    <3>5. QED
      BY <1>2, <2>2, <3>2, <3>3, <3>4 DEF FitsIn, CaseExists
  <2>3. QED
    BY <2>1, <2>2
<1>10. QED
  BY <1>7, <1>8, <1>9

LEMMA CommitFinalizeKeepsInv ==
  ASSUME StatementInv, NEW w \in Workers, NEW k \in JobIds, CommitFinalize(w, k)
  PROVE  StatementInv'
<1> PICK j : j = Job(w)
  OBVIOUS
<1> PICK c : c = jobs[j].case
  OBVIOUS
<1> PICK n : n = worker[w].attempt
  OBVIOUS
<1>1. /\ tx[w].op = "finalize" /\ tx[w].at = "save" /\ tx[w].want = {}
      /\ Close(w) /\ Release(w) /\ UNCHANGED <<handled, store, crashes, acked>>
  BY DEF CommitFinalize, At
<1>2. /\ FinalizeStage(w) /\ w \in Tx /\ LocksTypeOK /\ worker[w].pc # "idle"
      /\ j \in JobIds /\ JobExists(j) /\ c \in CaseIds /\ CaseExists(c)
      /\ tx[w].job = j
  BY <1>1, FinalizeKnows
<1>3. n # 0 /\ Holds(w, "change", AttemptRow(c, n)) => AttemptOutcome(w) # "none"
  BY <1>1, <1>2 DEF FinalizeStage, Takes, Holds
<1>4. /\ \A i \in JobIds : JobExists(i) => \/ jobs'[i] = jobs[i]
                                           \/ /\ i = j /\ Holds(w, "change", JobRowOf(j))
                                              /\ jobs'[i] = Ended(j, JobOutcome(w))
      /\ \A i \in JobIds : ~JobExists(i) => \/ jobs'[i] = jobs[i]
                                            \/ /\ NextJob(w) # "none"
                                               /\ jobs'[i] = NewJob(c, NextJob(w), jobs[j].count)
      /\ \A d \in CaseIds : \/ cases'[d] = cases[d]
                            \/ /\ d = c /\ Holds(w, "change", CaseRowOf(c))
                               /\ cases'[d] = [cases[d] EXCEPT !.status = CaseOutcome(w)]
      /\ \A p \in PaymentIds : \/ payments'[p] = payments[p]
                               \/ /\ p = cases[c].payment
                                  /\ Holds(w, "change", PaymentRowOf(p))
                                  /\ payments'[p].status = "SUCCEEDED"
  <2>1. /\ \A i \in JobIds : JobExists(i) => \/ jobs'[i] = jobs[i]
                                              \/ /\ i = j /\ Holds(w, "change", JobRowOf(j))
                                                 /\ jobs'[i] = Ended(j, JobOutcome(w))
        /\ \A i \in JobIds : ~JobExists(i) => \/ jobs'[i] = jobs[i]
                                               \/ /\ NextJob(w) # "none"
                                                  /\ jobs'[i] = NewJob(c, NextJob(w), jobs[j].count)
    BY CommittedRows
  <2>2. \A d \in CaseIds :
           \/ cases'[d] = cases[d]
           \/ /\ d = c /\ Holds(w, "change", CaseRowOf(c))
              /\ cases'[d] = [cases[d] EXCEPT !.status = CaseOutcome(w)]
    BY CommittedRows
  <2>3. \A p \in PaymentIds :
           \/ payments'[p] = payments[p]
           \/ /\ p = cases[c].payment
              /\ Holds(w, "change", PaymentRowOf(p))
              /\ payments'[p].status = "SUCCEEDED"
    BY CommittedRows
  <2>4. QED
    BY <2>1, <2>2, <2>3
<1>5. /\ \A d \in CaseIds, m \in AttemptNos :
            \/ attempts'[d][m] = attempts[d][m]
            \/ /\ d = c /\ m = n /\ Holds(w, "change", AttemptRow(c, n))
               /\ attempts'[d][m] = AttemptOutcome(w)
      /\ jobs' \in [JobIds -> JobRow]
      /\ cases' \in [CaseIds -> CaseRow]
      /\ payments' \in [PaymentIds -> PaymentRow]
      /\ attempts' \in [CaseIds -> [AttemptNos -> AttemptState \cup {"ABSENT"}]]
  BY CommittedRows
<1>6. /\ RowsAndWorkers /\ TypeOK /\ RowsRefer /\ JobsAreSound /\ WorkersAreSound
      /\ jobs \in [JobIds -> JobRow] /\ cases \in [CaseIds -> CaseRow]
      /\ payments \in [PaymentIds -> PaymentRow]
      /\ worker \in [Workers -> WorkerState]
  BY DEF StatementInv, RowsAndWorkers, TypeOK, DbTypeOK, WorkerTypeOK
<1>7. TypeOK'
  <2>1. worker' \in [Workers -> WorkerState]
    BY <1>1, <1>6, WorkerRows
  <2>2. QED
    BY <1>1, <1>5, <1>6, <2>1 DEF TypeOK, DbTypeOK, GatewayTypeOK, WorkerTypeOK
<1>8. AttemptOutcome(w) # "ABSENT"
  BY DEF AttemptOutcome
<1>9. CasesKept /\ JobsKept
  BY FinalizeIsQuiet
<1>10. \A d \in CaseIds :
          /\ cases'[d].payment = cases[d].payment
          /\ \/ cases'[d] = cases[d]
             \/ /\ d = c /\ cases'[d].status = CaseOutcome(w)
                /\ CaseOutcome(w) \in {"STOPPED", "RECOVERED"}
  BY FinalizeIsQuiet
<1>11. AttemptsKept
  <2> SUFFICES ASSUME n # 0, n \in AttemptNos, Holds(w, "change", AttemptRow(c, n))
               PROVE  attempts[c][n] # "ABSENT"
    BY <1>5, <1>8 DEF AttemptsKept, AttemptNos
  <2>1. AttemptOutcome(w) # "none"
    BY <1>3
  <2>2. worker[w].pc \in ChargePc
    <3>1. worker[w].pc \in FinalizePc \cup {"evaluating", "ambiguous"}
      BY <1>2 DEF FinalizeStage
    <3>2. worker[w].pc # "evaluating"
      BY <2>1 DEF AttemptOutcome
    <3>3. QED
      BY <3>1, <3>2 DEF ChargePc
  <2>3. jobs[j].attempt = n
    BY <1>2, <1>6, <2>2 DEF WorkersAreSound
  <2>4. QED
    BY <1>2, <1>6, <2>3 DEF JobsAreSound
<1>12. \A v \in Workers : GoesOn(v)
  BY <1>1, <1>6 DEF Release, GoesOn, Idle
<1>13. RowsAndWorkers'
  BY <1>1, <1>6, <1>7, <1>9, <1>11, <1>12, QuietKeepsRows, GoingOnIsSound
     DEF Quiet, RowsAndWorkers
<1>14. RowsKept
  BY <1>9, KeptRows
<1>15. /\ \A u \in Tx \ {w} : tx'[u] = tx[u]
       /\ \A v \in Workers \ {w} : worker'[v] = worker[v]
  BY <1>1, <1>2, <1>6, CloseKeepsStage DEF Release
<1>16. \A p \in PaymentIds : ActiveCases(p)' \subseteq ActiveCases(p)
  <2>1. \A d \in CaseIds : ActiveCase(d)' => cases'[d] = cases[d]
    BY <1>10 DEF ActiveCase, CaseExists, TerminalCaseStates
  <2>2. QED
    BY <2>1 DEF ActiveCases, ActiveCase, CaseExists
<1>17. \A p \in PaymentIds : Paid(p) => Paid(p)'
  BY <1>4, <1>6 DEF Paid, PaymentRow
<1>18. WritesOwn(w)
  BY <1>1, <1>4, <1>14, <1>15, <1>16, <1>17 DEF WritesOwn, Locked
<1>19. QED
  BY <1>1, <1>13, <1>18, WorkerCommitKeepsInv

(* A step of a worker that has no transaction, or none any more. *)
LEMMA OffTheTablesKeepsInv ==
  ASSUME StatementInv, NEW w \in Workers, RowsAndWorkers', UNCHANGED <<dbVars, acked>>,
         \A v \in Workers \ {w} : worker'[v] = worker[v],
         (tx[w] = NoTx /\ tx' = tx) \/ Close(w)
  PROVE  StatementInv'
<1>1. /\ w \in Tx /\ LocksTypeOK /\ tx \in [Tx -> TxState] /\ acked \in SUBSET EventIds
      /\ LocksExclude
  BY DEF StatementInv, Tx, LocksTypeOK
<1>2. /\ Stage(w)' /\ tx' \in [Tx -> TxState] /\ tx'[w].held = {}
      /\ \A u \in Tx \ {w} : tx'[u] = tx[u]
  <2>1. CASE tx[w] = NoTx /\ tx' = tx
    BY <1>1, <2>1 DEF Stage, NoTx
  <2>2. CASE Close(w)
    BY <1>1, <2>2, CloseKeepsStage
  <2>3. QED
    BY <2>1, <2>2
<1>3. /\ payments' = payments /\ cases' = cases /\ jobs' = jobs /\ handled' = handled
  BY DEF dbVars
<1>4. \A u \in Tx \ {w} : Undisturbed(u)
  <2>1. RowsKept
    BY <1>3 DEF RowsKept, SameReferences, CaseExists, JobExists
  <2>2. \A u : LockedRowsKept(u)
    BY <1>3 DEF LockedRowsKept, ActiveCases, ActiveCase, CaseExists
  <2>3. QED
    BY <1>2, <1>3, <2>1, <2>2 DEF Undisturbed, Paid
<1>5. LocksExclude'
  BY <1>1, <1>2, StillExclusive
<1>6. QED
  BY <1>1, <1>2, <1>4, <1>5, InvKept DEF LocksTypeOK

(* The memory of a worker changes and nothing else does. *)
LEMMA MemoryIsSound ==
  ASSUME RowsAndWorkers, UNCHANGED <<dbVars, store>>, crashes' \in 0 .. MaxCrashes,
         worker' \in [Workers -> WorkerState], \A v \in Workers : GoesOn(v)
  PROVE  RowsAndWorkers'
<1>1. /\ TypeOK
      /\ payments' = payments /\ cases' = cases /\ jobs' = jobs
      /\ attempts' = attempts /\ handled' = handled /\ store' = store
  BY DEF RowsAndWorkers, dbVars
<1>2. TypeOK'
  BY <1>1 DEF TypeOK, DbTypeOK, GatewayTypeOK, WorkerTypeOK
<1>3. Quiet
  BY <1>1, UnchangedIsQuiet
<1>4. QED
  BY <1>2, <1>3, QuietKeepsRows, GoingOnIsSound DEF Quiet, RowsAndWorkers

LEMMA RaisingIsSound ==
  ASSUME TypeOK, NEW w \in Workers, Raise(w) \/ Release(w)
  PROVE  /\ worker' \in [Workers -> WorkerState]
         /\ \A v \in Workers : GoesOn(v)
         /\ \A v \in Workers \ {w} : worker'[v] = worker[v]
<1>1. worker \in [Workers -> WorkerState]
  BY DEF TypeOK, WorkerTypeOK
<1>2. CASE Release(w)
  BY <1>1, <1>2, WorkerRows DEF Release, GoesOn, Idle
<1>3. CASE worker[w].pc = "finalizing" /\ Raise(w)
  <2>1. worker' = [worker EXCEPT ![w].pc = "refinalizing", ![w].result = "failed"]
    BY <1>3 DEF Raise
  <2>2. "refinalizing" \in WorkerPc /\ "failed" \in GatewayResult
    BY Pcs DEF GatewayResult
  <2>3. worker' \in [Workers -> WorkerState]
    BY <2>1, <2>2, WorkerRows
  <2>4. /\ \A v \in Workers \ {w} : worker'[v] = worker[v]
        /\ worker'[w].pc = "refinalizing" /\ worker'[w].job = worker[w].job
        /\ worker'[w].attempt = worker[w].attempt
    BY <1>1, <2>1 DEF WorkerState
  <2>5. GoesOn(w)
    BY <1>3, <2>4 DEF GoesOn, ChargePc, FinalizePc
  <2>6. \A v \in Workers \ {w} : GoesOn(v)
    BY <2>4 DEF GoesOn
  <2>7. QED
    BY <2>3, <2>4, <2>5, <2>6
<1>4. QED
  BY <1>2, <1>3 DEF Raise, Release

LEMMA ReadJobOfOtherKeepsInv ==
  ASSUME StatementInv, NEW w \in Workers, ReadJobOfOther(w)
  PROVE  StatementInv'
<1>1. /\ tx[w] = NoTx /\ tx' = tx /\ Raise(w)
      /\ UNCHANGED <<dbVars, store, crashes, acked>>
  BY DEF ReadJobOfOther
<1>2. RowsAndWorkers /\ TypeOK /\ crashes \in 0 .. MaxCrashes
  BY DEF StatementInv, RowsAndWorkers, TypeOK, WorkerTypeOK
<1>3. RowsAndWorkers' /\ \A v \in Workers \ {w} : worker'[v] = worker[v]
  BY <1>1, <1>2, RaisingIsSound, MemoryIsSound
<1>4. QED
  BY <1>1, <1>3, OffTheTablesKeepsInv

LEMMA WorkerAbortsKeepsInv ==
  ASSUME StatementInv, NEW w \in Workers, WorkerAborts(w)
  PROVE  StatementInv'
<1>1. /\ Close(w) /\ UNCHANGED <<dbVars, store, crashes, acked>>
      /\ Raise(w) \/ UNCHANGED worker
  BY DEF WorkerAborts
<1>2. RowsAndWorkers /\ TypeOK /\ crashes \in 0 .. MaxCrashes
      /\ worker \in [Workers -> WorkerState]
  BY DEF StatementInv, RowsAndWorkers, TypeOK, WorkerTypeOK
<1>3. CASE Raise(w)
  <2>1. RowsAndWorkers' /\ \A v \in Workers \ {w} : worker'[v] = worker[v]
    BY <1>1, <1>2, <1>3, RaisingIsSound, MemoryIsSound
  <2>2. QED
    BY <1>1, <2>1, OffTheTablesKeepsInv
<1>4. CASE UNCHANGED worker
  <2>1. UNCHANGED vars
    BY <1>1, <1>4 DEF vars, workerVars
  <2>2. w \in Tx /\ acked' \in SUBSET EventIds
    BY <1>1 DEF Tx, StatementInv, LocksTypeOK
  <2>3. QED
    BY <1>1, <2>1, <2>2, SilentCloseKeepsInv
<1>5. QED
  BY <1>1, <1>3, <1>4

LEMMA KillKeepsInv ==
  ASSUME StatementInv, NEW w \in Workers, Kill(w)
  PROVE  StatementInv'
<1>1. /\ Close(w) /\ Release(w) /\ UNCHANGED <<dbVars, store, acked>>
      /\ crashes < MaxCrashes /\ crashes' \in {crashes, crashes + 1}
  BY DEF Kill
<1>2. RowsAndWorkers /\ TypeOK /\ crashes \in 0 .. MaxCrashes
  BY DEF StatementInv, RowsAndWorkers, TypeOK, WorkerTypeOK
<1>3. crashes' \in 0 .. MaxCrashes
  BY <1>1, <1>2, WorkerAssumption
<1>4. RowsAndWorkers' /\ \A v \in Workers \ {w} : worker'[v] = worker[v]
  BY <1>1, <1>2, <1>3, RaisingIsSound, MemoryIsSound
<1>5. QED
  BY <1>1, <1>4, OffTheTablesKeepsInv

LEMMA CallGatewayKeepsInv ==
  ASSUME StatementInv, NEW w \in Workers, CallGateway(w)
  PROVE  StatementInv'
<1>1. /\ tx[w] = NoTx /\ tx' = tx /\ acked' = acked /\ RowsAndWorkers
  BY DEF CallGateway, StatementInv
<1>2. VerifyPayment(w) \/ Charge(w)
  BY DEF CallGateway
<1>3. Next
  BY <1>2 DEF Next, WorkerStep
<1>4. RowsAndWorkers'
  BY <1>1, <1>3, StepKeepsRowsAndWorkers
<1>5. worker \in [Workers -> WorkerState]
  BY <1>1 DEF RowsAndWorkers, TypeOK, WorkerTypeOK
<1>6. UNCHANGED dbVars /\ \A v \in Workers \ {w} : worker'[v] = worker[v]
  BY <1>2, <1>5 DEF VerifyPayment, Charge, Goto
<1>7. QED
  BY <1>1, <1>4, <1>6, OffTheTablesKeepsInv

LEMMA ExpireKeepsInv ==
  ASSUME StatementInv, NEW j \in JobIds, Expire(j)
  PROVE  StatementInv'
<1>1. /\ LeaseExpires(j) /\ tx' = tx /\ acked' = acked
      /\ jobs[j].status = "RUNNING" /\ ~jobs[j].expired
      /\ jobs' = [jobs EXCEPT ![j].expired = TRUE]
      /\ UNCHANGED <<payments, cases, attempts, handled, store, workerVars>>
  BY DEF Expire, LeaseExpires
<1>2. RowsAndWorkers /\ jobs \in [JobIds -> JobRow]
  BY DEF StatementInv, RowsAndWorkers, TypeOK, DbTypeOK
<1>3. RowsAndWorkers'
  BY <1>1, <1>2, StepKeepsRowsAndWorkers DEF Next
<1>4. /\ jobs'[j] = [jobs[j] EXCEPT !.expired = TRUE]
      /\ \A i \in JobIds \ {j} : jobs'[i] = jobs[i]
  BY <1>1, <1>2
<1>5. RowsKept
  BY <1>1, <1>2, <1>4 DEF RowsKept, SameReferences, CaseExists, JobExists, JobRow
<1>6. \A u : LockedRowsKept(u)
  BY <1>1, <1>4 DEF LockedRowsKept, ActiveCases, ActiveCase, CaseExists
<1>7. \A u : Undisturbed(u)
  BY <1>1, <1>5, <1>6 DEF Undisturbed, Paid, workerVars
<1>8. \A u \in Tx : Stage(u)'
  BY <1>2, <1>7, StageKept DEF StatementInv, Stages
<1>9. LocksExclude' /\ LocksTypeOK'
  BY <1>1 DEF StatementInv, LocksExclude, LocksTypeOK
<1>10. QED
  BY <1>3, <1>8, <1>9 DEF StatementInv, Stages, Tx

-----------------------------------------------------------------------------
LEMMA InitStatementInv == StatementInit => StatementInv
<1> SUFFICES ASSUME StatementInit PROVE StatementInv
  OBVIOUS
<1>1. RowsAndWorkers
  BY InitRowsAndWorkers DEF StatementInit
<1>2. NoTx \in TxState /\ NoTx.held = {} /\ NoTx.op = "none"
  BY DEF TxState, NoTx, Statement
<1>3. tx = [t \in Tx |-> NoTx] /\ acked = {}
  BY DEF StatementInit, LocksInit
<1>4. LocksTypeOK /\ LocksExclude
  BY <1>2, <1>3 DEF LocksTypeOK, LocksExclude
<1>5. Stages
  BY <1>2, <1>3 DEF Stages, Stage
<1>6. QED
  BY <1>1, <1>4, <1>5 DEF StatementInv

LEMMA RequestKeepsStatementInv ==
  ASSUME StatementInv, NEW r \in Requests, RequestStatement(r)
  PROVE  StatementInv'
<1>1. CASE DeliveryStep(r)
  BY <1>1, DeliverKeepsInv, DedupeKeepsInv, WebhookFailsKeepsInv,
     ApplyToTerminalKeepsInv, ApplyFailureKeepsInv, InsertCaseKeepsInv,
     ApplySuccessKeepsInv, CancelJobsKeepsInv, CommitSuccessKeepsInv DEF DeliveryStep
<1>2. CASE AdminStep(r)
  BY <1>2, BeginAdminKeepsInv, LockItsPaymentKeepsInv, ClosingKeepsInv,
     RefuseKeepsInv, StopReadsJobsKeepsInv, RetryReadsJobsKeepsInv,
     CommitRetryKeepsInv DEF AdminStep
<1>3. CASE Acquire(r)
  BY <1>3, AcquireKeepsInv DEF Tx
<1>4. CASE RequestAborts(r)
  BY <1>4, RefuseKeepsInv
<1>5. QED
  BY <1>1, <1>2, <1>3, <1>4 DEF RequestStatement

LEMMA WorkerKeepsStatementInv ==
  ASSUME StatementInv, NEW w \in Workers, WorkerStatement(w)
  PROVE  StatementInv'
<1>1. CASE Acquire(w)
  BY <1>1, AcquireKeepsInv DEF Tx
<1>2. CASE (\E j \in JobIds : SelectJob(w, j)) \/ LockPayment(w) \/ CommitClaim(w)
  BY <1>2, SelectJobKeepsInv, LockPaymentKeepsInv, CommitClaimKeepsInv
<1>3. CASE \/ ReadJob(w) \/ ReadJobOfOther(w) \/ Decide(w) \/ LoadRows(w)
           \/ \E k \in JobIds : CommitFinalize(w, k)
  BY <1>3, ReadJobKeepsInv, ReadJobOfOtherKeepsInv, DecideKeepsInv,
     LoadRowsKeepsInv, CommitFinalizeKeepsInv
<1>4. CASE CallGateway(w) \/ WorkerAborts(w)
  BY <1>4, CallGatewayKeepsInv, WorkerAbortsKeepsInv
<1>5. QED
  BY <1>1, <1>2, <1>3, <1>4 DEF WorkerStatement

LEMMA StepKeepsStatementInv == StatementInv /\ [StatementNext]_stmtVars => StatementInv'
<1> SUFFICES ASSUME StatementInv, [StatementNext]_stmtVars PROVE StatementInv'
  OBVIOUS
<1>1. CASE UNCHANGED stmtVars
  <2>1. UNCHANGED vars /\ tx' = tx /\ acked' = acked
    BY <1>1 DEF stmtVars
  <2>2. RowsAndWorkers' /\ \A u \in Tx : Stage(u)'
    <3>1. \A u \in Tx : Undisturbed(u)
      <4> TAKE u \in Tx
      <4>1. RowsKept /\ LockedRowsKept(u)
        BY <2>1 DEF RowsKept, LockedRowsKept, SameReferences, ActiveCases, ActiveCase,
                    CaseExists, JobExists, vars, dbVars
      <4>2. QED
        BY <2>1, <4>1 DEF Undisturbed, Paid, vars, dbVars, workerVars
    <3>2. QED
      BY <2>1, <3>1, StageKept, StepKeepsRowsAndWorkers DEF StatementInv, Stages
  <2>3. LocksExclude' /\ LocksTypeOK'
    BY <2>1 DEF StatementInv, LocksExclude, LocksTypeOK
  <2>4. QED
    BY <2>2, <2>3 DEF StatementInv, Stages, Tx
<1>2. CASE StatementNext
  BY <1>2, RequestKeepsStatementInv, WorkerKeepsStatementInv, KillKeepsInv,
     ExpireKeepsInv DEF StatementNext
<1>3. QED
  BY <1>1, <1>2

(* Statement by statement, every transaction keeps to what it knows of the *)
(* rows it has locked, whatever the others do between its statements.      *)
THEOREM StatementInvariant == StatementSpec => []StatementInv
<1>1. QED
  BY InitStatementInv, StepKeepsStatementInv, PTL DEF StatementSpec

(* Tables, memories of the workers and open transactions are well formed.  *)
THEOREM StatementTypeOKHolds == StatementSpec => []StatementTypeOK
<1>1. StatementInv => StatementTypeOK
  BY DEF StatementInv, RowsAndWorkers, StatementTypeOK
<1>2. QED
  BY <1>1, StatementInvariant, PTL

(* An event is answered 200 with its record committed, or because it was.  *)
LEMMA StepKeepsAcknowledged ==
  ASSUME StatementInv, AcknowledgedIsHandled, [StatementNext]_stmtVars
  PROVE  AcknowledgedIsHandled'
<1>1. ASSUME NEW r \in Requests, DeliveryStep(r)
      PROVE  \/ UNCHANGED <<handled, acked>>
             \/ handled' = handled /\ \E i \in handled : acked' = acked \cup {i}
             \/ \E i : handled' = handled \cup {i} /\ acked' = acked \cup {i}
  <2>1. CASE \/ Deliver(r) \/ WebhookFails(r) \/ InsertFails(r) \/ ApplySuccess(r)
             \/ CancelJobs(r)
    BY <2>1 DEF Deliver, WebhookFails, InsertFails, ApplySuccess, CancelJobs, vars, dbVars
  <2>2. CASE Dedupe(r)
    BY <2>2 DEF Dedupe, vars, dbVars
  <2>3. CASE ApplyToTerminal(r) \/ ApplyFailure(r) \/ CommitSuccess(r)
    BY <2>3 DEF ApplyToTerminal, ApplyFailure, CommitSuccess, Commit200
  <2>4. CASE InsertCase(r)
    <3>1. tx[r].op = "webhook" /\ tx[r].at = "insert"
      BY <2>4 DEF InsertCase, At
    <3>2. ActiveCases(tx[r].event.payment) = {}
      BY <3>1, WebhookKnows DEF WebhookStage
    <3>3. QED
      BY <2>4, <3>2 DEF InsertCase, Commit200
  <2>5. QED
    BY <1>1, <2>1, <2>2, <2>3, <2>4 DEF DeliveryStep
<1>2. ASSUME NEW r \in Requests, AdminStep(r) \/ RequestAborts(r)
      PROVE  UNCHANGED <<handled, acked>>
  BY <1>2 DEF AdminStep, BeginAdmin, LockItsPayment, RejectPaid, Refuse, StopReadsJobs,
              CommitStop, RetryReadsJobs, CommitRetry, RequestAborts, vars, dbVars
<1>3. ASSUME NEW w \in Workers, WorkerStatement(w) \/ Kill(w) \/ Acquire(w)
      PROVE  UNCHANGED <<handled, acked>>
  BY <1>3 DEF WorkerStatement, SelectJob, LockPayment, CommitClaim, CallGateway, ReadJob,
              ReadJobOfOther, Decide, LoadRows, CommitFinalize, WorkerAborts, Acquire,
              VerifyPayment, Charge, Kill, vars, dbVars
<1>4. ASSUME NEW t \in Tx, Acquire(t)
      PROVE  UNCHANGED <<handled, acked>>
  BY <1>4 DEF Acquire, vars, dbVars
<1>5. ASSUME NEW j \in JobIds, Expire(j)
      PROVE  UNCHANGED <<handled, acked>>
  BY <1>5 DEF Expire, LeaseExpires
<1>6. CASE UNCHANGED stmtVars
  BY <1>6 DEF stmtVars, vars, dbVars, AcknowledgedIsHandled
<1>7. ASSUME NEW r \in Requests, RequestStatement(r)
      PROVE  AcknowledgedIsHandled'
  BY <1>1, <1>2, <1>4, <1>7 DEF RequestStatement, AcknowledgedIsHandled, Tx
<1>8. QED
  BY <1>3, <1>5, <1>6, <1>7 DEF StatementNext, AcknowledgedIsHandled

(* An event that was answered 200 is recorded: no second case is opened    *)
(* under the lock of the payment, so the branch that answers 200 after     *)
(* rolling everything back is never reached.                               *)
THEOREM AcknowledgedIsHandledHolds == StatementSpec => []AcknowledgedIsHandled
<1>1. StatementInit => AcknowledgedIsHandled
  BY DEF StatementInit, LocksInit, AcknowledgedIsHandled
<1>2. StatementInv /\ AcknowledgedIsHandled /\ [StatementNext]_stmtVars
         => AcknowledgedIsHandled'
  BY StepKeepsAcknowledged
<1>3. QED
  BY <1>1, <1>2, StatementInvariant, PTL DEF StatementSpec

-----------------------------------------------------------------------------
(* What stays true when leases run out and transactions are not atomic:    *)
(* payments count as paid, and cases as recovered, only with a success.    *)

(* A payment is written for an event that is recorded with it, or because  *)
(* the gateway holds a successful charge.                                  *)
PaymentWritten(p) == \/ payments'[p] = payments[p]
                     \/ \E e \in Events : Updates(e, p)
                     \/ \E n \in AttemptNos : store[p][n] = "succeeded"

(* A statement outside the gateway: what it may do to the outcomes, and to *)
(* the workers that hold answers of the gateway.                           *)
OutcomeWrites ==
    /\ store' = store /\ handled \subseteq handled'
    /\ \A w \in Workers : \/ worker'[w] = worker[w]
                          \/ worker'[w] = Idle
                          \/ worker'[w].pc = "refinalizing" /\ worker'[w].result = "failed"
    /\ \A j \in JobIds : JobExists(j) => jobs'[j].case = jobs[j].case
    /\ \A c \in CaseIds : CaseExists(c) => cases'[c].payment = cases[c].payment
    /\ \A p \in PaymentIds : PaymentWritten(p) /\ (Paid(p) => Paid(p)')
    /\ \A c \in CaseIds : cases'[c].status = "RECOVERED" =>
          cases[c].status = "RECOVERED" \/ Paid(cases[c].payment)'

OutcomesHold == AnswersAreReal /\ MadeUpIsFailure /\ PaidIsBacked /\ RecoveredIsPaid

LEMMA WritesKeepOutcomes ==
  ASSUME StatementInv, OutcomesHold, OutcomeWrites
  PROVE  OutcomesHold'
<1>1. /\ RowsAndWorkers /\ jobs \in [JobIds -> JobRow] /\ cases \in [CaseIds -> CaseRow]
      /\ worker \in [Workers -> WorkerState]
  BY DEF StatementInv, RowsAndWorkers, TypeOK, DbTypeOK, WorkerTypeOK
<1>2. AnswersAreReal'
  <2> SUFFICES ASSUME NEW w \in Workers, worker'[w].pc \in {"reconciled", "finalizing"}
               PROVE  /\ worker'[w].result \in GatewayResult
                      /\ store'[PaymentOf(Job(w))'][worker'[w].attempt] = worker'[w].result
    BY DEF AnswersAreReal
  <2>1. worker'[w] = worker[w]
    BY DEF OutcomeWrites, Idle
  <2>2. /\ worker[w].pc # "idle" /\ Job(w)' = Job(w)
        /\ store[PaymentOf(Job(w))][worker[w].attempt] = worker[w].result
        /\ worker[w].result \in GatewayResult
    BY <2>1 DEF AnswersAreReal, OutcomesHold, Job
  <2>3. PaymentOf(Job(w))' = PaymentOf(Job(w))
    BY <1>1, <2>2, JobInHand DEF OutcomeWrites, PaymentOf
  <2>4. QED
    BY <2>1, <2>2, <2>3 DEF OutcomeWrites
<1>3. MadeUpIsFailure'
  BY DEF OutcomeWrites, OutcomesHold, MadeUpIsFailure, Idle
<1>4. PaidIsBacked'
  <2> SUFFICES ASSUME NEW p \in PaymentIds, Paid(p)'
               PROVE  \/ \E n \in AttemptNos : store'[p][n] = "succeeded"
                      \/ \E e \in Events : /\ e.type = "payment.succeeded"
                                           /\ e.payment = p /\ e.id \in handled'
                                           /\ e.terms = payments'[p].terms
    BY DEF PaidIsBacked
  <2>1. CASE payments'[p] = payments[p]
    BY <2>1 DEF OutcomeWrites, OutcomesHold, PaidIsBacked, Paid
  <2>2. ASSUME NEW e \in Events, Updates(e, p)
        PROVE  /\ e.type = "payment.succeeded" /\ e.payment = p /\ e.id \in handled'
               /\ e.terms = payments'[p].terms
    BY <2>2 DEF Updates, Paid
  <2>3. QED
    BY <2>1, <2>2 DEF OutcomeWrites, PaymentWritten
<1>5. RecoveredIsPaid'
  <2> SUFFICES ASSUME NEW c \in CaseIds, cases'[c].status = "RECOVERED"
               PROVE  Paid(cases[c].payment)'
    BY DEF RecoveredIsPaid
  <2>1. CASE cases[c].status = "RECOVERED"
    <3>1. CaseExists(c) /\ cases[c].payment \in PaymentIds /\ Paid(cases[c].payment)
      BY <1>1, <2>1 DEF CaseExists, RowsAndWorkers, RowsRefer, OutcomesHold, RecoveredIsPaid
    <3>2. cases'[c].payment = cases[c].payment
      BY <3>1 DEF OutcomeWrites
    <3>3. QED
      BY <3>1, <3>2 DEF OutcomeWrites, Paid
  <2>2. QED
    BY <2>1 DEF OutcomeWrites
<1>6. QED
  BY <1>2, <1>3, <1>4, <1>5 DEF OutcomesHold

-----------------------------------------------------------------------------
(* The statements of requests. *)

(* Nothing of it is touched. *)
LEMMA OutcomesUntouched ==
  ASSUME UNCHANGED <<payments, cases, store>>, handled \subseteq handled',
         \A w \in Workers : worker'[w] = worker[w],
         \A j \in JobIds : JobExists(j) => jobs'[j].case = jobs[j].case
  PROVE  OutcomeWrites
BY DEF OutcomeWrites, PaymentWritten, Paid

LEMMA PutIsWritten ==
  ASSUME StatementInv, NEW e \in Events, NEW s \in {"FAILED", "SUCCEEDED"},
         ~Terminal(e.payment), PutPayment(e, s), e.id \in handled',
         s = "SUCCEEDED" => e.type = "payment.succeeded"
  PROVE  /\ \A p \in PaymentIds : PaymentWritten(p) /\ (Paid(p) => Paid(p)')
         /\ s = "SUCCEEDED" => payments'[e.payment].status = "SUCCEEDED"
<1>1. /\ payments \in [PaymentIds -> PaymentRow] /\ e.payment \in PaymentIds
  BY EventsAssumption DEF StatementInv, RowsAndWorkers, TypeOK, DbTypeOK, WebhookEvent
<1>2. ~Paid(e.payment)
  BY DEF Paid, Terminal
<1>3. /\ \A p \in PaymentIds \ {e.payment} : payments'[p] = payments[p]
      /\ payments'[e.payment] = [status |-> s, terms |-> e.terms]
  BY <1>1 DEF PutPayment
<1>4. Updates(e, e.payment)
  BY <1>3 DEF Updates
<1>5. \A p \in PaymentIds : PaymentWritten(p)
  BY <1>3, <1>4 DEF PaymentWritten
<1>6. \A p \in PaymentIds : Paid(p) => Paid(p)'
  BY <1>2, <1>3 DEF Paid
<1>7. QED
  BY <1>3, <1>5, <1>6

(* Cases that are closed, and jobs that are cancelled, refer to what they did. *)
LEMMA StoppingWrites ==
  ASSUME StatementInv, NEW cs, NEW s, cases' = WithStatus(cs, s)
  PROVE  \A c \in CaseIds : /\ cases'[c].payment = cases[c].payment
                            /\ cases'[c].status # cases[c].status => c \in cs /\ cases'[c].status = s
<1>1. cases \in [CaseIds -> CaseRow]
  BY DEF StatementInv, RowsAndWorkers, TypeOK, DbTypeOK
<1>2. TAKE c \in CaseIds
<1>3. cases[c] \in CaseRow
  BY <1>1
<1>4. CASE c \in cs
  <2>1. cases'[c] = [cases[c] EXCEPT !.status = s]
    BY <1>4 DEF WithStatus
  <2>2. QED
    BY <1>3, <1>4, <2>1 DEF CaseRow
<1>5. CASE c \notin cs
  BY <1>5 DEF WithStatus
<1>6. QED
  BY <1>4, <1>5

LEMMA CancellingWrites ==
  ASSUME StatementInv, NEW js, jobs' = Cancelled(js)
  PROVE  \A j \in JobIds : jobs'[j].case = jobs[j].case
<1>1. TAKE j \in JobIds
<1>2. jobs[j] \in JobRow
  BY DEF StatementInv, RowsAndWorkers, TypeOK, DbTypeOK
<1>3. jobs'[j] \in {jobs[j], [jobs[j] EXCEPT !.status = "CANCELLED"]}
  BY DEF Cancelled
<1>4. QED
  BY <1>2, <1>3 DEF JobRow

LEMMA DeliveryWrites ==
  ASSUME StatementInv, NEW r \in Requests, DeliveryStep(r)
  PROVE  OutcomeWrites
<1>1. /\ jobs \in [JobIds -> JobRow] /\ cases \in [CaseIds -> CaseRow]
      /\ payments \in [PaymentIds -> PaymentRow]
  BY DEF StatementInv, RowsAndWorkers, TypeOK, DbTypeOK
<1>2. CASE \/ Deliver(r) \/ Dedupe(r) \/ WebhookFails(r) \/ InsertFails(r) \/ ApplySuccess(r)
           \/ CancelJobs(r) \/ ApplyToTerminal(r)
  <2>1. UNCHANGED <<payments, cases, jobs, store, worker>> /\ handled \subseteq handled'
    BY <1>2 DEF Deliver, Dedupe, WebhookFails, InsertFails, ApplySuccess, CancelJobs,
                ApplyToTerminal, Commit200, vars, dbVars, workerVars
  <2>2. QED
    BY <2>1, OutcomesUntouched
<1>3. ASSUME tx[r].op = "webhook"
      PROVE  tx[r].event \in Events /\ tx[r].event.payment \in PaymentIds /\ WebhookStage(r)
  BY <1>3, WebhookKnows DEF WebhookStage
<1> DEFINE e == tx[r].event
<1>4. CASE ApplyFailure(r)
  <2>1. tx[r].op = "webhook" /\ ~Terminal(e.payment) /\ UNCHANGED <<cases, jobs, store, worker>>
    BY <1>4 DEF ApplyFailure, Applying, At, workerVars
  <2>2. CASE UNCHANGED payments /\ handled' = handled
    BY <2>1, <2>2, OutcomesUntouched
  <2>3. CASE PutPayment(e, "FAILED") /\ Commit200(r)
    <3>1. handled \subseteq handled' /\ e.id \in handled'
      BY <2>3 DEF Commit200
    <3>2. \A p \in PaymentIds : PaymentWritten(p) /\ (Paid(p) => Paid(p)')
      BY <1>3, <2>1, <2>3, <3>1, PutIsWritten
    <3>3. QED
      BY <2>1, <3>1, <3>2 DEF OutcomeWrites
  <2>4. QED
    BY <1>4, <2>2, <2>3 DEF ApplyFailure
<1>5. CASE InsertCase(r)
  <2>1. tx[r].op = "webhook" /\ tx[r].at = "insert" /\ UNCHANGED <<store, worker>>
    BY <1>5 DEF InsertCase, At, workerVars
  <2>2. ~Terminal(e.payment)
    BY <1>3, <2>1 DEF WebhookStage, Applicable
  <2>3. CASE UNCHANGED <<payments, cases, jobs, handled>>
    BY <2>1, <2>3, OutcomesUntouched
  <2>4. ASSUME NEW c \in CaseIds, NEW j \in JobIds, ~CaseExists(c), ~JobExists(j),
               PutPayment(e, "FAILED"), Commit200(r),
               cases' = [cases EXCEPT ![c] = [status |-> "OPEN", payment |-> e.payment]],
               jobs' = [jobs EXCEPT ![j] = NewJob(c, "EVALUATE_RECOVERY", 0)]
        PROVE  OutcomeWrites
    <3>1. handled \subseteq handled' /\ e.id \in handled'
      BY <2>4 DEF Commit200
    <3>2. \A p \in PaymentIds : PaymentWritten(p) /\ (Paid(p) => Paid(p)')
      BY <1>3, <2>1, <2>2, <2>4, <3>1, PutIsWritten
    <3>3. /\ \A i \in JobIds : JobExists(i) => jobs'[i].case = jobs[i].case
          /\ \A d \in CaseIds : CaseExists(d) => cases'[d].payment = cases[d].payment
          /\ \A d \in CaseIds : cases'[d].status = "RECOVERED" =>
                cases[d].status = "RECOVERED"
      BY <1>1, <2>4
    <3>4. QED
      BY <2>1, <3>1, <3>2, <3>3 DEF OutcomeWrites
  <2>5. QED
    BY <1>5, <2>3, <2>4 DEF InsertCase
<1>6. CASE CommitSuccess(r)
  <2>1. /\ tx[r].op = "webhook" /\ tx[r].at \in {"cancel", "save"} /\ UNCHANGED <<store, worker>>
        /\ PutPayment(e, "SUCCEEDED") /\ handled' = handled \cup {e.id}
        /\ cases' = WithStatus(OpenLocked(r), "RECOVERED") /\ jobs' = Cancelled(SeenPending(r))
    BY <1>6 DEF CommitSuccess, Commit200, At, workerVars
  <2>2. /\ ~Terminal(e.payment) /\ e.type = "payment.succeeded"
        /\ \A c \in CasesTaken(r) : cases[c].payment = e.payment
    BY <1>3, <2>1 DEF WebhookStage, Applicable
  <2>3. \A c \in OpenLocked(r) : c \in CaseIds /\ cases[c].payment = e.payment
    BY <2>2 DEF OpenLocked, CasesTaken, Takes, Holds, LockMode
  <2>4. /\ \A p \in PaymentIds : PaymentWritten(p) /\ (Paid(p) => Paid(p)')
        /\ payments'[e.payment].status = "SUCCEEDED"
    BY <1>3, <2>1, <2>2, PutIsWritten
  <2>5. /\ \A j \in JobIds : jobs'[j].case = jobs[j].case
        /\ \A c \in CaseIds : /\ cases'[c].payment = cases[c].payment
                              /\ cases'[c].status # cases[c].status => c \in OpenLocked(r)
    BY <2>1, StoppingWrites, CancellingWrites
  <2>6. \A c \in CaseIds : cases'[c].status = "RECOVERED" =>
          cases[c].status = "RECOVERED" \/ Paid(cases[c].payment)'
    BY <2>3, <2>4, <2>5 DEF Paid
  <2>7. QED
    BY <2>1, <2>4, <2>5, <2>6 DEF OutcomeWrites
<1>7. QED
  BY <1>2, <1>4, <1>5, <1>6 DEF DeliveryStep

LEMMA AdminWrites ==
  ASSUME StatementInv, NEW r \in Requests, AdminStep(r)
  PROVE  OutcomeWrites
<1>1. /\ jobs \in [JobIds -> JobRow] /\ cases \in [CaseIds -> CaseRow]
  BY DEF StatementInv, RowsAndWorkers, TypeOK, DbTypeOK
<1>2. CASE UNCHANGED vars
  BY <1>2, OutcomesUntouched DEF vars, dbVars, workerVars
<1>3. CASE RejectPaid(r)
  <2> DEFINE c == tx[r].case
  <2>1. /\ tx[r].op \in {"stop", "retry"} /\ Paid(cases[c].payment)
        /\ cases' = WithStatus({c}, "RECOVERED")
        /\ UNCHANGED <<payments, jobs, handled, store, worker>>
    BY <1>3 DEF RejectPaid, At, workerVars
  <2>2. \A d \in CaseIds : /\ cases'[d].payment = cases[d].payment
                           /\ cases'[d].status # cases[d].status => d \in {c}
    BY <2>1, StoppingWrites
  <2>3. c \in CaseIds
    BY <2>1, AdminKnows
  <2>4. \A d \in CaseIds : cases'[d].status = "RECOVERED" =>
          cases[d].status = "RECOVERED" \/ Paid(cases[d].payment)'
    BY <2>1, <2>2, <2>3 DEF Paid
  <2>5. \A p \in PaymentIds : PaymentWritten(p) /\ (Paid(p) => Paid(p)')
    BY <2>1 DEF PaymentWritten, Paid
  <2>6. QED
    BY <2>1, <2>2, <2>4, <2>5 DEF OutcomeWrites
<1>4. CASE CommitStop(r)
  <2>1. /\ cases' = WithStatus({tx[r].case}, "STOPPED") /\ jobs' = Cancelled(SeenPending(r))
        /\ UNCHANGED <<payments, handled, store, worker>>
    BY <1>4 DEF CommitStop, workerVars
  <2>2. /\ \A j \in JobIds : jobs'[j].case = jobs[j].case
        /\ \A c \in CaseIds : /\ cases'[c].payment = cases[c].payment
                              /\ cases'[c].status # cases[c].status =>
                                    cases'[c].status = "STOPPED"
    BY <2>1, StoppingWrites, CancellingWrites
  <2>3. \A p \in PaymentIds : PaymentWritten(p) /\ (Paid(p) => Paid(p)')
    BY <2>1 DEF PaymentWritten, Paid
  <2>4. \A c \in CaseIds : cases'[c].status = "RECOVERED" => cases[c].status = "RECOVERED"
    BY <2>2
  <2>5. QED
    BY <2>1, <2>2, <2>3, <2>4 DEF OutcomeWrites
<1>5. ASSUME NEW j \in JobIds, CommitRetry(r, j)
      PROVE  OutcomeWrites
  <2>1. /\ cases' = WithStatus({tx[r].case}, "OPEN") /\ ~JobExists(j)
        /\ jobs' = [jobs EXCEPT ![j] = NewJob(tx[r].case, "EVALUATE_RECOVERY", 0)]
        /\ UNCHANGED <<payments, handled, store, worker>>
    BY <1>5 DEF CommitRetry, workerVars
  <2>2. \A i \in JobIds : JobExists(i) => jobs'[i].case = jobs[i].case
    BY <1>1, <2>1
  <2>3. \A c \in CaseIds : /\ cases'[c].payment = cases[c].payment
                           /\ cases'[c].status # cases[c].status =>
                                 cases'[c].status = "OPEN"
    BY <2>1, StoppingWrites
  <2>4. \A p \in PaymentIds : PaymentWritten(p) /\ (Paid(p) => Paid(p)')
    BY <2>1 DEF PaymentWritten, Paid
  <2>5. \A c \in CaseIds : cases'[c].status = "RECOVERED" => cases[c].status = "RECOVERED"
    BY <2>3
  <2>6. QED
    BY <2>1, <2>2, <2>3, <2>4, <2>5 DEF OutcomeWrites
<1>6. QED
  BY <1>2, <1>3, <1>4, <1>5
     DEF AdminStep, BeginAdmin, LockItsPayment, Refuse, StopReadsJobs, RetryReadsJobs

-----------------------------------------------------------------------------
(* The statements of workers. *)

(* What a finalizing transaction writes is backed by the answer in hand.   *)
LEMMA FinalizeWrites ==
  ASSUME StatementInv, OutcomesHold, NEW w \in Workers, NEW k \in JobIds, CommitFinalize(w, k)
  PROVE  OutcomeWrites
<1> DEFINE j == Job(w)
           c == jobs[j].case
           p == PaymentOf(j)
           n == worker[w].attempt
<1>1. /\ tx[w].op = "finalize" /\ tx[w].at = "save" /\ tx[w].want = {} /\ Release(w)
      /\ UNCHANGED <<handled, store>>
  BY DEF CommitFinalize, At
<1>2. FinalizeStage(w) /\ tx[w].job = j /\ p \in PaymentIds /\ c \in CaseIds
  BY <1>1, FinalizeKnows
<1>3. /\ payments \in [PaymentIds -> PaymentRow] /\ cases \in [CaseIds -> CaseRow]
      /\ jobs \in [JobIds -> JobRow] /\ worker \in [Workers -> WorkerState] /\ RowsAndWorkers
  BY DEF StatementInv, RowsAndWorkers, TypeOK, DbTypeOK, WorkerTypeOK
<1>4. /\ Holds(w, "change", CaseRowOf(c)) => CaseOutcome(w) # "none"
      /\ Holds(w, "change", PaymentRowOf(p)) => AttemptOutcome(w) = "SUCCEEDED"
      /\ AttemptOutcome(w) = "SUCCEEDED" => Holds(w, "change", PaymentRowOf(p)) \/ Paid(p)
  BY <1>1, <1>2 DEF FinalizeStage, Takes, Holds
<1>5. ASSUME AttemptOutcome(w) = "SUCCEEDED"
      PROVE  \E m \in AttemptNos : store[p][m] = "succeeded"
  <2>1. worker[w].pc \in {"reconciled", "finalizing", "refinalizing"}
        /\ worker[w].result = "succeeded"
    BY <1>2, <1>5 DEF AttemptOutcome, FinalizeStage, FinalizePc
  <2>2. worker[w].pc \in {"reconciled", "finalizing"} /\ worker[w].pc \in ChargePc
    BY <2>1 DEF OutcomesHold, MadeUpIsFailure, ChargePc, FinalizePc
  <2>3. n \in AttemptNos /\ store[p][n] = "succeeded"
    BY <1>3, <2>1, <2>2, KeyInHand DEF OutcomesHold, AnswersAreReal
  <2>4. QED
    BY <2>3
<1>6. \A q \in PaymentIds : \/ payments'[q] = payments[q]
                            \/ /\ q = cases[c].payment
                               /\ Holds(w, "change", PaymentRowOf(q))
                               /\ payments'[q].status = "SUCCEEDED"
  BY CommittedRows
<1>7. \A q \in PaymentIds : PaymentWritten(q) /\ (Paid(q) => Paid(q)')
  BY <1>4, <1>5, <1>6 DEF PaymentWritten, Paid, PaymentOf
<1>8. CasesKept /\ JobsKept
  BY FinalizeIsQuiet
<1>9. \A d \in CaseIds : \/ cases'[d] = cases[d]
                         \/ /\ d = c /\ Holds(w, "change", CaseRowOf(c))
                            /\ cases'[d] = [cases[d] EXCEPT !.status = CaseOutcome(w)]
  BY CommittedRows
<1>10. ASSUME CaseOutcome(w) = "RECOVERED"
       PROVE  payments'[p].status = "SUCCEEDED"
  <2>1. AttemptOutcome(w) = "SUCCEEDED"
    BY <1>10 DEF CaseOutcome
  <2>2. CASE Holds(w, "change", PaymentRowOf(p))
    BY <1>2, <1>3, <2>2 DEF CommitFinalize, PaymentRow
  <2>3. CASE Paid(p)
    BY <1>2, <1>7, <2>3 DEF Paid
  <2>4. QED
    BY <1>4, <2>1, <2>2, <2>3
<1>11. \A d \in CaseIds : cases'[d].status = "RECOVERED" =>
          cases[d].status = "RECOVERED" \/ Paid(cases[d].payment)'
  <2> SUFFICES ASSUME NEW d \in CaseIds, cases'[d].status = "RECOVERED",
                      cases[d].status # "RECOVERED"
               PROVE  payments'[cases'[d].payment].status = "SUCCEEDED"
    BY DEF Paid
  <2>1. d = c /\ cases'[d] = [cases[d] EXCEPT !.status = CaseOutcome(w)]
    BY <1>9
  <2>2. cases[d] \in CaseRow
    BY <1>3
  <2>3. CaseOutcome(w) = "RECOVERED" /\ cases'[d].payment = p
    BY <2>1, <2>2 DEF CaseRow, PaymentOf
  <2>4. QED
    BY <1>10, <2>3
<1>12. \A v \in Workers : worker'[v] = worker[v] \/ worker'[v] = Idle
  BY <1>1, <1>3 DEF Release
<1>13. /\ \A i \in JobIds : JobExists(i) => jobs'[i].case = jobs[i].case
       /\ \A d \in CaseIds : CaseExists(d) => cases'[d].payment = cases[d].payment
  BY <1>8 DEF CasesKept, JobsKept, SameJob
<1>14. QED
  BY <1>1, <1>7, <1>11, <1>12, <1>13 DEF OutcomeWrites

(* The rest of them write no rows; an exception leaves a failure behind.   *)
LEMMA WorkerWrites ==
  ASSUME StatementInv, OutcomesHold, NEW w \in Workers, WorkerStatement(w) \/ Kill(w)
  PROVE  OutcomeWrites \/ [Next]_vars
<1>1. worker \in [Workers -> WorkerState] /\ worker[w] \in WorkerState
  BY DEF StatementInv, RowsAndWorkers, TypeOK, WorkerTypeOK
<1>2. CASE UNCHANGED vars
  BY <1>2
<1>3. ASSUME UNCHANGED <<dbVars, store>>, Raise(w) \/ Release(w) \/ UNCHANGED worker
      PROVE  OutcomeWrites
  <2>1. \A v \in Workers : \/ worker'[v] = worker[v]
                           \/ worker'[v] = Idle
                           \/ worker'[v].pc = "refinalizing" /\ worker'[v].result = "failed"
    BY <1>1, <1>3 DEF Raise, Release, WorkerState
  <2>2. QED
    BY <1>3, <2>1 DEF OutcomeWrites, PaymentWritten, Paid, dbVars
<1>4. CASE ReadJobOfOther(w) \/ WorkerAborts(w) \/ Kill(w)
  BY <1>3, <1>4 DEF ReadJobOfOther, WorkerAborts, Kill
<1>5. CASE CommitClaim(w)
  <2>1. tx[w].op = "claim"
    BY <1>5 DEF CommitClaim, At
  <2>2. QED
    BY <1>5, <2>1, CommittedClaim, ClaimKnows, ClaimIsStep
<1>6. CASE CallGateway(w)
  BY <1>6 DEF CallGateway, Next, WorkerStep
<1>7. ASSUME NEW k \in JobIds, CommitFinalize(w, k)
      PROVE  OutcomeWrites
  BY <1>7, FinalizeWrites
<1>8. QED
  BY <1>2, <1>4, <1>5, <1>6, <1>7
     DEF WorkerStatement, SelectJob, LockPayment, ReadJob, Decide, LoadRows, Acquire

LEMMA StepWrites ==
  ASSUME StatementInv, OutcomesHold, [StatementNext]_stmtVars
  PROVE  OutcomeWrites \/ [Next]_vars
<1>1. ASSUME NEW r \in Requests, RequestStatement(r)
      PROVE  OutcomeWrites \/ [Next]_vars
  BY <1>1, DeliveryWrites, AdminWrites DEF RequestStatement, Acquire, RequestAborts
<1>2. ASSUME NEW j \in JobIds, Expire(j)
      PROVE  [Next]_vars
  BY <1>2 DEF Expire, Next
<1>3. UNCHANGED stmtVars => [Next]_vars
  BY DEF stmtVars
<1>4. QED
  BY <1>1, <1>2, <1>3, WorkerWrites DEF StatementNext

LEMMA StepKeepsOutcomes ==
  ASSUME StatementInv, OutcomesHold, [StatementNext]_stmtVars
  PROVE  OutcomesHold'
<1>1. ASSUME [Next]_vars
      PROVE  OutcomesHold'
  BY <1>1, StepKeepsAnswers, StepKeepsMadeUp, StepKeepsBacked, StepKeepsRecovered
     DEF StatementInv, OutcomesHold
<1>2. QED
  BY <1>1, StepWrites, WritesKeepOutcomes

LEMMA OutcomesHoldAlways == StatementSpec => []OutcomesHold
<1>1. StatementInit => OutcomesHold
  <2>1. Init => AnswersAreReal /\ MadeUpIsFailure
    BY DEF Init, WorkerInit, Idle, AnswersAreReal, MadeUpIsFailure
  <2>2. Init => PaidIsBacked /\ RecoveredIsPaid
    BY DEF Init, DbInit, NoPayment, NoCase, PaidIsBacked, RecoveredIsPaid, Paid
  <2>3. QED
    BY <2>1, <2>2 DEF StatementInit, OutcomesHold
<1>2. StatementInv /\ OutcomesHold /\ [StatementNext]_stmtVars => OutcomesHold'
  BY StepKeepsOutcomes
<1>3. QED
  BY <1>1, <1>2, StatementInvariant, PTL DEF StatementSpec

(* With transactions interleaved statement by statement and leases running *)
(* out at any moment, a case still counts as recovered only if its payment *)
(* was paid.                                                               *)
THEOREM RecoveredIsPaidByStatements == StatementSpec => []RecoveredIsPaid
<1>1. OutcomesHold => RecoveredIsPaid
  BY DEF OutcomesHold
<1>2. QED
  BY <1>1, OutcomesHoldAlways, PTL

(* And a payment still becomes SUCCEEDED only with a committed event that  *)
(* says so, or a successful charge that the gateway holds for it.          *)
THEOREM PaidIsBackedByStatements == StatementSpec => []PaidIsBacked
<1>1. OutcomesHold => PaidIsBacked
  BY DEF OutcomesHold
<1>2. QED
  BY <1>1, OutcomesHoldAlways, PTL

(* Whatever else goes wrong then: a payment that has succeeded stays so.   *)
THEOREM PaymentSuccessIsFinalByStatements == StatementSpec => PaymentSuccessIsFinal
<1>1. StatementInv /\ OutcomesHold /\ [StatementNext]_stmtVars =>
         [\A p \in PaymentIds : Paid(p) => Paid(p)']_vars
  BY StepWrites, StepKeepsPaid DEF OutcomeWrites, StatementInv
<1>2. QED
  BY <1>1, StatementInvariant, OutcomesHoldAlways, PTL
     DEF StatementSpec, PaymentSuccessIsFinal

(* No money moves without a committed attempt that accounts for it.        *)
THEOREM WriteAheadByStatements == StatementSpec => []WriteAhead
<1>1. StatementInv => WriteAhead
  BY DEF StatementInv, RowsAndWorkers
<1>2. QED
  BY <1>1, StatementInvariant, PTL

(* And no case gets more attempts than max_attempts.                       *)
THEOREM RetryBudgetByStatements == StatementSpec => []RetryBudget
<1>1. StatementInv => RetryBudget
  BY BudgetIsKept DEF StatementInv
<1>2. QED
  BY <1>1, StatementInvariant, PTL

-----------------------------------------------------------------------------
(* Successes that were handled. *)

(* Who writes to the payments table. *)
LEMMA HowPaymentsAreWritten ==
  ASSUME StatementInv, [StatementNext]_stmtVars, NEW p \in PaymentIds
  PROVE  \/ payments'[p] = payments[p]
         \/ payments'[p].status \in {"FAILED", "SUCCEEDED"}
<1> payments \in [PaymentIds -> PaymentRow]
  BY DEF StatementInv, RowsAndWorkers, TypeOK, DbTypeOK
<1>1. ASSUME NEW r \in Requests, DeliveryStep(r)
      PROVE  \/ payments'[p] = payments[p]
             \/ payments'[p].status \in {"FAILED", "SUCCEEDED"}
  <2>1. UNCHANGED payments \/ \E s \in {"FAILED", "SUCCEEDED"} : PutPayment(tx[r].event, s)
    BY <1>1 DEF DeliveryStep, Deliver, Dedupe, WebhookFails, ApplyToTerminal, ApplyFailure,
                InsertCase, InsertFails, ApplySuccess, CancelJobs, CommitSuccess, vars, dbVars
  <2>2. QED
    BY <2>1 DEF PutPayment
<1>2. ASSUME NEW r \in Requests, AdminStep(r) \/ RequestAborts(r)
      PROVE  UNCHANGED payments
  BY <1>2 DEF AdminStep, BeginAdmin, LockItsPayment, RejectPaid, Refuse, StopReadsJobs,
              CommitStop, RetryReadsJobs, CommitRetry, RequestAborts, vars, dbVars
<1>3. ASSUME NEW t \in Tx, Acquire(t)
      PROVE  UNCHANGED payments
  BY <1>3 DEF Acquire, vars, dbVars
<1>4. ASSUME NEW w \in Workers, NEW k \in JobIds, CommitFinalize(w, k)
      PROVE  payments'[p] = payments[p] \/ payments'[p].status = "SUCCEEDED"
  BY <1>4, CommittedRows
<1>5. ASSUME NEW w \in Workers, WorkerStatement(w) \/ Kill(w),
             ~\E k \in JobIds : CommitFinalize(w, k)
      PROVE  UNCHANGED payments
  BY <1>3, <1>5 DEF WorkerStatement, SelectJob, LockPayment, CommitClaim, CallGateway, ReadJob,
              ReadJobOfOther, Decide, LoadRows, WorkerAborts, VerifyPayment, Charge, Kill,
              Tx, vars, dbVars
<1>6. ASSUME NEW j \in JobIds, Expire(j)
      PROVE  UNCHANGED payments
  BY <1>6 DEF Expire, LeaseExpires
<1>7. UNCHANGED stmtVars => UNCHANGED payments
  BY DEF stmtVars, vars, dbVars
<1>8. QED
  BY <1>1, <1>2, <1>3, <1>4, <1>5, <1>6, <1>7 DEF StatementNext, RequestStatement, Tx

(* An event is recorded by a delivery of it, which has written its         *)
(* success, or has found that the payment needs none.                      *)
Shows(e) == \/ e.type = "payment.failed"
            \/ Terminal(e.payment) /\ UNCHANGED payments
            \/ payments'[e.payment].status = "SUCCEEDED"

LEMMA HowEventsAreRecorded ==
  ASSUME StatementInv, [StatementNext]_stmtVars, NEW i \in handled', i \notin handled
  PROVE  \E e \in Events : e.id = i /\ Shows(e)
<1>1. ASSUME NEW r \in Requests, DeliveryStep(r)
      PROVE  \E e \in Events : e.id = i /\ Shows(e)
  <2> DEFINE own == tx[r].event
  <2>1. /\ ApplyToTerminal(r) \/ ApplyFailure(r) \/ InsertCase(r) \/ CommitSuccess(r)
        /\ Commit200(r)
    BY <1>1 DEF DeliveryStep, Deliver, WebhookFails, InsertFails, ApplySuccess, CancelJobs,
                Dedupe, ApplyToTerminal, ApplyFailure, InsertCase, CommitSuccess, vars, dbVars
  <2>2. own.id = i
    BY <2>1 DEF Commit200
  <2>3. tx[r].op = "webhook"
    BY <2>1 DEF ApplyToTerminal, ApplyFailure, InsertCase, CommitSuccess, Applying, At
  <2>4. own \in Events /\ own.payment \in PaymentIds /\ WebhookStage(r)
    BY <2>3, WebhookKnows DEF WebhookStage
  <2>5. ApplyToTerminal(r) \/ ApplyFailure(r) => Shows(own)
    BY DEF ApplyToTerminal, ApplyFailure, Shows
  <2>6. InsertCase(r) => Shows(own)
    BY <2>4 DEF InsertCase, At, WebhookStage, Shows
  <2>7. CommitSuccess(r) => Shows(own)
    <3>1. CommitSuccess(r) => PutPayment(own, "SUCCEEDED")
      BY DEF CommitSuccess
    <3>2. payments \in [PaymentIds -> PaymentRow]
      BY DEF StatementInv, RowsAndWorkers, TypeOK, DbTypeOK
    <3>3. QED
      BY <2>4, <3>1, <3>2 DEF PutPayment, Shows
  <2>8. QED
    BY <2>1, <2>2, <2>4, <2>5, <2>6, <2>7
<1>2. ASSUME NEW r \in Requests, AdminStep(r) \/ RequestAborts(r)
      PROVE  FALSE
  BY <1>2 DEF AdminStep, BeginAdmin, LockItsPayment, RejectPaid, Refuse, StopReadsJobs,
              CommitStop, RetryReadsJobs, CommitRetry, RequestAborts, vars, dbVars
<1>3. ASSUME NEW t \in Tx, Acquire(t)
      PROVE  FALSE
  BY <1>3 DEF Acquire, vars, dbVars
<1>4. ASSUME NEW w \in Workers, WorkerStatement(w) \/ Kill(w)
      PROVE  FALSE
  BY <1>3, <1>4 DEF WorkerStatement, SelectJob, LockPayment, CommitClaim, CallGateway, ReadJob,
              ReadJobOfOther, Decide, LoadRows, CommitFinalize, WorkerAborts, VerifyPayment,
              Charge, Kill, Tx, vars, dbVars
<1>5. ASSUME NEW j \in JobIds, Expire(j)
      PROVE  FALSE
  BY <1>5 DEF Expire, LeaseExpires
<1>6. ~UNCHANGED stmtVars
  BY DEF stmtVars, vars, dbVars
<1>7. QED
  BY <1>1, <1>2, <1>3, <1>4, <1>5, <1>6 DEF StatementNext, RequestStatement, Tx

EffectsInv == OutcomesHold /\ NeverAbandoned /\ SuccessTakesEffect

LEMMA StatementKeepsEffects ==
  ASSUME SuccessIdsAreOwn, StatementInv, EffectsInv, [StatementNext]_stmtVars
  PROVE  EffectsInv'
<1>1. OutcomesHold'
  BY StepKeepsOutcomes DEF EffectsInv
<1>2. NeverAbandoned'
  BY HowPaymentsAreWritten DEF EffectsInv, NeverAbandoned
<1>3. ASSUME NEW p \in PaymentIds, Paid(p)
      PROVE  Paid(p)'
  <2>1. CASE [Next]_vars
    BY <1>3, <2>1, StepKeepsPaid DEF StatementInv
  <2>2. CASE OutcomeWrites
    BY <1>3, <2>2 DEF OutcomeWrites
  <2>3. QED
    BY <2>1, <2>2, StepWrites DEF EffectsInv
<1>4. ASSUME NEW e \in Events, e.type = "payment.succeeded", e.id \in handled'
      PROVE  Paid(e.payment)'
  <2>1. e.payment \in PaymentIds
    BY EventsAssumption DEF WebhookEvent
  <2>2. CASE e.id \in handled
    BY <1>3, <1>4, <2>1, <2>2 DEF EffectsInv, SuccessTakesEffect, Paid
  <2>3. CASE e.id \notin handled
    <3>1. PICK f \in Events : f.id = e.id /\ Shows(f)
      BY <1>4, <2>3, HowEventsAreRecorded
    <3>2. f.type = "payment.succeeded" /\ f.payment = e.payment
      BY <1>4, <3>1 DEF SuccessIdsAreOwn
    <3>3. CASE Terminal(e.payment) /\ UNCHANGED payments
      BY <2>1, <3>3 DEF Terminal, EffectsInv, NeverAbandoned, Paid
    <3>4. QED
      BY <3>1, <3>2, <3>3 DEF Shows, Paid
  <2>4. QED
    BY <2>2, <2>3
<1>5. QED
  BY <1>1, <1>2, <1>4 DEF EffectsInv, SuccessTakesEffect

(* A payment.succeeded that was handled shows in its payment, whatever     *)
(* leases run out and transactions abort, if the provider does not use its *)
(* event id for anything else.                                             *)
THEOREM SuccessTakesEffectByStatements ==
  ASSUME SuccessIdsAreOwn
  PROVE  StatementSpec => []SuccessTakesEffect
<1>1. StatementInit => NeverAbandoned /\ SuccessTakesEffect
  BY DEF StatementInit, Init, DbInit, NoPayment, NeverAbandoned, SuccessTakesEffect
<1>2. EffectsInv /\ StatementInv /\ [StatementNext]_stmtVars => EffectsInv'
  BY StatementKeepsEffects
<1>3. EffectsInv <=> OutcomesHold /\ NeverAbandoned /\ SuccessTakesEffect
  BY DEF EffectsInv
<1>4. QED
  BY <1>1, <1>2, <1>3, OutcomesHoldAlways, StatementInvariant, PTL DEF StatementSpec
=============================================================================
