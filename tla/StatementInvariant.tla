------------------------- MODULE StatementInvariant -------------------------
(***************************************************************************)
(* The inductive invariant of the statements: what the locks keep apart,   *)
(* and what a transaction knows of the rows at each of its statements.     *)
(***************************************************************************)
EXTENDS StatementEngine, RecoveryInvariant

-----------------------------------------------------------------------------
(* Locks of two transactions on one row are compatible. *)
LocksExclude ==
    \A t, u \in Tx : t # u =>
        \A l \in tx[t].held, m \in tx[u].held :
            l.row = m.row => Compatible(l.mode, m.mode)

(* t has taken the lock, or takes it before its next statement. *)
Takes(t, mode, row) == Lock(mode, row) \in tx[t].held \cup tx[t].want

(* What t has locked as it locks rows of one table. *)
CasesTaken(t) == {c \in CaseIds : \E m \in LockMode : Takes(t, m, CaseRowOf(c))}
JobsTaken(t)  == {j \in JobIds : Takes(t, "change", JobRowOf(j))}

(* The event may be applied: what process_webhook has checked on its way.  *)
Applicable(e) ==
    /\ ~Terminal(e.payment)
    /\ payments[e.payment].status = "ABSENT" \/ payments[e.payment].terms = e.terms

WebhookStage(t) ==
    LET e == tx[t].event
        p == e.payment
    IN  /\ t \in Requests
        /\ e \in Events /\ e.type \in SupportedTypes /\ e.terms \in AcceptedTerms
        /\ tx[t].at \in {"dedupe", "apply", "insert", "cancel", "save"}
        /\ IF tx[t].at = "dedupe" THEN Takes(t, "update", EventRow(e.id))
           ELSE Holds(t, "update", EventRow(e.id)) /\ e.id \notin handled
        /\ tx[t].at = "apply" => Takes(t, "update", PaymentRowOf(p))
        /\ tx[t].at \in {"insert", "cancel", "save"} =>
              Holds(t, "update", PaymentRowOf(p)) /\ Applicable(e)
        /\ tx[t].at = "insert" =>
              e.type = "payment.failed" /\ ActiveCases(p) = {}
        /\ tx[t].at \in {"cancel", "save"} =>
              /\ e.type = "payment.succeeded"
              /\ \A c \in ActiveCases(p) : Takes(t, "update", CaseRowOf(c))
              /\ \A c \in CasesTaken(t) : CaseExists(c) /\ cases[c].payment = p
        /\ tx[t].at \notin {"cancel", "save"} => CasesTaken(t) = {}
        /\ tx[t].at = "save" =>
              \A c \in CaseIds : Takes(t, "update", CaseRowOf(c))
                                     => Holds(t, "update", CaseRowOf(c))
        /\ tx[t].at # "save" => JobsTaken(t) = {}
        /\ \A j \in JobsTaken(t) : JobExists(j)

AdminStage(t) ==
    LET c == tx[t].case
        p == cases[c].payment
    IN  /\ t \in Requests
        /\ c \in CaseIds /\ CaseExists(c)
        /\ tx[t].at \in {"payment", "decide"}
                        \cup (IF tx[t].op = "stop" THEN {"save"} ELSE {"insert"})
        /\ CasesTaken(t) \subseteq {c}
        /\ IF tx[t].at = "payment" THEN Takes(t, "update", CaseRowOf(c))
           ELSE Holds(t, "update", CaseRowOf(c))
        /\ tx[t].at = "decide" => Takes(t, "update", PaymentRowOf(p))
        /\ tx[t].at \in {"save", "insert"} =>
              Holds(t, "update", PaymentRowOf(p)) /\ ~Paid(p)
        /\ tx[t].at = "save" => ActiveCase(c)
        /\ tx[t].at = "insert" => cases[c].status # "RECOVERED"
        /\ tx[t].at # "save" => JobsTaken(t) = {}
        /\ \A j \in JobsTaken(t) : JobExists(j)

ClaimStage(t) ==
    LET j == tx[t].job
        c == jobs[j].case
    IN  /\ t \in Workers
        /\ worker[t].pc = "idle"
        /\ j \in JobIds /\ JobExists(j) /\ Claimable(j)
        /\ Holds(t, "update", JobRowOf(j))
        /\ tx[t].at \in {"payment", "decide"}
        /\ IF tx[t].at = "payment" THEN Takes(t, "update", CaseRowOf(c))
           ELSE Holds(t, "update", CaseRowOf(c))
        /\ tx[t].at = "decide" => Takes(t, "update", PaymentRowOf(PaymentOf(j)))

Decisions == {"CHARGE", "ABORT", "DELAY"}

FinalizeStage(t) ==
    LET j == tx[t].job
        c == jobs[j].case
        n == worker[t].attempt
        decided == tx[t].answer \in Decisions \cup {"late"}
    IN  /\ t \in Workers
        /\ worker[t].pc \in FinalizePc \cup {"evaluating", "ambiguous"}
        /\ j = Job(t)
        /\ IF worker[t].pc = "evaluating" THEN tx[t].answer # "none"
           ELSE tx[t].answer = "none"
        /\ tx[t].at \in {"payment", "decide", "load", "save"}
        /\ tx[t].at \in {"payment", "decide"} => tx[t].answer \in Decisions
        /\ tx[t].at = "payment" => Takes(t, "update", CaseRowOf(c))
        /\ tx[t].at = "decide" => /\ Holds(t, "update", CaseRowOf(c))
                                  /\ Takes(t, "update", PaymentRowOf(PaymentOf(j)))
        /\ tx[t].at \in {"load", "save"} /\ decided =>
              /\ Holds(t, "update", CaseRowOf(c))
              /\ Holds(t, "update", PaymentRowOf(PaymentOf(j)))
              /\ Paid(PaymentOf(j)) <=> tx[t].answer = "late"
        /\ tx[t].at # "save" =>
              \A l \in tx[t].held \cup tx[t].want : l.mode = "update"
        /\ tx[t].at = "save" =>
              /\ n # 0 /\ Takes(t, "change", AttemptRow(c, n))
                    => AttemptOutcome(t) # "none"
              /\ Takes(t, "change", CaseRowOf(c)) => CaseOutcome(t) # "none"
              /\ Takes(t, "change", PaymentRowOf(PaymentOf(j)))
                    => AttemptOutcome(t) = "SUCCEEDED"
              /\ AttemptOutcome(t) = "SUCCEEDED" =>
                    \/ Takes(t, "change", PaymentRowOf(PaymentOf(j)))
                    \/ Paid(PaymentOf(j))
              /\ NextJob(t) # "none" => Takes(t, "refer", CaseRowOf(c))

Stage(t) ==
    /\ tx[t].op = "none" => tx[t] = NoTx
    /\ tx[t].op = "webhook" => WebhookStage(t)
    /\ tx[t].op \in {"stop", "retry"} => AdminStage(t)
    /\ tx[t].op = "claim" => ClaimStage(t)
    /\ tx[t].op = "finalize" => FinalizeStage(t)

Stages == \A t \in Tx : Stage(t)

StatementInv == RowsAndWorkers /\ LocksTypeOK /\ LocksExclude /\ Stages

-----------------------------------------------------------------------------
(* While leases outlast the work of their holders. *)

LeasesKept ==
    \A w \in Workers : worker[w].pc # "idle" =>
        /\ jobs[Job(w)].owner = w
        /\ jobs[Job(w)].status = "RUNNING"
        /\ ~jobs[Job(w)].expired

(* What workers have in memory beyond the job. *)
MemoriesFit ==
    \A w \in Workers :
        /\ worker[w].pc = "idle" => worker[w] = Idle
        /\ worker[w].pc = "evaluating" => worker[w].attempt = 0
        /\ worker[w].pc \in FinalizePc => worker[w].result \in GatewayResult

OneActiveCase ==
    \A c, d \in CaseIds :
        ActiveCase(c) /\ ActiveCase(d) /\ cases[c].payment = cases[d].payment => c = d

(* What a transaction has read without a lock has not changed. *)
PendingFresh(t) ==
    tx[t].op \in {"webhook", "stop"} /\ tx[t].at = "save" =>
        /\ JobsTaken(t) # {}
        /\ JobsTaken(t) = PendingOf(OpenLocked(t))

RetryFresh(t) ==
    tx[t].op = "retry" /\ tx[t].at = "insert" => NoLiveJob(tx[t].case)

FinalizeFresh(t) ==
    LET j == tx[t].job
        c == jobs[j].case
        n == worker[t].attempt
    IN  tx[t].op = "finalize" /\ tx[t].at = "save" =>
            /\ Takes(t, "change", JobRowOf(j))
            /\ n # 0 => \/ Takes(t, "change", AttemptRow(c, n))
                        \/ attempts[c][n] = AttemptOutcome(t)
            /\ CaseOutcome(t) # "none" =>
                  \/ Takes(t, "change", CaseRowOf(c))
                  \/ cases[c].status = CaseOutcome(t)
                  \/ /\ CaseOutcome(t) = "STOPPED" /\ tx[t].answer = "none"
                     /\ cases[c].status = "RECOVERED"

ReadsFresh == \A t \in Tx : PendingFresh(t) /\ RetryFresh(t) /\ FinalizeFresh(t)

(* What holds after whole transactions as well. *)
LiveInv == /\ RowsAndWorkers
           /\ OneLiveJobPerCase
           /\ OneActiveCase
           /\ LeasesKept
           /\ MemoriesFit

FreshInv == StatementInv /\ LiveInv /\ ReadsFresh

-----------------------------------------------------------------------------
(* What the transactions know that lock in order. *)

CaseUpdates    == {Lock("update", CaseRowOf(c)) : c \in CaseIds}
PaymentUpdates == {Lock("update", PaymentRowOf(p)) : p \in PaymentIds}

(* A claim begins with its job. *)
FirstLock(t) == IF tx[t].op = "claim" THEN {Lock("update", JobRowOf(tx[t].job))} ELSE {}

(* One row after the other; what a decision locks last is its own job, and *)
(* the case again.                                                         *)
LocksInOrder(t) ==
    LET held == tx[t].held
        want == tx[t].want
    IN  /\ tx[t].at = "payment" =>
              /\ \E c \in CaseIds : want \subseteq {Lock("update", CaseRowOf(c))}
              /\ held \subseteq FirstLock(t) \cup (IF want = {} THEN CaseUpdates ELSE {})
        /\ tx[t].at = "decide" =>
              /\ \E p \in PaymentIds : want \subseteq {Lock("update", PaymentRowOf(p))}
              /\ held \subseteq FirstLock(t) \cup CaseUpdates
                                  \cup (IF want = {} THEN PaymentUpdates ELSE {})
        /\ tx[t].at \notin {"payment", "decide"} =>
              \A l \in held \cup want :
                 \/ l \in held \cap (CaseUpdates \cup PaymentUpdates)
                 \/ /\ tx[t].op = "finalize"
                    /\ \/ l = Lock("change", JobRowOf(tx[t].job))
                       \/ \E c \in CaseIds : /\ l.row = CaseRowOf(c)
                                            /\ Holds(t, "update", l.row)

OrderStage(t) == /\ tx[t].op # "finalize" => tx[t].answer = "none"
                 /\ t \in OrderedTx => LocksInOrder(t)

OrderInv == \A t \in Tx : OrderStage(t)

(* How far a transaction has got: waiting for the case, having it, waiting *)
(* for the payment, having it, past both.                                  *)
LockRank(t) ==
    IF tx[t].at = "payment" THEN (IF tx[t].want = {} THEN 2 ELSE 1)
    ELSE IF tx[t].at = "decide" THEN (IF tx[t].want = {} THEN 4 ELSE 3)
    ELSE 5

(* Who is waited for has got further. *)
WaitsRise ==
    \A t, u \in OrderedTx : WaitsFor(t, u) => LockRank(t) < LockRank(u)
=============================================================================
