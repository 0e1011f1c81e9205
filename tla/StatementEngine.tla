--------------------------- MODULE StatementEngine ---------------------------
(***************************************************************************)
(* RecoveryEngine statement by statement: between any two statements of a  *)
(* handler the other workers and requests go on.  RecoveryEngine takes a   *)
(* transaction for one step; this module says when that is right.          *)
(***************************************************************************)
EXTENDS RequestStatements, WorkerStatements

stmtVars == <<vars, tx, acked>>

StatementInit == Init /\ LocksInit

StatementNext ==
    \/ \E r \in Requests : RequestStatement(r)
    \/ \E w \in Workers : WorkerStatement(w) \/ Kill(w)
    \/ \E j \in JobIds : Expire(j)

StatementSpec == StatementInit /\ [][StatementNext]_stmtVars

-----------------------------------------------------------------------------
StatementTypeOK == TypeOK /\ LocksTypeOK

(* As long as a lease outlasts the work of its holder, locks and order of  *)
(* reads make every transaction the single step that RecoveryEngine takes  *)
(* it for, victims of deadlocks included.                                  *)
TransactionsAreAtomic == Init /\ [][Next]_vars

(* An event that was answered 200 is recorded: the branch that answers so  *)
(* after rolling everything back, the record included, is never reached.   *)
AcknowledgedIsHandled == acked \subseteq handled

(* The transactions that lock job, case and payment in that order: claims, *)
(* retries and decisions.                                                  *)
OrderedTx == {t \in Tx : \/ tx[t].op \in {"claim", "retry"}
                         \/ tx[t].answer \in {"CHARGE", "ABORT", "DELAY", "late"}}

(* They never wait for one another in a circle: every deadlock has a       *)
(* webhook, a stop or a transaction without ordered locks in it.           *)
OrderedLocksNeverDeadlock == Circle(OrderedTx) = {}
=============================================================================
