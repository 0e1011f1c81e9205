------------------------------ MODULE RowLocks ------------------------------
(***************************************************************************)
(* The locks PostgreSQL puts on rows for the statements of the handlers,   *)
(* under READ COMMITTED.  The rows themselves are those of RecoveryEngine, *)
(* as last committed; what a transaction is about to write becomes visible *)
(* when it commits, and its locks are released then.  A SELECT without FOR *)
(* UPDATE waits for nobody.  PostgreSQL is not part of the repository: the *)
(* lock modes and the detection of deadlocks are modelled as the           *)
(* statements use them.                                                    *)
(***************************************************************************)
EXTENDS RecoveryEngine

CONSTANT Requests    \* HTTP requests that may be in progress together

ASSUME RequestsAssumption == Requests \cap Workers = {}

VARIABLES
    tx,       \* the open transaction of each worker and request
    acked     \* the events whose delivery has been answered 200

Tx == Workers \cup Requests

(* update: SELECT ... FOR UPDATE, and a unique key being inserted.  change: *)
(* an UPDATE of columns that are not keys.  refer: the parent row of a row  *)
(* with a foreign key that is being inserted.                               *)
LockMode == {"update", "change", "refer"}

Compatible(m, n) == "refer" \in {m, n} /\ "update" \notin {m, n}

EventRow(i)      == <<"event", i, 0>>
PaymentRowOf(p)  == <<"payment", p, 0>>
CaseRowOf(c)     == <<"case", c, 0>>
JobRowOf(j)      == <<"job", j, 0>>
AttemptRow(c, n) == <<"attempt", c, n>>

Rows == {EventRow(i) : i \in EventIds} \cup {PaymentRowOf(p) : p \in PaymentIds}
        \cup {CaseRowOf(c) : c \in CaseIds} \cup {JobRowOf(j) : j \in JobIds}
        \cup {AttemptRow(c, n) : c \in CaseIds, n \in AttemptNos}

Lock(mode, row) == [mode |-> mode, row |-> row]

Locks == [mode : LockMode, row : Rows]

(* at: the statement that runs once nothing is left in want.  found: the   *)
(* SELECT of the payment returned a row.  answer: what the AI provider     *)
(* answered; late, if the payment turned out to have succeeded meanwhile.  *)
Statement == {"start", "payment", "decide", "load", "save",
              "dedupe", "apply", "insert", "cancel"}

TxState == [op    : {"none", "claim", "finalize", "webhook", "stop", "retry"},
            at    : Statement,
            want  : SUBSET Locks,
            held  : SUBSET Locks,
            job   : JobIds \cup {NULL},
            case  : CaseIds \cup {NULL},
            event : Events \cup {NULL},
            found : BOOLEAN,
            answer : {"none", "error", "CHARGE", "ABORT", "DELAY", "late"}]

NoTx == [op |-> "none", at |-> "start", want |-> {}, held |-> {}, job |-> NULL,
         case |-> NULL, event |-> NULL, found |-> FALSE, answer |-> "none"]

LocksTypeOK == tx \in [Tx -> TxState] /\ acked \in SUBSET EventIds

LocksInit == tx = [t \in Tx |-> NoTx] /\ acked = {}

-----------------------------------------------------------------------------
Blocks(u, t, lock) ==
    /\ u # t
    /\ \E h \in tx[u].held : h.row = lock.row /\ ~Compatible(h.mode, lock.mode)

LockIsFree(t, lock) == \A u \in Tx : ~Blocks(u, t, lock)

(* The locks of want are taken one after the other, in any order: either   *)
(* there is one, or they are those of the UPDATE and INSERT statements of  *)
(* a flush.  The models declare no relationship(), so the unit of work     *)
(* gives the tables no order.                                              *)
Acquire(t) ==
    \E lock \in tx[t].want :
        /\ LockIsFree(t, lock)
        /\ tx' = [tx EXCEPT ![t].want = @ \ {lock}, ![t].held = @ \cup {lock}]
        /\ UNCHANGED <<vars, acked>>

(* Worker or request t executes statement s. *)
At(t, op, s) == tx[t].op = op /\ tx[t].at = s /\ tx[t].want = {}

(* Then it needs these locks for statement s. *)
Ask(t, locks, s) == tx' = [tx EXCEPT ![t].want = locks \ tx[t].held, ![t].at = s]

Open(t, fields) == tx[t] = NoTx /\ tx' = [tx EXCEPT ![t] = fields]

Close(t) == tx' = [tx EXCEPT ![t] = NoTx]

Holds(t, mode, row) == Lock(mode, row) \in tx[t].held

-----------------------------------------------------------------------------
WaitsFor(t, u) == \E lock \in tx[t].want : Blocks(u, t, lock)

(* The transactions of ts that wait for one another in a circle: t is in   *)
(* every set that has those of ts t waits for, and those they wait for.    *)
Circle(ts) ==
    LET waits == {e \in ts \X ts : WaitsFor(e[1], e[2])}
        Closed(S, from) == \A e \in waits : e[1] \in from => e[2] \in S
    IN  {t \in ts : \A S \in SUBSET ts : Closed(S, S \cup {t}) => t \in S}

(* PostgreSQL notices after deadlock_timeout and aborts one of them. *)
Deadlocked == Circle(Tx)
=============================================================================
