------------------------- MODULE RecoveryAnalytics -------------------------
(***************************************************************************)
(* The analytics request: two aggregate queries in one READ COMMITTED      *)
(* transaction, each of which sees what is committed when it starts, and   *)
(* the rest of the engine going on between them.  The database adds        *)
(* amounts up exactly; Python then turns each sum into a float, and what   *)
(* it computes from those is rounded.                                      *)
(***************************************************************************)
EXTENDS Integers, FiniteSets, FiniteSetsExt

CONSTANTS
    Cases,         \* ids of rows of recovery_cases
    AttemptNos,
    Currencies,
    Amounts,       \* in the smallest unit
    Times,         \* values of created_at, and the bounds of the window
    Float(_),              \* the float nearest to a sum
    FloatMinus(_, _),      \* difference and quotient of Python, rounded
    FloatDivide(_, _)

ASSUME AnalyticsAssumption ==
    /\ IsFiniteSet(Cases) /\ IsFiniteSet(AttemptNos)
    /\ AttemptNos \subseteq Nat /\ Amounts \subseteq Nat /\ Times \subseteq Nat

VARIABLES
    cases,         \* status "ABSENT": no such row
    attempts,      \* by case and attempt_number
    pc,            \* "asked", "half" (between the two queries), "answered"
    window,        \* the start_at and end_at asked for
    caseRows,      \* the answer to the first query
    report,        \* metrics_by_currency
    atFirst        \* history: the reference when the first query ran

vars == <<cases, attempts, pc, window, caseRows, report, atFirst>>

CaseRow == [status   : {"ABSENT", "OPEN", "RECOVERED", "STOPPED"},
            currency : Currencies, amount : Amounts, created : Times]

Init == /\ cases \in [Cases -> {row \in CaseRow : row.status \in {"ABSENT", "OPEN"}}]
        /\ attempts = [c \in Cases |-> [n \in AttemptNos |-> "ABSENT"]]
        /\ pc = "asked"
        /\ window \in {w \in Times \X Times : w[1] < w[2]}
        /\ caseRows = <<>> /\ report = <<>> /\ atFirst = <<>>

-----------------------------------------------------------------------------
(* The queries.  A group is there for every currency that has a row.       *)
(* Mutated: the window includes its end. *)
ClosedWindow(c) == /\ cases[c].status # "ABSENT"
                   /\ cases[c].created >= window[1] /\ cases[c].created <= window[2]

InWindow(c) == /\ cases[c].status # "ABSENT"
               /\ cases[c].created >= window[1] /\ cases[c].created < window[2]

GroupedCases(cur) == {c \in Cases : InWindow(c) /\ cases[c].currency = cur}

SumOfAmounts(S) == FoldSet(LAMBDA c, sum : sum + cases[c].amount, 0, S)

CaseQuery ==
    LET StatusIn(cur, ss) == {c \in GroupedCases(cur) : cases[c].status \in ss}
    IN  [cur \in {k \in Currencies : GroupedCases(k) # {}} |->
           [total      |-> Cardinality(GroupedCases(cur)),
            successful |-> Cardinality(StatusIn(cur, {"RECOVERED"})),
            stopped    |-> Cardinality(StatusIn(cur, {"STOPPED", "ESCALATED"})),
            attempted  |-> SumOfAmounts(GroupedCases(cur)),
            recovered  |-> SumOfAmounts(StatusIn(cur, {"RECOVERED"}))]]

(* The join has a row for each attempt of a case. *)
Status(row) == attempts[row[1]][row[2]]

Joined(cur) == {row \in GroupedCases(cur) \X AttemptNos : Status(row) # "ABSENT"}

AttemptQuery ==
    LET StatusIs(cur, s) == {row \in Joined(cur) : Status(row) = s}
    IN  [cur \in {k \in Currencies : Joined(k) # {}} |->
           [total      |-> Cardinality(Joined(cur)),
            successful |-> Cardinality(StatusIs(cur, "SUCCEEDED")),
            failed     |-> Cardinality(StatusIs(cur, "FAILED"))]]

CaseFigures(row) ==
    LET attempted == Float(row.attempted)
        recovered == Float(row.recovered)
    IN  [total         |-> row.total,
         successful    |-> row.successful,
         stopped       |-> row.stopped,
         attempted     |-> attempted,
         recovered     |-> recovered,
         unrecovered   |-> FloatMinus(attempted, recovered),
         recovery_rate |-> IF attempted > 0 THEN FloatDivide(recovered, attempted) ELSE 0,
         success_rate  |-> IF row.total > 0 THEN FloatDivide(row.successful, row.total)
                           ELSE 0]

(* The attempts of a currency that the first query did not see are left out.*)
Merge(rows, tries) ==
    [cur \in DOMAIN rows |->
        [cases    |-> CaseFigures(rows[cur]),
         attempts |-> IF cur \in DOMAIN tries THEN tries[cur]
                      ELSE [total |-> 0, successful |-> 0, failed |-> 0]]]

(* What the report is about: case by case, each added to its currency.     *)
Reported == {c \in Cases : /\ cases[c].status # "ABSENT"
                           /\ window[1] <= cases[c].created /\ cases[c].created < window[2]}

NoCases == [cases |-> [total |-> 0, successful |-> 0, stopped |-> 0, attempted |-> 0,
                       recovered |-> 0],
            attempts |-> [total |-> 0, successful |-> 0, failed |-> 0]]

AddCase(c, m) ==
    LET one(b) == IF b THEN 1 ELSE 0
        made(S) == Cardinality({n \in AttemptNos : attempts[c][n] \in S})
        won     == cases[c].status = "RECOVERED"
    IN  [cases |-> [total      |-> m.cases.total + 1,
                    successful |-> m.cases.successful + one(won),
                    stopped    |-> m.cases.stopped + one(cases[c].status = "STOPPED"),
                    attempted  |-> m.cases.attempted + cases[c].amount,
                    recovered  |-> m.cases.recovered + one(won) * cases[c].amount],
         attempts |-> [total |-> m.attempts.total + made({"RUNNING", "SUCCEEDED", "FAILED"}),
                       successful |-> m.attempts.successful + made({"SUCCEEDED"}),
                       failed     |-> m.attempts.failed + made({"FAILED"})]]

Added(S) == FoldSet(AddCase, NoCases, S)

Reference == [cur \in {cases[c].currency : c \in Reported} |->
                 Added({c \in Reported : cases[c].currency = cur})]

AskForCases ==
    /\ pc = "asked"
    /\ caseRows' = CaseQuery
    /\ atFirst' = Reference
    /\ pc' = "half"
    /\ UNCHANGED <<cases, attempts, window, report>>

AskForAttempts ==
    /\ pc = "half"
    /\ report' = Merge(caseRows, AttemptQuery)
    /\ pc' = "answered"
    /\ UNCHANGED <<cases, attempts, window, caseRows, atFirst>>

-----------------------------------------------------------------------------
(* What the rest of the engine commits meanwhile. *)
Meanwhile == /\ pc # "answered"
             /\ UNCHANGED <<pc, window, caseRows, report, atFirst>>

OpenCase(c) ==
    /\ cases[c].status = "ABSENT"
    /\ cases' = [cases EXCEPT ![c].status = "OPEN"]
    /\ UNCHANGED attempts
    /\ Meanwhile

StartAttempt(c, n) ==
    /\ cases[c].status \in {"OPEN", "STOPPED"}
    /\ attempts[c][n] = "ABSENT"
    /\ \A m \in AttemptNos : m < n => attempts[c][m] = "FAILED"
    /\ attempts' = [attempts EXCEPT ![c][n] = "RUNNING"]
    /\ UNCHANGED cases
    /\ Meanwhile

Settle(c, n) ==
    /\ attempts[c][n] = "RUNNING"
    /\ \/ /\ attempts' = [attempts EXCEPT ![c][n] = "SUCCEEDED"]
          /\ cases' = [cases EXCEPT ![c].status = "RECOVERED"]
       \/ /\ attempts' = [attempts EXCEPT ![c][n] = "FAILED"]
          /\ \/ UNCHANGED cases
             \/ cases' = [cases EXCEPT ![c].status = "STOPPED"]
    /\ Meanwhile

(* A stop, an ABORT or payment.succeeded; a stop of a case whose payment   *)
(* has succeeded since it was stopped.                                     *)
CloseCase(c) ==
    /\ \/ /\ cases[c].status = "OPEN"
          /\ cases' = [cases EXCEPT ![c].status = "STOPPED"]
       \/ /\ cases[c].status \in {"OPEN", "STOPPED"}
          /\ cases' = [cases EXCEPT ![c].status = "RECOVERED"]
    /\ UNCHANGED attempts
    /\ Meanwhile

(* A retry; an attempt may be open still, if stop cancelled its job. *)
ReopenCase(c) ==
    /\ cases[c].status = "STOPPED"
    /\ cases' = [cases EXCEPT ![c].status = "OPEN"]
    /\ UNCHANGED attempts
    /\ Meanwhile

Next == \/ AskForCases \/ AskForAttempts
        \/ \E c \in Cases : \/ OpenCase(c) \/ CloseCase(c) \/ ReopenCase(c)
                            \/ \E n \in AttemptNos : StartAttempt(c, n) \/ Settle(c, n)

Spec == Init /\ [][Next]_vars

-----------------------------------------------------------------------------
(* told is what one moment's exact figures m of a currency are reported    *)
(* as: counts and rates of counts as they are, each sum rounded once, and  *)
(* what is computed from sums computed from the rounded ones.              *)
Tells(told, m) ==
    /\ told.total = m.total /\ told.successful = m.successful /\ told.stopped = m.stopped
    /\ told.attempted = Float(m.attempted) /\ told.recovered = Float(m.recovered)
    /\ told.unrecovered = FloatMinus(told.attempted, told.recovered)
    /\ told.attempted > 0 => told.recovery_rate = FloatDivide(told.recovered, told.attempted)
    /\ told.success_rate = FloatDivide(m.successful, m.total)

(* Whatever is committed between the two queries, each half of the report  *)
(* is right about its own moment: the figures of cases about that of the   *)
(* first query, those of attempts, for the currencies there were then,     *)
(* about that of the second.  No case counts once per attempt, and no      *)
(* currency is mixed with another.                                         *)
HalvesAreRight ==
    pc = "answered" =>
        /\ DOMAIN report = DOMAIN atFirst
        /\ \A cur \in DOMAIN atFirst :
              /\ Tells(report[cur].cases, atFirst[cur].cases)
              /\ report[cur].attempts = Reference[cur].attempts
=============================================================================
