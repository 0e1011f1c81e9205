SPECIFICATION StatementSpec
CONSTANTS
    NULL = NULL
    p1 = p1  t1 = t1  f1 = f1  f2 = f2  s1 = s1
    PaymentIds = {p1}
    EventIds = {f1, f2, s1}
    Terms = {t1}
    AcceptedTerms = {t1}
    CaseIds = {c1}
    JobIds = {j1, j2}
    Workers = {w1}
    Requests = {r1, r2}
    Events <- EventsOfOnePayment
    MaxAttempts = 1
    CommitsMayAbort = TRUE
    MaxCrashes = 1
    LeasesOutlast = TRUE
CHECK_DEADLOCK FALSE
SYMMETRY SymmetryAndEvents
CONSTRAINT FewRequests
INVARIANTS StatementTypeOK OrderedLocksNeverDeadlock
    AcknowledgedIsHandled
PROPERTIES TransactionsAreAtomic FinishedJobsStay
