SPECIFICATION Spec
CONSTANTS
    NULL = NULL
    p1 = p1  t1 = t1  t2 = t2
    f1 = f1  f2 = f2  s1 = s1  s2 = s2
    PaymentIds = {p1}
    EventIds = {f1, f2, s1, s2}
    Terms = {t1, t2}
    AcceptedTerms = {t1}
    CaseIds = {c1, c2}
    JobIds = {j1, j2, j3, j4}
    Workers = {w1, w2}
    Events <- EventsOfOnePayment
    MaxAttempts = 2
    CommitsMayAbort = FALSE
    MaxCrashes = 0
CHECK_DEADLOCK FALSE
SYMMETRY Symmetry
INVARIANTS IInv TypeOK AtMostOneCharge LedgerAgrees OneLiveJobPerCase
PROPERTIES  LedgerImplemented
    RecoveredLostToLastChargeOnly ClosedCaseStaysQuiet
