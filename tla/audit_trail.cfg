SPECIFICATION AuditSpec
CONSTANTS
    NULL = NULL
    p1 = p1  p2 = p2  t1 = t1
    f1 = f1  f2 = f2  s1 = s1
    c2 = c2  j2 = j2
    PaymentIds = {p1, p2}
    EventIds = {f1, f2, s1}
    Terms = {t1}
    AcceptedTerms = {t1}
    CaseIds = {c1, c2}
    JobIds = {j1, j2, j3, j4}
    Workers = {w1}
    Events <- FailureAndSuccess
    MaxAttempts = 2
    CommitsMayAbort = TRUE
    MaxCrashes = 1
    Traces = {a1, a2}
    Generated = Generated
    UuidEvents = {f1}
    LegacyJobs <- OneLegacyJob
CHECK_DEADLOCK FALSE
SYMMETRY Symmetry
INVARIANTS AuditTypeOK AuditTellsStatus RecoveredIsPaid
PROPERTIES TraceIsRestored
