SPECIFICATION Spec
CONSTANTS
    NULL = NULL
    p1 = p1  t1 = t1  t2 = t2
    f1 = f1  f2 = f2  s1 = s1  s2 = s2
    PaymentIds = {p1}
    EventIds = {f1, f2, s1, s2}
    Terms = {t1, t2}
    AcceptedTerms = {t1, t2}
    CaseIds = {c1, c2}
    JobIds = {j1, j2, j3, j4, j5}
    Workers = {w1}
    Events <- EventsOfAllKinds
    MaxAttempts = 2
    CommitsMayAbort = TRUE
    MaxCrashes = 1
CHECK_DEADLOCK FALSE
SYMMETRY Symmetry
INVARIANTS WriteAhead NoStrandedCase RetryBudget OpenAttemptHasJob
    PaidIsBacked SuccessTakesEffect
PROPERTIES AttemptsFollowMap PaymentSuccessIsFinal
