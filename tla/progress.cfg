SPECIFICATION FairSpec
CONSTANTS
    NULL = NULL
    p1 = p1  p2 = p2  t1 = t1
    f1 = f1  f2 = f2  s1 = s1  s2 = s2
    c1 = c1  c2 = c2  w1 = w1
    PaymentIds = {p1, p2}
    EventIds = {f1, f2, s2}
    Terms = {t1}
    AcceptedTerms = {t1}
    CaseIds = {c1, c2}
    JobIds = {1, 2, 3, 4, 5, 6}
    Workers = {w1, w2}
    Events <- FailuresAndSuccess
    MaxAttempts = 1
    CommitsMayAbort = FALSE
    MaxCrashes = 1
CHECK_DEADLOCK FALSE
CONSTRAINTS IdsInOrder OneAfterCrash
PROPERTIES PaidDrains ChargeIsRecordedOrCancelled FreshChargeIsClaimed
