-------------------------- MODULE MCRecoveryEngine --------------------------
(* Small instances of RecoveryEngine for TLC. *)
EXTENDS RecoveryInvariant, TLC

CONSTANTS p1, t1, t2, f1, f2, s1, s2

Event(id, type, p, terms) ==
    [id |-> id, type |-> type, payment |-> p, terms |-> terms, reason |-> TRUE]

(* Two failures and a success of one payment, in any order. *)
EventsOfOnePayment ==
    {Event(f1, "payment.failed", p1, t1), Event(f2, "payment.failed", p1, t1),
     Event(s1, "payment.succeeded", p1, t1)}

(* Besides, a success whose terms differ, a failure without a reason and an *)
(* event of another type, which reuse the id of a failure.                 *)
EventsOfAllKinds ==
    EventsOfOnePayment \cup
    {Event(s2, "payment.succeeded", p1, t2),
     [Event(f2, "payment.failed", p1, t1) EXCEPT !.reason = FALSE],
     Event(f2, "other", p1, t1)}

OneFailure == {Event(f1, "payment.failed", p1, t1)}

Symmetry == Permutations(Workers) \cup Permutations(CaseIds) \cup Permutations(JobIds)
=============================================================================
