---------------------------- MODULE MCAuditTrail ----------------------------
(* Small instances of AuditTrail for TLC. *)
EXTENDS AuditTrail, TLC

CONSTANTS p1, p2, t1, f1, f2, s1, c2, j2

Event(id, type, p) ==
    [id |-> id, type |-> type, payment |-> p, terms |-> t1, reason |-> TRUE]

(* A failure and a success of one payment. *)
FailureAndSuccess == {Event(f1, "payment.failed", p1), Event(s1, "payment.succeeded", p1)}

(* The second payment failed before the migration. *)
OneLegacyJob == {[job |-> j2, case |-> c2, payment |-> p2, terms |-> t1]}

Symmetry == Permutations(Traces) \cup Permutations(Workers)
            \cup Permutations(CaseIds \ {c2}) \cup Permutations(JobIds \ {j2})
=============================================================================
