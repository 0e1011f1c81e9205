-------------------------- MODULE MCStatementEngine --------------------------
(* Small instances of StatementEngine for TLC. *)
EXTENDS StatementEngine, TLC

CONSTANTS p1, t1, f1, f2, s1

Event(id, type) == [id |-> id, type |-> type, payment |-> p1, terms |-> t1,
                    reason |-> TRUE]

(* Two failures, delivered with their reason or without, and a success of  *)
(* one payment.                                                            *)
EventsOfOnePayment ==
    {Event(f1, "payment.failed"), Event(f2, "payment.failed"),
     [Event(f1, "payment.failed") EXCEPT !.reason = FALSE],
     [Event(f2, "payment.failed") EXCEPT !.reason = FALSE],
     Event(s1, "payment.succeeded")}

FailureAndSuccess == {Event(f1, "payment.failed"), Event(s1, "payment.succeeded")}

(* Workers and first deliveries only: no administrators, no duplicates.    *)
FirstDeliveries ==
    \A r \in Requests : tx[r] # NoTx =>
        tx[r].op = "webhook" /\ tx[r].event.id \notin handled

(* Of two open requests at most one is of an administrator (a second one   *)
(* waits for the first from its first statement on), and none is a         *)
(* delivery without a reason.  After a crash there is one failure only.    *)
FewRequests ==
    /\ \A q, r \in Requests : q # r /\ tx[q] # NoTx /\ tx[r] # NoTx =>
          /\ tx[q].op = "webhook" \/ tx[r].op = "webhook"
          /\ tx[q].op = "webhook" => tx[q].event.reason
    /\ crashes > 0 => ~({f1, f2} \subseteq handled)

Symmetry == Permutations(Workers) \cup Permutations(Requests)
            \cup Permutations(CaseIds) \cup Permutations(JobIds)

SymmetryAndEvents == Symmetry \cup Permutations({f1, f2})
=============================================================================
