----------------------- MODULE MCDecisionExtraction -----------------------
(* Answers of the model up to a length, for TLC. *)
EXTENDS DecisionExtraction, TLC
=============================================================================
