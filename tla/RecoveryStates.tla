--------------------------- MODULE RecoveryStates ---------------------------
(***************************************************************************)
(* The state enumerations of app/domain/recovery/states.py and the         *)
(* transition maps of app/domain/recovery/state_machine.py.  The maps are  *)
(* data: validate_transition is called by the unit tests only, no handler  *)
(* consults it, so nothing here constrains the other modules.  They state  *)
(* what the handlers are meant to respect.                                 *)
(***************************************************************************)

PaymentState == {"PENDING", "SUCCEEDED", "FAILED", "RECOVERY_PENDING",
                 "RECOVERED", "ABANDONED"}

RecoveryState == {"OPEN", "DECISION_PENDING", "ACTION_SCHEDULED",
                  "ACTION_EXECUTING", "RECOVERED", "ESCALATED", "STOPPED"}

AttemptState == {"SCHEDULED", "RUNNING", "SUCCEEDED", "FAILED",
                 "CANCELLED", "AMBIGUOUS"}

JobState == {"PENDING", "RUNNING", "SUCCEEDED", "FAILED", "CANCELLED"}

(* The states the partial unique index and every query for active cases    *)
(* leave out.                                                              *)
TerminalCaseStates == {"RECOVERED", "ESCALATED", "STOPPED"}

AttemptTransitions ==
    [s \in AttemptState |->
        CASE s = "SCHEDULED" -> {"RUNNING", "CANCELLED"}
          [] s = "RUNNING"   -> {"SUCCEEDED", "FAILED", "AMBIGUOUS"}
          [] s = "AMBIGUOUS" -> {"SUCCEEDED", "FAILED", "RUNNING"}
          [] OTHER           -> {}]

RecoveryCaseTransitions ==
    [s \in RecoveryState |->
        CASE s = "OPEN"             -> {"DECISION_PENDING", "STOPPED"}
          [] s = "DECISION_PENDING" -> {"ACTION_SCHEDULED", "STOPPED", "ESCALATED"}
          [] s = "ACTION_SCHEDULED" -> {"ACTION_EXECUTING", "STOPPED",
                                        "DECISION_PENDING"}
          [] s = "ACTION_EXECUTING" -> {"RECOVERED", "DECISION_PENDING",
                                        "STOPPED", "ESCALATED"}
          [] OTHER                  -> {}]

ValidTransition(current, next, map) == next \in map[current]
=============================================================================
