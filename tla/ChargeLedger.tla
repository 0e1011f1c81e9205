---------------------------- MODULE ChargeLedger ----------------------------
(***************************************************************************)
(* What the engine promises about money: the outcomes of the attempts of a *)
(* payment are settled once each and in order, and no attempt is settled   *)
(* until all earlier ones have failed.  Nothing else ever happens to the   *)
(* ledger: an outcome is never changed, withdrawn or skipped.              *)
(***************************************************************************)
EXTENDS Integers

CONSTANTS PaymentIds, MaxAttempts

VARIABLE ledger    \* the outcome by payment and attempt number

AttemptNos == 1 .. MaxAttempts + 1

LedgerInit == ledger = [p \in PaymentIds |-> [n \in AttemptNos |-> "none"]]

Settle(p, n, outcome) ==
    /\ ledger[p][n] = "none"
    /\ \A m \in 1 .. n - 1 : ledger[p][m] = "failed"
    /\ ledger' = [ledger EXCEPT ![p][n] = outcome]

LedgerNext == \E p \in PaymentIds, n \in 1 .. MaxAttempts :
                 \E outcome \in {"succeeded", "failed"} : Settle(p, n, outcome)

LedgerSpec == LedgerInit /\ [][LedgerNext]_ledger
=============================================================================
