--------------------------- MODULE PaymentGateway ---------------------------
(***************************************************************************)
(* The payment gateway of app/integrations/payment_gateway/mock_client.py: *)
(* an idempotent store of results.  The key of an attempt is built from    *)
(* the payment's external id and the attempt number                        *)
(* (execution_service.py:211), so it is the pair <<p, n>> here.  The       *)
(* lookup and the store happen under one lock: charge is one step.  The    *)
(* mock keeps the store in a class variable of its process; here it is     *)
(* what it stands for, the store of the remote side, one for all workers   *)
(* and untouched by their crashes.                                         *)
(***************************************************************************)
EXTENDS RecoveryDatabase

VARIABLE store    \* the stored result by payment and attempt number

GatewayResult == {"succeeded", "failed"}

GatewayTypeOK ==
    store \in [PaymentIds -> [AttemptNos -> GatewayResult \cup {"none"}]]

GatewayInit == store = [p \in PaymentIds |-> [n \in AttemptNos |-> "none"]]

(* Mutated: an unknown key is reported as a success. *)
VerifyReportsSuccess(p, n) ==
    IF store[p][n] = "none" THEN "succeeded" ELSE store[p][n]

(* Mutated: an unknown key is reported as a failure. *)
VerifyReportsFailure(p, n) ==
    IF store[p][n] = "none" THEN "failed" ELSE store[p][n]

VerifyPaymentStatus(p, n) ==
    IF store[p][n] = "none" THEN "not_found" ELSE store[p][n]

(* A key seen before is answered from the store.  A new one is decided by  *)
(* the remote side, or times out: the request was dropped, or it went      *)
(* through and only the answer was lost.                                   *)
ChargeAnswer(p, n, reply) ==
    \/ /\ store[p][n] # "none"
       /\ reply = store[p][n]
       /\ UNCHANGED store
    \/ /\ store[p][n] = "none"
       /\ reply \in GatewayResult
       /\ store' = [store EXCEPT ![p][n] = reply]
    \/ /\ store[p][n] = "none"
       /\ reply = "timeout"
       /\ \/ UNCHANGED store
          \/ store' = [store EXCEPT ![p][n] = "succeeded"]
=============================================================================
