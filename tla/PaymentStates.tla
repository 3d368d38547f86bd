--------------------------- MODULE PaymentStates ---------------------------
(***************************************************************************)
(* The pure part of the payment core: the explicit state machine of        *)
(* app/state_machine.py and the classification of Daraja result codes of   *)
(* app/provider_codes.py.  A result code is represented by the class the   *)
(* code table puts it in; code "0" is split, because what the gateway does *)
(* with it depends on the evidence the callback carries.                   *)
(***************************************************************************)

\* "absent" stands for a payment whose row does not exist yet.
Statuses == {"absent", "created", "pending", "stk_sent", "success", "failed",
             "timeout", "unknown", "reversed"}

Allowed ==
    [s \in Statuses |->
        CASE s = "created"  -> {"pending"}
          [] s = "pending"  -> {"stk_sent", "failed", "unknown"}
          [] s = "stk_sent" -> {"success", "failed", "timeout", "unknown"}
          [] s = "unknown"  -> {"success", "failed"}
          [] s = "success"  -> {"reversed"}
          [] OTHER          -> {}]

\* ensure_transition: naming the present state again is accepted.
MayMoveAnywhere(s, t) == t \in Statuses     \* mutant: the check is not called
MayMove(s, t) == t = s \/ t \in Allowed[s]

RetryableStates == {"failed", "timeout", "unknown"}

\* The states in which a payment waits for an answer of the provider.
Unsettled == {"stk_sent", "unknown"}

(***************************************************************************)
(* Result-code classes: "success" is code 0 with a receipt and matching    *)
(* amount and phone, "unverified" is code 0 whose evidence does not verify *)
(* (no receipt), "reused" is code 0 with the receipt of another payment,   *)
(* and the other three are the targets of KNOWN_RESULTS.                   *)
(***************************************************************************)
FailureCodes == {"failed", "timeout", "unknown"}
SuccessCodes == {"success", "unverified", "reused"}
Codes == SuccessCodes \cup FailureCodes

\* Where a failure code takes a payment in state s: an unknown payment has no
\* transition to timeout, so both handlers turn a timeout into a failure.
FailureTarget(s, code) == IF s = "unknown" /\ code = "timeout" THEN "failed" ELSE code

=============================================================================
