-------------------------- MODULE PaymentLifecycle --------------------------
(***************************************************************************)
(* What the gateway promises of one payment, whatever happens around it:   *)
(* its status only ever takes a step of the state machine, an explicit     *)
(* retry is the only way back to pending, and a success is final except    *)
(* for a reversal.  StkPayments implements this module.                    *)
(***************************************************************************)
EXTENDS PaymentStates

CONSTANT Payments

VARIABLE status

TypeOK == status \in [Payments -> Statuses]

Init == status = [p \in Payments |-> "absent"]

\* A request creates the row and takes it to pending in one transaction.
Open(p) ==
    /\ status[p] = "absent"
    /\ status' = [status EXCEPT ![p] = "pending"]

\* transition_payment
Advance(p, t) ==
    /\ t \in Allowed[status[p]]
    /\ status' = [status EXCEPT ![p] = t]

\* begin_payment_retry
BeginRetry(p) ==
    /\ status[p] \in RetryableStates
    /\ status' = [status EXCEPT ![p] = "pending"]

Next ==
    \E p \in Payments :
        \/ Open(p)
        \/ \E t \in Statuses : Advance(p, t)
        \/ BeginRetry(p)

Spec == Init /\ [][Next]_status

\* A payment that succeeded stays successful or is reversed, and a reversed
\* one never changes again.
SuccessIsFinal ==
    [][\A p \in Payments :
        /\ status[p] = "success" => status'[p] \in {"success", "reversed"}
        /\ status[p] = "reversed" => status'[p] = "reversed"]_status

=============================================================================
