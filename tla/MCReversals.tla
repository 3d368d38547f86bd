---------------------------- MODULE MCReversals ----------------------------
(***************************************************************************)
(* Reversals for TLC: every reversal is for the same payment.              *)
(***************************************************************************)
EXTENDS Reversals

OnePayment == [r \in Reversals |-> CHOOSE p \in Payments : TRUE]

=============================================================================
