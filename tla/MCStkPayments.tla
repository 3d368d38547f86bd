--------------------------- MODULE MCStkPayments ---------------------------
(***************************************************************************)
(* StkPayments for TLC.  The sessions of the two worker kinds are model    *)
(* values; the sets are symmetric for the safety runs.                     *)
(***************************************************************************)
EXTENDS StkPayments, TLC

PaymentSymmetry == Permutations(Payments)

=============================================================================
