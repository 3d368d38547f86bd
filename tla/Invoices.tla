------------------------------ MODULE Invoices ------------------------------
(***************************************************************************)
(* Invoices and the payments that settle them.  An invoice is created,     *)
(* voided, paid through its public link or by a merchant's own request for *)
(* a payment, settled by the success of one of its payments and reopened   *)
(* by a reversal.  Only the public link locks the invoice; the merchant's  *)
(* request does not look at it, and every other handler reads it without a *)
(* lock and writes it in a later step, which is how these handlers meet.   *)
(* The payments follow the state machine of PaymentStates, which           *)
(* StkPayments implements.                                                 *)
(***************************************************************************)
EXTENDS PaymentStates, Null

CONSTANTS
    Invoices,   \* the lynxpay_invoices rows
    Payments,   \* payments that may be started for an invoice
    Clerks      \* sessions of the void endpoint

ASSUME NoneAssumption == None \notin Payments /\ None \notin Invoices

VARIABLES
    invoice,    \* status and payment_id of each invoice
    payment,    \* status and invoice_id of each payment
    paying,     \* the invoice locked by the request that creates a payment
    settling,   \* the transaction that settles or reopens, per payment
    voiding,    \* what the void request of a clerk read
    unguarded   \* payments requested by the merchant or retried: no handler
                \* looked at their invoice before it asked the customer

invoiceVars == <<invoice, payment, paying, settling, voiding, unguarded>>

(***************************************************************************)
(* Types.  "draft" and "expired" are statuses no code writes.              *)
(***************************************************************************)
InvoiceStates == {"absent", "sent", "paid", "void"}
InvoiceRows == [status : InvoiceStates, payment : Payments \cup {None}]
PaymentRows == [status : Statuses, invoice : Invoices \cup {None}]

\* "settle" and "reopen": the payment row is locked and the invoice was read.
Settlements ==
    [phase : {"idle", "settle", "reopen"}, saw : InvoiceRows]
Voids == [invoice : Invoices \cup {None}, saw : InvoiceStates]

NewInvoice == [status |-> "absent", payment |-> None]
ReopenedStillPaid == [status |-> "paid", payment |-> None]    \* mutant: only unlinked
Reopened == [status |-> "sent", payment |-> None]
NoSettlement == [phase |-> "idle", saw |-> NewInvoice]
NoVoid == [invoice |-> None, saw |-> "absent"]

InvoiceTypeOK ==
    /\ invoice \in [Invoices -> InvoiceRows]
    /\ payment \in [Payments -> PaymentRows]
    /\ paying \in [Payments -> Invoices \cup {None}]
    /\ settling \in [Payments -> Settlements]
    /\ voiding \in [Clerks -> Voids]
    /\ unguarded \subseteq Payments

InvoiceInit ==
    /\ invoice = [i \in Invoices |-> NewInvoice]
    /\ payment = [p \in Payments |-> [status |-> "absent", invoice |-> None]]
    /\ paying = [p \in Payments |-> None]
    /\ settling = [p \in Payments |-> NoSettlement]
    /\ voiding = [c \in Clerks |-> NoVoid]
    /\ unguarded = {}

PaymentsOf(i) == {p \in Payments : payment[p].invoice = i}

\* The row lock of pay_public_invoice: other writers of the row wait for it.
UnlockedAlways(i) == TRUE                  \* mutant: no with_for_update
Unlocked(i) == \A p \in Payments : paying[p] # i

\* The row lock every handler that moves a payment holds on the payment.
Free(p) == settling[p].phase = "idle"

(***************************************************************************)
(* Creation and void.                                                      *)
(***************************************************************************)
CreateInvoice(i) ==
    /\ invoice[i].status = "absent"
    /\ invoice' = [invoice EXCEPT ![i].status = "sent"]
    /\ UNCHANGED <<payment, paying, settling, voiding, unguarded>>

\* void_invoice reads the row, refuses a paid one, ...
ReadForVoid(c, i) ==
    /\ voiding[c] = NoVoid
    /\ invoice[i].status \in {"sent", "void"}
    /\ voiding' = [voiding EXCEPT ![c] = [invoice |-> i, saw |-> invoice[i].status]]
    /\ UNCHANGED <<invoice, payment, paying, settling, unguarded>>

\* ... and writes the status, unless the row it read was void already.
CommitVoid(c) ==
    LET i == voiding[c].invoice IN
    /\ i # None
    /\ Unlocked(i)
    /\ invoice' = IF voiding[c].saw = "void" THEN invoice
                  ELSE [invoice EXCEPT ![i].status = "void"]
    /\ voiding' = [voiding EXCEPT ![c] = NoVoid]
    /\ UNCHANGED <<payment, paying, settling, unguarded>>

(***************************************************************************)
(* The public payment.  The request locks the invoice, reads its payments  *)
(* and commits a new pending payment.                                      *)
(***************************************************************************)
Blocking == {"created", "pending", "stk_sent", "unknown"}

Payable(i) ==
    /\ invoice[i].status = "sent"
    /\ \A p \in PaymentsOf(i) : payment[p].status \notin Blocking

BeginPay(i, p) ==
    /\ payment[p].status = "absent" /\ paying[p] = None
    /\ Unlocked(i)
    /\ Payable(i)
    /\ paying' = [paying EXCEPT ![p] = i]
    /\ UNCHANGED <<invoice, payment, settling, voiding, unguarded>>

CommitPay(p) ==
    /\ paying[p] # None
    /\ payment' = [payment EXCEPT ![p] = [status |-> "pending", invoice |-> paying[p]]]
    /\ paying' = [paying EXCEPT ![p] = None]
    /\ UNCHANGED <<invoice, settling, voiding, unguarded>>

(***************************************************************************)
(* create_stk_push stores whatever invoice_id the merchant sends, with no  *)
(* lock and no look at the invoice or at its other payments.  There is no  *)
(* foreign key either; an id the server never generated names no invoice,  *)
(* so only those of existing invoices matter here.                         *)
(***************************************************************************)
CreateByMerchant(i, p) ==
    /\ invoice[i].status # "absent"
    /\ payment[p].status = "absent" /\ paying[p] = None
    /\ payment' = [payment EXCEPT ![p] = [status |-> "pending", invoice |-> i]]
    /\ unguarded' = unguarded \cup {p}
    /\ UNCHANGED <<invoice, paying, settling, voiding>>

(***************************************************************************)
(* The payment's own steps: those that do not touch the invoice, retries,  *)
(* which look at no invoice, and the two that do.                          *)
(***************************************************************************)
Move(p, t) ==
    /\ Free(p)
    /\ t \in Allowed[payment[p].status] \ {"success", "reversed"}
    /\ payment' = [payment EXCEPT ![p].status = t]
    /\ UNCHANGED <<invoice, paying, settling, voiding, unguarded>>

Retry(p) ==
    /\ Free(p)
    /\ payment[p].status \in RetryableStates
    /\ payment' = [payment EXCEPT ![p].status = "pending"]
    /\ unguarded' = unguarded \cup {p}
    /\ UNCHANGED <<invoice, paying, settling, voiding>>

\* transition_and_record to "success" or "reversed" reads the invoice ...
ReadForTransition(p, phase, t) ==
    /\ Free(p)
    /\ t \in Allowed[payment[p].status]
    /\ settling' = [settling EXCEPT ![p] =
                        [phase |-> phase, saw |-> invoice[payment[p].invoice]]]
    /\ UNCHANGED <<invoice, payment, paying, voiding, unguarded>>

BeginSettle(p) == ReadForTransition(p, "settle", "success")
BeginReopen(p) == ReadForTransition(p, "reopen", "reversed")

\* mutant: the success of a payment that was unknown before is left out
SettlesSent(saw, s) == saw.status # "paid" /\ s = "stk_sent"
Settles(saw, s) == saw.status # "paid"

Reopens(saw, p) == saw.payment = p

\* ... and commits the payment and, by what it read, the invoice.
CommitSettle(p) ==
    LET i == payment[p].invoice
        writes == Settles(settling[p].saw, payment[p].status)
    IN  /\ settling[p].phase = "settle"
        /\ writes => Unlocked(i)
        /\ payment' = [payment EXCEPT ![p].status = "success"]
        /\ invoice' = IF writes
                      THEN [invoice EXCEPT ![i] = [status |-> "paid", payment |-> p]]
                      ELSE invoice
        /\ settling' = [settling EXCEPT ![p] = NoSettlement]
        /\ UNCHANGED <<paying, voiding, unguarded>>

CommitReopen(p) ==
    LET i == payment[p].invoice
        writes == Reopens(settling[p].saw, p)
    IN  /\ settling[p].phase = "reopen"
        /\ writes => Unlocked(i)
        /\ payment' = [payment EXCEPT ![p].status = "reversed"]
        /\ invoice' = IF writes
                      THEN [invoice EXCEPT ![i] = Reopened]
                      ELSE invoice
        /\ settling' = [settling EXCEPT ![p] = NoSettlement]
        /\ UNCHANGED <<paying, voiding, unguarded>>

\* A refused commit (a reused receipt) or a crash rolls both rows back.
RollBack(p) ==
    /\ ~Free(p)
    /\ settling' = [settling EXCEPT ![p] = NoSettlement]
    /\ UNCHANGED <<invoice, payment, paying, voiding, unguarded>>

InvoiceNext ==
    \/ \E i \in Invoices : CreateInvoice(i)
    \/ \E c \in Clerks, i \in Invoices : ReadForVoid(c, i)
    \/ \E c \in Clerks : CommitVoid(c)
    \/ \E i \in Invoices, p \in Payments : BeginPay(i, p) \/ CreateByMerchant(i, p)
    \/ \E p \in Payments :
        \/ CommitPay(p)
        \/ \E t \in Statuses : Move(p, t)
        \/ Retry(p)
        \/ BeginSettle(p) \/ CommitSettle(p)
        \/ BeginReopen(p) \/ CommitReopen(p)
        \/ RollBack(p)

InvoiceSpec == InvoiceInit /\ [][InvoiceNext]_invoiceVars

-----------------------------------------------------------------------------
(***************************************************************************)
(* Properties.                                                             *)
(***************************************************************************)

\* A paid invoice names a payment of its own that stands successful, although
\* settlements, reversals and voids all write the row by an older copy of it.
PaidIsBacked ==
    \A i \in Invoices :
        invoice[i].status = "paid" =>
            /\ invoice[i].payment \in PaymentsOf(i)
            /\ payment[invoice[i].payment].status = "success"

Standing == Blocking \cup {"success"}

\* The public link never asks a customer for the same money twice: when two
\* payments of one invoice are under way or successful at the same time, one
\* of the two was requested by the merchant or retried, or the reversal of
\* such a payment opened the invoice again beside a successful one.
LinkAsksOnce ==
    \A i \in Invoices : \A p, q \in PaymentsOf(i) :
        (p # q /\ payment[p].status \in Standing /\ payment[q].status \in Standing)
            => \/ p \in unguarded \/ q \in unguarded
               \/ \E r \in PaymentsOf(i) \cap unguarded : payment[r].status = "reversed"

\* While a payment of an invoice stands successful the invoice is not open
\* for payment again, unless another one was reversed, and this one or the
\* reversed one was requested by the merchant or retried.
SuccessClosesInvoice ==
    \A i \in Invoices : \A p \in PaymentsOf(i) :
        payment[p].status = "success" =>
            \/ invoice[i].status \in {"paid", "void"}
            \/ \E q \in PaymentsOf(i) :
                  payment[q].status = "reversed" /\ {p, q} \cap unguarded # {}

\* What the void endpoint says of itself ("Paid invoices cannot be voided"):
\* an invoice that was paid never becomes void.
PaidIsNotVoided ==
    [][\A i \in Invoices :
        invoice[i].status = "paid" => invoice'[i].status # "void"]_invoiceVars

=============================================================================
