--------------------------- MODULE InvoicesProofs ---------------------------
(***************************************************************************)
(* Theorems about Invoices, for any number of invoices, payments and       *)
(* clerks.  Rows are written by an older copy of them, so the argument is  *)
(* about what that copy still tells: the payment lock keeps a payment in   *)
(* its state between the read and the write, the invoice lock keeps other  *)
(* payments of the link out, and what merchants and retries let through is *)
(* remembered in "unguarded".                                              *)
(***************************************************************************)
EXTENDS Invoices, TLAPS

\* The exception of LinkAsksOnce and that of SuccessClosesInvoice.
Excused(i) == \E r \in PaymentsOf(i) \cap unguarded : payment[r].status = "reversed"
ReversedBeside(i, p) ==
    \E q \in PaymentsOf(i) : payment[q].status = "reversed" /\ {p, q} \cap unguarded # {}

\* A payment has an invoice once it exists, and a transaction that locked it
\* finds it in the state it was read in.
PaymentRowInv ==
    \A p \in Payments :
        /\ payment[p].status = "absent" <=> payment[p].invoice = None
        /\ paying[p] # None => payment[p].status = "absent"
        /\ settling[p].phase = "settle" => payment[p].status \in {"stk_sent", "unknown"}
        /\ settling[p].phase = "reopen" => payment[p].status = "success"

\* The payment an invoice names is its own and successful, and a reversal of
\* this payment has read so.
BackInv ==
    /\ \A i \in Invoices : invoice[i].status = "paid" => invoice[i].payment # None
    /\ \A i \in Invoices, p \in Payments : invoice[i].payment = p =>
          /\ payment[p].invoice = i
          /\ payment[p].status = "success"
          /\ settling[p].phase = "reopen" => settling[p].saw.payment = p

\* The invoice lock: one request of the link at a time creates a payment for
\* an invoice, and but for unguarded payments it still finds what it has read.
InvoiceLockInv ==
    /\ \A p, q \in Payments : paying[p] = paying[q] /\ paying[p] # None => p = q
    /\ \A p, q \in Payments : paying[p] # None /\ payment[q].invoice = paying[p] =>
          Excused(paying[p]) \/ q \in unguarded \/ payment[q].status \notin Standing

\* A settlement that found the invoice paid may leave it alone: it is still
\* closed, or what reopened it since is the exception.
SettleInv ==
    \A p \in Payments : settling[p].phase = "settle" /\ settling[p].saw.status = "paid" =>
        \/ invoice[payment[p].invoice].status \in {"paid", "void"}
        \/ ReversedBeside(payment[p].invoice, p)

InvoiceIInv ==
    /\ InvoiceTypeOK
    /\ PaymentRowInv
    /\ BackInv
    /\ InvoiceLockInv
    /\ SettleInv
    /\ LinkAsksOnce
    /\ SuccessClosesInvoice

(***************************************************************************)
(* Types.                                                                  *)
(***************************************************************************)
LEMMA Shapes ==
    /\ NewInvoice \in InvoiceRows /\ Reopened \in InvoiceRows
    /\ NoSettlement \in Settlements /\ NoVoid \in Voids
    /\ Blocking \subseteq Statuses /\ Standing \subseteq Statuses
    /\ NoSettlement.phase = "idle"
    /\ Reopened.status = "sent" /\ Reopened.payment = None
BY DEF NewInvoice, Reopened, InvoiceRows, InvoiceStates, NoSettlement, Settlements, NoVoid, Voids,
   Blocking, Standing, Statuses

LEMMA StatusType ==
    ASSUME NEW row \in PaymentRows, NEW s \in Statuses
    PROVE  /\ [row EXCEPT !.status = s] \in PaymentRows
           /\ [row EXCEPT !.status = s].status = s
           /\ [row EXCEPT !.status = s].invoice = row.invoice
BY DEF PaymentRows

LEMMA InvoiceStatusType ==
    ASSUME NEW row \in InvoiceRows, NEW s \in InvoiceStates
    PROVE  /\ [row EXCEPT !.status = s] \in InvoiceRows
           /\ [row EXCEPT !.status = s].status = s
           /\ [row EXCEPT !.status = s].payment = row.payment
BY DEF InvoiceRows

LEMMA AllowedType == \A s \in Statuses : Allowed[s] \subseteq Statuses
BY DEF Allowed, Statuses

\* Only a payment under way can succeed, and only a successful one be reversed.
LEMMA Settling ==
    \A s \in Statuses : /\ "success" \in Allowed[s] => s \in {"stk_sent", "unknown"}
                        /\ "reversed" \in Allowed[s] => s = "success"
                        /\ \A t \in Allowed[s] : s \in Blocking \cup {"success"} /\ t # "absent"
                        /\ s = "success" => Allowed[s] = {"reversed"}
BY DEF Allowed, Statuses, Blocking

LEMMA TypeInit == InvoiceInit => InvoiceTypeOK
BY Shapes DEF InvoiceInit, InvoiceTypeOK, PaymentRows, Statuses

\* The payment that a settlement or a reversal reads has a row and an invoice.
LEMMA Begins ==
    ASSUME InvoiceTypeOK, PaymentRowInv, NEW p \in Payments, Free(p)
    PROVE  /\ "success" \in Allowed[payment[p].status] =>
                 payment[p].status \in {"stk_sent", "unknown"} /\ payment[p].invoice \in Invoices
           /\ "reversed" \in Allowed[payment[p].status] =>
                 payment[p].status = "success" /\ payment[p].invoice \in Invoices
<1>1. payment[p] \in PaymentRows
  BY DEF InvoiceTypeOK
<1>2. payment[p].status \in Statuses /\ payment[p].invoice \in Invoices \cup {None}
  BY <1>1 DEF PaymentRows
<1>3. payment[p].status # "absent" => payment[p].invoice # None
  BY DEF PaymentRowInv
<1>4. PICK s \in Statuses : payment[p].status = s
  BY <1>2
<1>5. /\ "success" \in Allowed[s] => s \in {"stk_sent", "unknown"}
      /\ "reversed" \in Allowed[s] => s = "success"
  BY <1>4, Settling
<1> QED
  BY <1>2, <1>3, <1>4, <1>5

LEMMA InvoiceTypeStep == ASSUME InvoiceTypeOK, PaymentRowInv, [InvoiceNext]_invoiceVars PROVE InvoiceTypeOK'
<1> USE DEF InvoiceTypeOK
<1>1. CASE UNCHANGED invoiceVars
  BY <1>1 DEF invoiceVars
<1>2. ASSUME NEW i \in Invoices, CreateInvoice(i) PROVE InvoiceTypeOK'
  BY <1>2, InvoiceStatusType DEF CreateInvoice, InvoiceStates
<1>3. ASSUME NEW c \in Clerks, NEW i \in Invoices, ReadForVoid(c, i) PROVE InvoiceTypeOK'
  <2>1. [invoice |-> i, saw |-> invoice[i].status] \in Voids
    BY DEF Voids, InvoiceRows
  <2> QED
    BY <1>3, <2>1 DEF ReadForVoid
<1>4. ASSUME NEW c \in Clerks, CommitVoid(c) PROVE InvoiceTypeOK'
  <2>1. voiding[c].invoice \in Invoices
    BY <1>4 DEF CommitVoid, Voids
  <2>2. invoice' \in [Invoices -> InvoiceRows]
    BY <1>4, <2>1, InvoiceStatusType DEF CommitVoid, InvoiceStates
  <2> QED
    BY <1>4, <2>2, Shapes DEF CommitVoid
<1>5. ASSUME NEW i \in Invoices, NEW p \in Payments, BeginPay(i, p) PROVE InvoiceTypeOK'
  BY <1>5 DEF BeginPay
<1>6. ASSUME NEW p \in Payments, CommitPay(p) PROVE InvoiceTypeOK'
  <2>1. [status |-> "pending", invoice |-> paying[p]] \in PaymentRows
    BY DEF PaymentRows, Statuses
  <2> QED
    BY <1>6, <2>1 DEF CommitPay
<1>7. ASSUME NEW p \in Payments, NEW t \in Statuses, Move(p, t) PROVE InvoiceTypeOK'
  BY <1>7, StatusType DEF Move
<1>8. ASSUME NEW p \in Payments, Retry(p) PROVE InvoiceTypeOK'
  BY <1>8, StatusType DEF Retry, Statuses
<1>9. ASSUME NEW p \in Payments, BeginSettle(p) \/ BeginReopen(p) PROVE InvoiceTypeOK'
  <2>1. payment[p].invoice \in Invoices
    BY <1>9, Begins DEF BeginSettle, BeginReopen, ReadForTransition
  <2>2. /\ [phase |-> "settle", saw |-> invoice[payment[p].invoice]] \in Settlements
        /\ [phase |-> "reopen", saw |-> invoice[payment[p].invoice]] \in Settlements
    BY <2>1 DEF Settlements
  <2> QED
    BY <1>9, <2>2 DEF BeginSettle, BeginReopen, ReadForTransition
<1>10. ASSUME NEW p \in Payments, CommitSettle(p) PROVE InvoiceTypeOK'
  <2>1. [status |-> "paid", payment |-> p] \in InvoiceRows
    BY DEF InvoiceRows, InvoiceStates
  <2> QED
    BY <1>10, <2>1, StatusType, Shapes DEF CommitSettle, Statuses
<1>11. ASSUME NEW p \in Payments, CommitReopen(p) PROVE InvoiceTypeOK'
  BY <1>11, StatusType, Shapes DEF CommitReopen, Statuses
<1>12. ASSUME NEW p \in Payments, RollBack(p) PROVE InvoiceTypeOK'
  BY <1>12, Shapes DEF RollBack
<1>13. ASSUME NEW i \in Invoices, NEW p \in Payments, CreateByMerchant(i, p) PROVE InvoiceTypeOK'
  <2>1. [status |-> "pending", invoice |-> i] \in PaymentRows
    BY DEF PaymentRows, Statuses
  <2> QED
    BY <1>13, <2>1 DEF CreateByMerchant
<1> QED
  BY <1>1, <1>2, <1>3, <1>4, <1>5, <1>6, <1>7, <1>8, <1>9, <1>10, <1>11, <1>12, <1>13
  DEF InvoiceNext

(***************************************************************************)
(* What only grows: the payments of an invoice, the unguarded ones and the *)
(* reversed ones among them.                                               *)
(***************************************************************************)
\* A payment keeps its invoice and a reversed payment stays reversed.
RowGrows(q) ==
    /\ payment[q].invoice # None => payment'[q].invoice = payment[q].invoice
    /\ payment[q].status = "reversed" => payment'[q].status = "reversed"

LEMMA RowsGrow ==
    ASSUME InvoiceTypeOK, PaymentRowInv, [InvoiceNext]_invoiceVars
    PROVE  unguarded \subseteq unguarded' /\ \A q \in Payments : RowGrows(q)
<1> USE DEF InvoiceTypeOK
<1>1. CASE UNCHANGED <<payment, unguarded>>
  BY <1>1 DEF RowGrows
<1>2. ASSUME NEW p \in Payments, CommitPay(p)
      PROVE  unguarded \subseteq unguarded' /\ \A q \in Payments : RowGrows(q)
  BY <1>2 DEF CommitPay, RowGrows, PaymentRowInv
<1>3. ASSUME NEW p \in Payments, NEW t \in Statuses, Move(p, t)
      PROVE  unguarded \subseteq unguarded' /\ \A q \in Payments : RowGrows(q)
  <2>1. payment[p] \in PaymentRows /\ payment[p].status \in Statuses
    BY DEF PaymentRows
  <2>2. payment[p].status # "reversed"
    BY <1>3, <2>1, Settling DEF Move, Blocking
  <2> QED
    BY <1>3, <2>1, <2>2, StatusType DEF Move, RowGrows
<1>4. ASSUME NEW p \in Payments, Retry(p)
      PROVE  unguarded \subseteq unguarded' /\ \A q \in Payments : RowGrows(q)
  <2>1. payment[p].status # "reversed"
    BY <1>4 DEF Retry, RetryableStates
  <2>2. "pending" \in Statuses /\ payment[p] \in PaymentRows
    BY DEF Statuses
  <2> QED
    BY <1>4, <2>1, <2>2, StatusType DEF Retry, RowGrows
<1>5. ASSUME NEW p \in Payments, NEW t \in {"success", "reversed"},
             payment' = [payment EXCEPT ![p].status = t], unguarded' = unguarded,
             payment[p].status # "reversed"
      PROVE  unguarded \subseteq unguarded' /\ \A q \in Payments : RowGrows(q)
  <2>1. t \in Statuses /\ payment[p] \in PaymentRows
    BY DEF Statuses
  <2> QED
    BY <1>5, <2>1, StatusType DEF RowGrows
<1>6. ASSUME NEW p \in Payments, CommitSettle(p)
      PROVE  unguarded \subseteq unguarded' /\ \A q \in Payments : RowGrows(q)
  BY <1>5, <1>6 DEF CommitSettle, PaymentRowInv
<1>7. ASSUME NEW p \in Payments, CommitReopen(p)
      PROVE  unguarded \subseteq unguarded' /\ \A q \in Payments : RowGrows(q)
  BY <1>5, <1>7 DEF CommitReopen, PaymentRowInv
<1>8. ASSUME NEW i \in Invoices, NEW p \in Payments, CreateByMerchant(i, p)
      PROVE  unguarded \subseteq unguarded' /\ \A q \in Payments : RowGrows(q)
  BY <1>8 DEF CreateByMerchant, RowGrows, PaymentRowInv
<1> QED
  BY <1>1, <1>2, <1>3, <1>4, <1>6, <1>7, <1>8
  DEF InvoiceNext, invoiceVars, CreateInvoice, ReadForVoid, CommitVoid, BeginPay, BeginSettle,
      BeginReopen, ReadForTransition, RollBack

\* So neither exception is ever forgotten.
LEMMA NeverForgotten ==
    ASSUME InvoiceTypeOK, PaymentRowInv, [InvoiceNext]_invoiceVars, NEW i \in Invoices
    PROVE  /\ PaymentsOf(i) \subseteq PaymentsOf(i)'
           /\ Excused(i) => Excused(i)'
           /\ \A p \in Payments : ReversedBeside(i, p) => ReversedBeside(i, p)'
<1>1. PaymentsOf(i) \subseteq PaymentsOf(i)'
  BY RowsGrow, NoneAssumption DEF RowGrows, PaymentsOf
<1>2. Excused(i) => Excused(i)'
  BY <1>1, RowsGrow DEF Excused, RowGrows, PaymentsOf
<1>3. \A p \in Payments : ReversedBeside(i, p) => ReversedBeside(i, p)'
  BY <1>1, RowsGrow DEF ReversedBeside, RowGrows, PaymentsOf
<1> QED
  BY <1>1, <1>2, <1>3

(***************************************************************************)
(* What a payment's own row goes through.                                  *)
(***************************************************************************)
\* A payment that starts to stand was just created by the link or is one that
\* nobody guarded; success comes from a settlement.
Rows(q) ==
    \/ payment'[q] = payment[q]
    \/ CommitPay(q) /\ payment'[q] = [status |-> "pending", invoice |-> paying[q]]
    \/ /\ payment[q].status = "absent" /\ paying[q] = None /\ q \in unguarded'
       /\ \E i \in Invoices : payment'[q] = [status |-> "pending", invoice |-> i]
    \/ /\ payment'[q].invoice = payment[q].invoice
       /\ payment[q].status # "absent" /\ payment'[q].status # "absent"
       /\ payment'[q].status = "success" => CommitSettle(q)
       /\ payment'[q].status = "reversed" => CommitReopen(q)
       /\ payment[q].status = "success" => CommitReopen(q)
       /\ payment[q].status \in Standing \/ q \in unguarded'
       /\ settling'[q].phase = "idle"

LEMMA RowChange ==
    ASSUME InvoiceTypeOK, PaymentRowInv, [InvoiceNext]_invoiceVars, NEW q \in Payments
    PROVE  Rows(q)
<1> USE DEF InvoiceTypeOK
<1>1. CASE payment'[q] = payment[q]
  BY <1>1 DEF Rows
<1>2. ASSUME NEW p \in Payments, CommitPay(p) PROVE Rows(q)
  BY <1>2 DEF CommitPay, Rows
<1>3. ASSUME NEW p \in Payments, NEW t \in Statuses, Move(p, t) PROVE Rows(q)
  <2>1. CASE p # q
    BY <1>3, <2>1 DEF Move, Rows
  <2>2. CASE p = q
    <3>1. payment[p] \in PaymentRows /\ payment[p].status \in Statuses
      BY DEF PaymentRows
    <3>2. /\ payment[p].status \in Blocking
          /\ t # "absent" /\ t # "success" /\ t # "reversed"
      BY <1>3, <3>1, Settling DEF Move
    <3>3. payment'[q].status = t /\ payment'[q].invoice = payment[q].invoice
      BY <1>3, <2>2, <3>1, StatusType DEF Move
    <3>4. settling'[q].phase = "idle"
      BY <1>3, <2>2 DEF Move, Free
    <3> QED
      BY <2>2, <3>2, <3>3, <3>4 DEF Rows, Standing, Blocking
  <2> QED
    BY <2>1, <2>2
<1>4. ASSUME NEW p \in Payments, Retry(p) PROVE Rows(q)
  <2>1. CASE p # q
    BY <1>4, <2>1 DEF Retry, Rows
  <2>2. CASE p = q
    <3>1. "pending" \in Statuses /\ payment[p] \in PaymentRows
      BY DEF Statuses
    <3>2. payment'[q].status = "pending" /\ payment'[q].invoice = payment[q].invoice
      BY <1>4, <2>2, <3>1, StatusType DEF Retry
    <3> QED
      BY <1>4, <2>2, <3>2 DEF Rows, Retry, RetryableStates, Free
  <2> QED
    BY <2>1, <2>2
<1>5. ASSUME NEW p \in Payments, CommitSettle(p) PROVE Rows(q)
  <2>1. CASE p # q
    BY <1>5, <2>1 DEF CommitSettle, Rows
  <2>2. CASE p = q
    <3>1. "success" \in Statuses /\ payment[p] \in PaymentRows
      BY DEF Statuses
    <3>2. payment'[q].status = "success" /\ payment'[q].invoice = payment[q].invoice
      BY <1>5, <2>2, <3>1, StatusType DEF CommitSettle
    <3>3. payment[q].status \in {"stk_sent", "unknown"}
      BY <1>5, <2>2 DEF CommitSettle, PaymentRowInv
    <3>4. settling'[q].phase = "idle"
      BY <1>5, <2>2, Shapes DEF CommitSettle
    <3> QED
      BY <1>5, <2>2, <3>2, <3>3, <3>4 DEF Rows, Standing, Blocking
  <2> QED
    BY <2>1, <2>2
<1>6. ASSUME NEW p \in Payments, CommitReopen(p) PROVE Rows(q)
  <2>1. CASE p # q
    BY <1>6, <2>1 DEF CommitReopen, Rows
  <2>2. CASE p = q
    <3>1. "reversed" \in Statuses /\ payment[p] \in PaymentRows
      BY DEF Statuses
    <3>2. payment'[q].status = "reversed" /\ payment'[q].invoice = payment[q].invoice
      BY <1>6, <2>2, <3>1, StatusType DEF CommitReopen
    <3>3. payment[q].status = "success"
      BY <1>6, <2>2 DEF CommitReopen, PaymentRowInv
    <3>4. settling'[q].phase = "idle"
      BY <1>6, <2>2, Shapes DEF CommitReopen
    <3> QED
      BY <1>6, <2>2, <3>2, <3>3, <3>4 DEF Rows, Standing, Blocking
  <2> QED
    BY <2>1, <2>2
<1>7. ASSUME NEW i \in Invoices, NEW p \in Payments, CreateByMerchant(i, p) PROVE Rows(q)
  BY <1>7 DEF CreateByMerchant, Rows
<1> QED
  BY <1>1, <1>2, <1>3, <1>4, <1>5, <1>6, <1>7
  DEF InvoiceNext, invoiceVars, CreateInvoice, ReadForVoid, CommitVoid, BeginPay, BeginSettle,
      BeginReopen, ReadForTransition, RollBack

(***************************************************************************)
(* What happens to the two locks and to the invoice.                       *)
(***************************************************************************)
PayLock(q) ==
    \/ paying'[q] = paying[q] /\ ~CommitPay(q)
    \/ paying'[q] = None
    \/ \E i \in Invoices : BeginPay(i, q) /\ paying'[q] = i

LEMMA PayLockChange ==
    ASSUME InvoiceTypeOK, [InvoiceNext]_invoiceVars, NEW q \in Payments
    PROVE  PayLock(q)
<1>1. CASE CommitPay(q)
  BY <1>1 DEF CommitPay, InvoiceTypeOK, PayLock
<1>2. CASE paying' = paying /\ ~CommitPay(q)
  BY <1>2 DEF PayLock
<1>3. ASSUME NEW i \in Invoices, NEW p \in Payments, BeginPay(i, p), ~CommitPay(q) PROVE PayLock(q)
  BY <1>3 DEF BeginPay, InvoiceTypeOK, PayLock
<1>4. ASSUME NEW p \in Payments, CommitPay(p), p # q, ~CommitPay(q) PROVE PayLock(q)
  BY <1>4 DEF CommitPay, InvoiceTypeOK, PayLock
<1> QED
  BY <1>1, <1>2, <1>3, <1>4
  DEF InvoiceNext, invoiceVars, CreateInvoice, ReadForVoid, CommitVoid, CreateByMerchant, Move,
      Retry, BeginSettle, BeginReopen, ReadForTransition, CommitSettle, CommitReopen, RollBack

Transaction(q) ==
    \/ settling'[q] = settling[q]
    \/ settling'[q].phase = "idle"
    \/ BeginSettle(q) /\ settling'[q] = [phase |-> "settle", saw |-> invoice[payment[q].invoice]]
    \/ BeginReopen(q) /\ settling'[q] = [phase |-> "reopen", saw |-> invoice[payment[q].invoice]]

LEMMA TransactionChange ==
    ASSUME InvoiceTypeOK, [InvoiceNext]_invoiceVars, NEW q \in Payments
    PROVE  Transaction(q)
<1> USE DEF InvoiceTypeOK
<1>1. CASE settling' = settling
  BY <1>1 DEF Transaction
<1>2. ASSUME NEW p \in Payments, BeginSettle(p) PROVE Transaction(q)
  BY <1>2 DEF BeginSettle, ReadForTransition, Transaction
<1>3. ASSUME NEW p \in Payments, BeginReopen(p) PROVE Transaction(q)
  BY <1>3 DEF BeginReopen, ReadForTransition, Transaction
<1>4. ASSUME NEW p \in Payments, CommitSettle(p) \/ CommitReopen(p) \/ RollBack(p)
      PROVE  Transaction(q)
  <2>1. settling' = [settling EXCEPT ![p] = NoSettlement]
    BY <1>4 DEF CommitSettle, CommitReopen, RollBack
  <2> QED
    BY <2>1, Shapes DEF Transaction
<1> QED
  BY <1>1, <1>2, <1>3, <1>4
  DEF InvoiceNext, invoiceVars, CreateInvoice, ReadForVoid, CommitVoid, BeginPay, CommitPay,
      CreateByMerchant, Move, Retry

InvoiceRow(i) ==
    \/ invoice'[i] = invoice[i]
    \/ /\ invoice'[i].payment = invoice[i].payment
       /\ \/ invoice'[i].status = "void"
          \/ invoice'[i].status = "sent" /\ invoice[i].status = "absent"
    \/ \E p \in Payments :
          /\ CommitSettle(p) /\ payment[p].invoice = i
          /\ invoice'[i].status = "paid" /\ invoice'[i].payment = p
    \/ \E p \in Payments :
          /\ CommitReopen(p) /\ payment[p].invoice = i
          /\ invoice'[i].status = "sent" /\ invoice'[i].payment = None

LEMMA InvoiceChange ==
    ASSUME InvoiceTypeOK, [InvoiceNext]_invoiceVars, NEW i \in Invoices
    PROVE  InvoiceRow(i)
<1> USE DEF InvoiceTypeOK
<1>1. CASE invoice' = invoice
  BY <1>1 DEF InvoiceRow
<1>2. ASSUME NEW j \in Invoices, CreateInvoice(j) PROVE InvoiceRow(i)
  <2>1. "sent" \in InvoiceStates /\ invoice[j] \in InvoiceRows
    BY DEF InvoiceStates
  <2> QED
    BY <1>2, <2>1, InvoiceStatusType DEF CreateInvoice, InvoiceRow
<1>3. ASSUME NEW c \in Clerks, CommitVoid(c) PROVE InvoiceRow(i)
  <2>1. PICK j \in Invoices : j = voiding[c].invoice
    BY <1>3 DEF CommitVoid, Voids
  <2>2. invoice' = invoice \/ invoice' = [invoice EXCEPT ![j].status = "void"]
    BY <1>3, <2>1 DEF CommitVoid
  <2>3. "void" \in InvoiceStates /\ invoice[j] \in InvoiceRows
    BY DEF InvoiceStates
  <2>4. CASE invoice' = invoice
    BY <2>4 DEF InvoiceRow
  <2>5. CASE invoice' = [invoice EXCEPT ![j].status = "void"]
    BY <2>3, <2>5, InvoiceStatusType DEF InvoiceRow
  <2> QED
    BY <2>2, <2>4, <2>5
<1>4. ASSUME NEW p \in Payments, CommitSettle(p) PROVE InvoiceRow(i)
  BY <1>4 DEF CommitSettle, InvoiceRow
<1>5. ASSUME NEW p \in Payments, CommitReopen(p) PROVE InvoiceRow(i)
  BY <1>5, Shapes DEF CommitReopen, InvoiceRow
<1> QED
  BY <1>1, <1>2, <1>3, <1>4, <1>5
  DEF InvoiceNext, invoiceVars, ReadForVoid, BeginPay, CommitPay, CreateByMerchant, Move, Retry,
      BeginSettle, BeginReopen, ReadForTransition, RollBack

(***************************************************************************)
(* The parts of the inductive invariant, one step at a time.               *)
(***************************************************************************)
LEMMA RowStep ==
    ASSUME InvoiceTypeOK, PaymentRowInv, [InvoiceNext]_invoiceVars PROVE PaymentRowInv'
<1> SUFFICES ASSUME NEW q \in Payments
             PROVE  /\ payment'[q].status = "absent" <=> payment'[q].invoice = None
                    /\ paying'[q] # None => payment'[q].status = "absent"
                    /\ settling'[q].phase = "settle" =>
                          payment'[q].status \in {"stk_sent", "unknown"}
                    /\ settling'[q].phase = "reopen" => payment'[q].status = "success"
  BY DEF PaymentRowInv
<1>1. Rows(q) /\ PayLock(q) /\ Transaction(q)
  BY RowChange, PayLockChange, TransactionChange
<1>2. payment'[q].status = "absent" <=> payment'[q].invoice = None
  <2>1. CASE payment'[q] = payment[q]
    BY <2>1 DEF PaymentRowInv
  <2>2. CASE CommitPay(q) /\ payment'[q] = [status |-> "pending", invoice |-> paying[q]]
    BY <2>2 DEF CommitPay
  <2>3. CASE \E i \in Invoices : payment'[q] = [status |-> "pending", invoice |-> i]
    BY <2>3, NoneAssumption
  <2> QED
    BY <1>1, <2>1, <2>2, <2>3 DEF Rows, PaymentRowInv
<1>3. paying'[q] # None => payment'[q].status = "absent"
  BY <1>1 DEF Rows, PayLock, PaymentRowInv, CommitPay, BeginPay
<1>4. /\ settling'[q].phase = "settle" => payment'[q].status \in {"stk_sent", "unknown"}
      /\ settling'[q].phase = "reopen" => payment'[q].status = "success"
  <2>1. CASE settling'[q] = settling[q]
    BY <1>1, <2>1 DEF Rows, PaymentRowInv, CommitPay
  <2>2. CASE BeginSettle(q) /\ settling'[q] = [phase |-> "settle", saw |-> invoice[payment[q].invoice]]
    BY <2>2, Begins DEF BeginSettle, ReadForTransition
  <2>3. CASE BeginReopen(q) /\ settling'[q] = [phase |-> "reopen", saw |-> invoice[payment[q].invoice]]
    BY <2>3, Begins DEF BeginReopen, ReadForTransition
  <2> QED
    BY <1>1, <2>1, <2>2, <2>3 DEF Transaction
<1> QED
  BY <1>2, <1>3, <1>4

LEMMA BackStep ==
    ASSUME InvoiceTypeOK, PaymentRowInv, BackInv, [InvoiceNext]_invoiceVars PROVE BackInv'
<1>1. ASSUME NEW i \in Invoices, invoice'[i].status = "paid" PROVE invoice'[i].payment # None
  <2>1. InvoiceRow(i)
    BY InvoiceChange
  <2>2. CASE invoice'[i] = invoice[i]
    BY <1>1, <2>2 DEF BackInv
  <2>3. CASE \E p \in Payments : invoice'[i].payment = p
    BY <2>3, NoneAssumption
  <2> QED
    BY <1>1, <2>1, <2>2, <2>3 DEF InvoiceRow
<1>2. ASSUME NEW i \in Invoices, NEW p \in Payments, invoice'[i].payment = p
      PROVE  /\ payment'[p].invoice = i
             /\ payment'[p].status = "success"
             /\ settling'[p].phase = "reopen" => settling'[p].saw.payment = p
  <2>1. InvoiceRow(i) /\ Rows(p) /\ Transaction(p)
    BY InvoiceChange, RowChange, TransactionChange
  <2>2. CASE invoice[i].payment = p
    <3>1. /\ payment[p].invoice = i /\ payment[p].status = "success"
          /\ settling[p].phase = "reopen" => settling[p].saw.payment = p
      BY <2>2 DEF BackInv
    <3>2. ~CommitPay(p)
      BY <3>1 DEF CommitPay, PaymentRowInv
    <3>3. ~CommitReopen(p)
      BY <1>2, <3>1, Shapes, NoneAssumption DEF CommitReopen, Reopens, InvoiceTypeOK
    <3>4. payment'[p] = payment[p]
      BY <2>1, <3>1, <3>2, <3>3 DEF Rows
    <3>5. settling'[p].phase = "reopen" => settling'[p].saw.payment = p
      BY <2>1, <2>2, <3>1 DEF Transaction
    <3> QED
      BY <3>1, <3>4, <3>5
  <2>3. CASE invoice[i].payment # p
    <3>1. CommitSettle(p) /\ payment[p].invoice = i
      <4>1. invoice'[i].payment # None /\ invoice'[i].payment # invoice[i].payment
        BY <1>2, <2>3, NoneAssumption
      <4>2. PICK r \in Payments : /\ CommitSettle(r) /\ payment[r].invoice = i
                                 /\ invoice'[i].payment = r
        BY <2>1, <4>1 DEF InvoiceRow
      <4> QED
        BY <1>2, <4>2
    <3>2. "success" \in Statuses /\ payment[p] \in PaymentRows
      BY DEF Statuses, InvoiceTypeOK
    <3>3. payment'[p].invoice = i /\ payment'[p].status = "success"
      BY <3>1, <3>2, StatusType DEF CommitSettle, InvoiceTypeOK
    <3>4. settling'[p].phase = "idle"
      BY <3>1, Shapes DEF CommitSettle, InvoiceTypeOK
    <3> QED
      BY <3>3, <3>4
  <2> QED
    BY <2>2, <2>3
<1> QED
  BY <1>1, <1>2 DEF BackInv

\* A payment that starts to stand on an invoice is one nobody guarded, or was
\* created under the lock of the invoice.
LEMMA Stands ==
    ASSUME InvoiceTypeOK, PaymentRowInv, [InvoiceNext]_invoiceVars, NEW i \in Invoices, NEW q \in Payments,
           payment'[q].invoice = i, payment'[q].status \in Standing
    PROVE  \/ q \in unguarded'
           \/ CommitPay(q) /\ paying[q] = i
           \/ payment[q].invoice = i /\ payment[q].status \in Standing
<1>1. Rows(q)
  BY RowChange
<1> QED
  BY <1>1 DEF Rows

LEMMA InvoiceLockStep ==
    ASSUME InvoiceTypeOK, PaymentRowInv, InvoiceLockInv, SuccessClosesInvoice, [InvoiceNext]_invoiceVars
    PROVE  InvoiceLockInv'
<1>1. ASSUME NEW p \in Payments, NEW q \in Payments, paying'[p] = paying'[q], paying'[p] # None
      PROVE  p = q
  <2>1. CASE paying' = paying
    BY <1>1, <2>1 DEF InvoiceLockInv
  <2>2. ASSUME NEW i \in Invoices, NEW r \in Payments, BeginPay(i, r) PROVE p = q
    BY <1>1, <2>2 DEF BeginPay, Unlocked, InvoiceLockInv, InvoiceTypeOK
  <2>3. ASSUME NEW r \in Payments, CommitPay(r) PROVE p = q
    BY <1>1, <2>3 DEF CommitPay, InvoiceLockInv, InvoiceTypeOK
  <2> QED
    BY <2>1, <2>2, <2>3
    DEF InvoiceNext, invoiceVars, CreateInvoice, ReadForVoid, CommitVoid, CreateByMerchant, Move,
        Retry, BeginSettle, BeginReopen, ReadForTransition, CommitSettle, CommitReopen, RollBack
<1>2. ASSUME NEW p \in Payments, NEW q \in Payments, NEW i \in Invoices,
             paying'[p] = i, payment'[q].invoice = i, payment'[q].status \in Standing
      PROVE  Excused(i)' \/ q \in unguarded'
  <2>1. PayLock(p) /\ i # None
    BY PayLockChange, NoneAssumption
  <2>2. CASE paying[p] = i /\ ~CommitPay(p)
    <3>1. CommitPay(q) /\ paying[q] = i => p = q
      BY <2>1, <2>2 DEF InvoiceLockInv
    <3>2. payment[q].invoice = i /\ payment[q].status \in Standing => Excused(i) \/ q \in unguarded
      BY <2>1, <2>2 DEF InvoiceLockInv
    <3> QED
      BY <1>2, <2>2, <3>1, <3>2, Stands, NeverForgotten, RowsGrow
  <2>3. CASE BeginPay(i, p)
    <3>1. payment'[q] = payment[q]
      BY <2>3 DEF BeginPay
    <3>2. invoice[i].status = "sent" /\ payment[q].status = "success"
      BY <1>2, <2>3, <3>1 DEF BeginPay, Payable, Standing, PaymentsOf
    <3>3. q \in PaymentsOf(i)
      BY <1>2, <3>1 DEF PaymentsOf
    <3>4. Excused(i) \/ q \in unguarded
      BY <3>2, <3>3 DEF SuccessClosesInvoice, Excused
    <3> QED
      BY <3>4, NeverForgotten, RowsGrow
  <2> QED
    BY <1>2, <2>1, <2>2, <2>3 DEF PayLock
<1>3. paying' \in [Payments -> Invoices \cup {None}]
  BY InvoiceTypeStep DEF InvoiceTypeOK
<1>4. ASSUME NEW p \in Payments, NEW q \in Payments, paying'[p] # None,
             payment'[q].invoice = paying'[p]
      PROVE  Excused(paying[p])' \/ q \in unguarded' \/ payment'[q].status \notin Standing
  <2>1. PICK i \in Invoices : paying'[p] = i
    BY <1>3, <1>4
  <2>2. Excused(i)' = Excused(paying[p])'
    BY <2>1 DEF Excused, PaymentsOf
  <2> QED
    BY <1>2, <1>4, <2>1, <2>2
<1> QED
  BY <1>1, <1>4 DEF InvoiceLockInv

LEMMA OneStep ==
    ASSUME InvoiceTypeOK, PaymentRowInv, InvoiceLockInv, LinkAsksOnce, [InvoiceNext]_invoiceVars
    PROVE  LinkAsksOnce'
<1>1. ASSUME NEW i \in Invoices, NEW p \in Payments, NEW q \in Payments, p # q,
             payment'[p].invoice = i, payment'[p].status \in Standing,
             payment'[q].invoice = i, payment'[q].status \in Standing
      PROVE  p \in unguarded' \/ q \in unguarded' \/ Excused(i)'
  <2>1. ASSUME NEW r \in Payments, NEW s \in Payments, CommitPay(r), paying[r] = i, r # s,
               payment'[s].invoice = i, payment'[s].status \in Standing
        PROVE  s \in unguarded' \/ Excused(i)'
    <3>1. payment[s] = payment'[s]
      BY <2>1 DEF CommitPay, InvoiceTypeOK
    <3>2. Excused(i) \/ s \in unguarded
      BY <2>1, <3>1, NoneAssumption DEF InvoiceLockInv
    <3> QED
      BY <3>2, NeverForgotten, RowsGrow
  <2>2. ASSUME payment[p].invoice = i, payment[p].status \in Standing,
               payment[q].invoice = i, payment[q].status \in Standing
        PROVE  p \in unguarded' \/ q \in unguarded' \/ Excused(i)'
    <3>1. p \in unguarded \/ q \in unguarded \/ Excused(i)
      BY <1>1, <2>2 DEF LinkAsksOnce, PaymentsOf, Excused
    <3> QED
      BY <3>1, NeverForgotten, RowsGrow
  <2>3. CASE p \in unguarded' \/ q \in unguarded'
    BY <2>3
  <2>4. CASE (CommitPay(p) /\ paying[p] = i) \/ (CommitPay(q) /\ paying[q] = i)
    BY <1>1, <2>1, <2>4
  <2> QED
    BY <1>1, <2>2, <2>3, <2>4, Stands
<1> QED
  BY <1>1 DEF LinkAsksOnce, PaymentsOf, Excused

LEMMA Reverses ==
    ASSUME InvoiceTypeOK, NEW r \in Payments, CommitReopen(r)
    PROVE  payment'[r].invoice = payment[r].invoice /\ payment'[r].status = "reversed"
<1>1. "reversed" \in Statuses /\ payment[r] \in PaymentRows
  BY DEF Statuses, InvoiceTypeOK
<1> QED
  BY <1>1, StatusType DEF CommitReopen, InvoiceTypeOK

\* The reversal of a payment beside one that stands is the exception of both.
LEMMA Beside ==
    ASSUME InvoiceTypeOK, PaymentRowInv, LinkAsksOnce, [InvoiceNext]_invoiceVars,
           NEW i \in Invoices, NEW p \in Payments, NEW r \in Payments, p # r,
           payment[p].invoice = i, payment[p].status \in Standing,
           payment[r].invoice = i, CommitReopen(r)
    PROVE  ReversedBeside(i, p)'
<1>1. payment[r].status = "success" /\ payment'[r].invoice = i /\ payment'[r].status = "reversed"
  BY Reverses DEF CommitReopen, PaymentRowInv
<1>2. p \in unguarded \/ r \in unguarded \/ Excused(i)
  BY <1>1 DEF LinkAsksOnce, PaymentsOf, Excused, Standing
<1>3. CASE p \in unguarded \/ r \in unguarded
  BY <1>1, <1>3, RowsGrow DEF ReversedBeside, PaymentsOf
<1>4. CASE Excused(i)
  <2>1. ReversedBeside(i, p)
    BY <1>4 DEF Excused, ReversedBeside
  <2> QED
    BY <2>1, NeverForgotten
<1> QED
  BY <1>2, <1>3, <1>4

LEMMA SettleStep ==
    ASSUME InvoiceTypeOK, PaymentRowInv, SettleInv, LinkAsksOnce, [InvoiceNext]_invoiceVars
    PROVE  SettleInv'
<1>1. ASSUME NEW p \in Payments, NEW i \in Invoices, payment'[p].invoice = i,
             settling'[p].phase = "settle", settling'[p].saw.status = "paid"
      PROVE  invoice'[i].status \in {"paid", "void"} \/ ReversedBeside(i, p)'
  <2>1. Rows(p) /\ Transaction(p) /\ InvoiceRow(i)
    BY RowChange, TransactionChange, InvoiceChange
  <2>2. CASE settling'[p] = settling[p]
    <3>1. payment[p].status \in {"stk_sent", "unknown"}
      BY <1>1, <2>2 DEF PaymentRowInv
    <3>2. payment'[p] = payment[p]
      BY <1>1, <2>1, <3>1 DEF Rows, CommitPay, PaymentRowInv
    <3>3. invoice[i].status \in {"paid", "void"} \/ ReversedBeside(i, p)
      BY <1>1, <2>2, <3>2 DEF SettleInv
    <3>4. ASSUME NEW r \in Payments, CommitReopen(r), payment[r].invoice = i
          PROVE  ReversedBeside(i, p)'
      <4>1. r # p
        BY <3>1, <3>4 DEF CommitReopen, PaymentRowInv
      <4> QED
        BY <1>1, <3>1, <3>2, <3>4, <4>1, Beside DEF Standing, Blocking
    <3>5. CASE invoice[i].status \in {"paid", "void"}
      BY <2>1, <3>4, <3>5 DEF InvoiceRow
    <3> QED
      BY <3>3, <3>5, NeverForgotten
  <2>3. CASE BeginSettle(p) /\ settling'[p] = [phase |-> "settle", saw |-> invoice[payment[p].invoice]]
    <3>1. payment' = payment /\ invoice' = invoice
      BY <2>3 DEF BeginSettle, ReadForTransition
    <3>2. invoice[i].status = "paid"
      BY <1>1, <2>3, <3>1
    <3> QED
      BY <3>1, <3>2
  <2> QED
    BY <1>1, <2>1, <2>2, <2>3 DEF Transaction
<1>2. ASSUME NEW p \in Payments, settling'[p].phase = "settle" PROVE payment'[p].invoice \in Invoices
  <2>1. InvoiceTypeOK' /\ PaymentRowInv'
    BY InvoiceTypeStep, RowStep
  <2>2. payment'[p] \in PaymentRows
    BY <2>1 DEF InvoiceTypeOK
  <2>3. payment'[p].invoice # None
    BY <1>2, <2>1 DEF PaymentRowInv
  <2> QED
    BY <2>2, <2>3 DEF PaymentRows
<1>3. ASSUME NEW p \in Payments, settling'[p].phase = "settle", settling'[p].saw.status = "paid"
      PROVE  \/ invoice'[payment'[p].invoice].status \in {"paid", "void"}
             \/ ReversedBeside(payment[p].invoice, p)'
  <2>1. PICK i \in Invoices : payment'[p].invoice = i
    BY <1>2, <1>3
  <2>2. ReversedBeside(i, p)' = ReversedBeside(payment[p].invoice, p)'
    BY <2>1 DEF ReversedBeside, PaymentsOf
  <2> QED
    BY <1>1, <1>3, <2>1, <2>2
<1> QED
  BY <1>3 DEF SettleInv

LEMMA SuccessStep ==
    ASSUME InvoiceTypeOK, PaymentRowInv, SettleInv, LinkAsksOnce, SuccessClosesInvoice,
           [InvoiceNext]_invoiceVars
    PROVE  SuccessClosesInvoice'
<1>1. ASSUME NEW i \in Invoices, NEW p \in Payments, payment'[p].invoice = i,
             payment'[p].status = "success"
      PROVE  invoice'[i].status \in {"paid", "void"} \/ ReversedBeside(i, p)'
  <2>1. Rows(p) /\ InvoiceRow(i)
    BY RowChange, InvoiceChange
  <2>2. CASE payment'[p] = payment[p]
    <3>1. p \in PaymentsOf(i) /\ payment[p].status = "success"
      BY <1>1, <2>2 DEF PaymentsOf
    <3>2. invoice[i].status \in {"paid", "void"} \/ ReversedBeside(i, p)
      BY <3>1 DEF SuccessClosesInvoice, ReversedBeside
    <3>3. ASSUME NEW r \in Payments, CommitReopen(r), payment[r].invoice = i
          PROVE  ReversedBeside(i, p)'
      <4>1. r # p
        BY <1>1, <3>3, Reverses
      <4> QED
        BY <1>1, <2>2, <3>1, <3>3, <4>1, Beside DEF Standing
    <3>4. CASE invoice[i].status \in {"paid", "void"}
      BY <2>1, <3>3, <3>4 DEF InvoiceRow
    <3> QED
      BY <3>2, <3>4, NeverForgotten
  <2>3. CASE payment'[p] # payment[p]
    <3>1. CommitSettle(p) /\ payment[p].invoice = i
      <4>1. ASSUME NEW j, payment'[p] = [status |-> "pending", invoice |-> j] PROVE FALSE
        BY <1>1, <4>1
      <4> QED
        BY <1>1, <2>1, <2>3, <4>1 DEF Rows
    <3>2. CASE settling[p].saw.status # "paid"
      BY <3>1, <3>2 DEF CommitSettle, Settles, InvoiceTypeOK
    <3>3. CASE settling[p].saw.status = "paid"
      <4>1. invoice' = invoice /\ settling[p].phase = "settle"
        BY <3>1, <3>3 DEF CommitSettle, Settles
      <4>2. invoice[i].status \in {"paid", "void"} \/ ReversedBeside(i, p)
        BY <3>1, <3>3, <4>1 DEF SettleInv
      <4> QED
        BY <4>1, <4>2, NeverForgotten
    <3> QED
      BY <3>2, <3>3
  <2> QED
    BY <2>2, <2>3
<1> QED
  BY <1>1 DEF SuccessClosesInvoice, PaymentsOf, ReversedBeside

(***************************************************************************)
(* The theorems.                                                           *)
(***************************************************************************)
LEMMA IInvInit == InvoiceInit => InvoiceIInv
<1> SUFFICES ASSUME InvoiceInit PROVE InvoiceIInv
  OBVIOUS
<1>1. InvoiceTypeOK
  BY TypeInit
<1>2. PaymentRowInv /\ InvoiceLockInv /\ SettleInv
  BY Shapes DEF InvoiceInit, PaymentRowInv, InvoiceLockInv, SettleInv
<1>3. BackInv /\ LinkAsksOnce /\ SuccessClosesInvoice
  BY NoneAssumption DEF InvoiceInit, NewInvoice, BackInv, LinkAsksOnce,
     SuccessClosesInvoice, PaymentsOf
<1> QED
  BY <1>1, <1>2, <1>3 DEF InvoiceIInv

LEMMA IInvStep == InvoiceIInv /\ [InvoiceNext]_invoiceVars => InvoiceIInv'
BY InvoiceTypeStep, RowStep, BackStep, InvoiceLockStep, SettleStep, OneStep, SuccessStep DEF InvoiceIInv

LEMMA InvoiceInvariance == InvoiceSpec => []InvoiceIInv
BY IInvInit, IInvStep, PTL DEF InvoiceSpec

\* The variables keep their types: in particular an invoice only ever names a
\* payment of the table, and a payment an invoice.
THEOREM InvoiceTypeCorrect == InvoiceSpec => []InvoiceTypeOK
<1>1. InvoiceIInv => InvoiceTypeOK
  BY DEF InvoiceIInv
<1> QED
  BY <1>1, InvoiceInvariance, PTL

\* However settlements, reversals and voids interleave, an invoice that says
\* it is paid names a payment of its own that is successful.
THEOREM PaidInvoicesAreBacked == InvoiceSpec => []PaidIsBacked
<1>1. InvoiceIInv => PaidIsBacked
  BY DEF InvoiceIInv, InvoiceTypeOK, InvoiceRows, BackInv, PaidIsBacked, PaymentsOf
<1> QED
  BY <1>1, InvoiceInvariance, PTL

\* The lock pay_public_invoice takes is enough for its own payments: two that
\* are under way or successful together are the work of a merchant's request
\* or of a retry, which take no such lock.
THEOREM OnePaymentAtATime == InvoiceSpec => []LinkAsksOnce
<1>1. InvoiceIInv => LinkAsksOnce
  BY DEF InvoiceIInv
<1> QED
  BY <1>1, InvoiceInvariance, PTL

\* The public link stays shut while a payment of the invoice is successful,
\* except after the reversal of another, when one of the two was retried or
\* requested by the merchant.
THEOREM SuccessShutsTheLink == InvoiceSpec => []SuccessClosesInvoice
<1>1. InvoiceIInv => SuccessClosesInvoice
  BY DEF InvoiceIInv
<1> QED
  BY <1>1, InvoiceInvariance, PTL
=============================================================================
