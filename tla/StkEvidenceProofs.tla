------------------------- MODULE StkEvidenceProofs -------------------------
(***************************************************************************)
(* Proofs about the money behind a payment and what its merchant is told:  *)
(* no payment succeeds unless the customer paid, no receipt is spent twice,*)
(* and every outcome is announced.                                         *)
(***************************************************************************)
EXTENDS StkPaymentsProofs, MCStkReconcile

(***************************************************************************)
(* The inductive invariant.  ReceiptMatchesCallback alone is not inductive:*)
(* a callback finds no processed row of its attempt, and that this means no*)
(* payment holds its receipt rests on CreditedRows, and that the receipt is*)
(* money on the truth of every row filed before an operator links it.      *)
(***************************************************************************)
Final == {"success", "reversed"}

PaidItself(p) == \E n \in Numbers : provider[<<p, n>>] = "paid"

PaymentsEarned ==
    \A p \in Payments : payment[p].status \in Final =>
        PaidItself(p) \/ payment[p].receipt # None

FiledIsTrue == \A r \in filed : r.code = "success" => provider[r.of] = "paid"

CreditedRows ==
    \A r \in filed : r.status = "processed_success" =>
        /\ r.code = "success"
        /\ r.payment \in Payments
        /\ payment[r.payment].receipt = r.of

ReceiptsFiled ==
    \A p \in Payments : payment[p].receipt # None =>
        \E r \in filed : /\ r.of = payment[p].receipt
                         /\ r.payment = p
                         /\ r.status = "processed_success"

ReceiptsSpentOnce ==
    \A p, q \in Payments : payment[p].receipt = payment[q].receipt =>
        p = q \/ payment[p].receipt = None

EvidenceInv ==
    /\ IInv
    /\ PaymentsEarned
    /\ FiledIsTrue
    /\ CreditedRows
    /\ ReceiptsFiled
    /\ ReceiptsSpentOnce

(***************************************************************************)
(* The two kinds of steps.  A plain step gives no payment a receipt, brings*)
(* none to success that the customer did not pay, and files no row that is *)
(* processed_success; Credit is the step that spends receipt a on p.       *)
(***************************************************************************)
Keeps(p) ==
    /\ payment'[p].receipt = payment[p].receipt
    /\ payment'[p].status \in Final => payment[p].status \in Final \/ PaidItself(p)

PaidStays == \A a \in Attempts : provider[a] = "paid" => provider'[a] = "paid"

FilesPlainly ==
    /\ \A r \in filed' \ filed :
          /\ r.status # "processed_success"
          /\ r.code = "success" => provider[r.of] = "paid"
    /\ \A r \in filed \ filed' : r.status # "processed_success"

PlainStep ==
    /\ \A p \in Payments : Keeps(p)
    /\ PaidStays
    /\ FilesPlainly

Credit(p, a) ==
    /\ payment[p].receipt = None
    /\ payment'[p].receipt = a
    /\ \A q \in Payments \ {p} : payment'[q] = payment[q] /\ payment[q].receipt # a
    /\ UNCHANGED provider
    /\ provider[a] = "paid"
    /\ \E r \in filed' :
          /\ r.of = a /\ r.code = "success" /\ r.payment = p
          /\ r.status = "processed_success"
          /\ filed' \subseteq filed \cup {r}
    /\ \A r \in filed \ filed' : r.status # "processed_success"

\* What the merchant is told in a step: the outcome of a payment that took one
\* in, unless it is set aside for a repeated id, and nothing new of the others.
IdRepeatedNext(p) == \E n \in Numbers : call'[<<p, n>>] = "repeated"

Told(p) ==
    \/ payment'[p].status \in {"absent", "pending"}
    \/ announced'[p] = payment'[p].status
    \/ announced'[p] = announced[p] /\ payment'[p].status = payment[p].status
    \/ payment'[p].status = "unknown" /\ IdRepeatedNext(p)

AllTold == \A p \in Payments : Told(p)

\* An action that writes one row and keeps its receipt.
Announces(p, row) ==
    \/ Announce(p, row.status)
    \/ /\ announced' = announced
       /\ \/ row.status \in {payment[p].status, "absent", "pending"}
          \/ row.status = "unknown" /\ IdRepeatedNext(p)

LEMMA ToldWrite ==
    ASSUME TypeOK, NEW p \in Payments, NEW row \in PaymentRows,
           payment' = [payment EXCEPT ![p] = row], Announces(p, row)
    PROVE  AllTold
<1>1. \A q \in Payments : payment'[q] = IF q = p THEN row ELSE payment[q]
  BY DEF TypeOK
<1>2. Told(p)
  BY <1>1 DEF Told, Announces, Announce, TypeOK
<1>3. \A q \in Payments \ {p} : Told(q)
  BY <1>1 DEF Told, Announces, Announce, TypeOK
<1> QED
  BY <1>2, <1>3 DEF AllTold

LEMMA PlainWrite ==
    ASSUME TypeOK, NEW p \in Payments, NEW row \in PaymentRows,
           payment' = [payment EXCEPT ![p] = row],
           row.receipt = payment[p].receipt,
           row.status \in Final => payment[p].status \in Final \/ PaidItself(p),
           Announces(p, row)
    PROVE  AllTold /\ \A q \in Payments : Keeps(q)
<1>1. \A q \in Payments : payment'[q] = IF q = p THEN row ELSE payment[q]
  BY DEF TypeOK
<1>2. \A q \in Payments : Keeps(q)
  BY <1>1 DEF Keeps
<1> QED
  BY <1>2, ToldWrite

LEMMA NothingWritten ==
    ASSUME UNCHANGED <<payment, announced>>
    PROVE  AllTold /\ \A p \in Payments : Keeps(p)
BY DEF AllTold, Told, Keeps

LEMMA NothingFiled ==
    ASSUME UNCHANGED <<provider, filed>>
    PROVE  PaidStays /\ FilesPlainly
BY DEF PaidStays, FilesPlainly

\* A handler files what Daraja truthfully reported.
LEMMA PlainFile ==
    ASSUME NEW a \in Attempts, NEW code, NEW s, NEW p, File(a, code, s, p),
           s # "processed_success", MayReport(a, code), UNCHANGED provider
    PROVE  PaidStays /\ FilesPlainly
BY DEF File, MayReport, SuccessCodes, PaidStays, FilesPlainly

(***************************************************************************)
(* The invariant is kept by both kinds of steps.                           *)
(***************************************************************************)
LEMMA PlainKeeps ==
    ASSUME EvidenceInv, Next, PlainStep
    PROVE  EvidenceInv'
<1> USE DEF EvidenceInv
<1>1. IInv'
  BY StepIInv
<1>2. /\ \A p \in Payments : PaidItself(p) => PaidItself(p)'
      /\ \A r \in filed \cup filed' : r.of \in Attempts
  <2>1. \A p \in Payments, n \in Numbers : <<p, n>> \in Attempts
    BY DEF Attempts
  <2>2. filed \subseteq CallbackRows /\ filed' \subseteq CallbackRows
    BY <1>1 DEF IInv, TypeOK
  <2> QED
    BY <2>1, <2>2 DEF PlainStep, PaidStays, PaidItself, CallbackRows
<1>3. PaymentsEarned'
  BY <1>2 DEF PaymentsEarned, PlainStep, Keeps
<1>4. FiledIsTrue'
  <2> SUFFICES ASSUME NEW r \in filed', r.code = "success"
               PROVE  provider'[r.of] = "paid"
    BY DEF FiledIsTrue
  <2>1. provider[r.of] = "paid"
    BY DEF FiledIsTrue, PlainStep, FilesPlainly
  <2> QED
    BY <1>2, <2>1 DEF PlainStep, PaidStays
<1>5. CreditedRows'
  <2> SUFFICES ASSUME NEW r \in filed', r.status = "processed_success"
               PROVE  /\ r.code = "success" /\ r.payment \in Payments
                      /\ payment'[r.payment].receipt = r.of
    BY DEF CreditedRows
  <2>1. r \in filed
    BY DEF PlainStep, FilesPlainly
  <2> QED
    BY <2>1 DEF CreditedRows, PlainStep, Keeps
<1>6. ReceiptsFiled'
  <2> SUFFICES ASSUME NEW p \in Payments, payment'[p].receipt # None
               PROVE  \E r \in filed' : /\ r.of = payment'[p].receipt /\ r.payment = p
                                        /\ r.status = "processed_success"
    BY DEF ReceiptsFiled
  <2>1. payment'[p].receipt = payment[p].receipt
    BY DEF PlainStep, Keeps
  <2>2. PICK r \in filed : /\ r.of = payment[p].receipt /\ r.payment = p
                           /\ r.status = "processed_success"
    BY <2>1 DEF ReceiptsFiled
  <2>3. r \in filed'
    BY <2>2 DEF PlainStep, FilesPlainly
  <2> QED
    BY <2>1, <2>2, <2>3
<1>7. ReceiptsSpentOnce'
  BY DEF ReceiptsSpentOnce, PlainStep, Keeps
<1> QED
  BY <1>1, <1>3, <1>4, <1>5, <1>6, <1>7

LEMMA CreditKeeps ==
    ASSUME EvidenceInv, Next, NEW p \in Payments, NEW a \in Attempts, Credit(p, a)
    PROVE  EvidenceInv'
<1> USE DEF EvidenceInv
<1>1. IInv'
  BY StepIInv
<1>2. a # None
  BY NoneAssumption
<1>3. PICK new \in filed' :
          /\ new.of = a /\ new.code = "success" /\ new.payment = p
          /\ new.status = "processed_success"
          /\ filed' \subseteq filed \cup {new}
  BY DEF Credit
<1>4. \A r \in filed : r.of \in Attempts
  BY DEF IInv, TypeOK, CallbackRows
<1>5. PaymentsEarned'
  BY <1>2 DEF PaymentsEarned, Credit, PaidItself
<1>6. FiledIsTrue'
  BY <1>3 DEF FiledIsTrue, Credit
<1>7. CreditedRows'
  <2> SUFFICES ASSUME NEW r \in filed', r.status = "processed_success"
               PROVE  /\ r.code = "success" /\ r.payment \in Payments
                      /\ payment'[r.payment].receipt = r.of
    BY DEF CreditedRows
  <2>1. CASE r = new
    BY <1>3, <2>1 DEF Credit
  <2>2. CASE r \in filed
    <3>1. r.code = "success" /\ r.payment \in Payments /\ payment[r.payment].receipt = r.of
      BY <2>2 DEF CreditedRows
    <3>2. r.payment # p
      BY <1>4, <2>2, <3>1, NoneAssumption DEF Credit
    <3> QED
      BY <3>1, <3>2 DEF Credit
  <2> QED
    BY <1>3, <2>1, <2>2
<1>8. ReceiptsFiled'
  <2> SUFFICES ASSUME NEW q \in Payments, payment'[q].receipt # None
               PROVE  \E r \in filed' : /\ r.of = payment'[q].receipt /\ r.payment = q
                                        /\ r.status = "processed_success"
    BY DEF ReceiptsFiled
  <2>1. CASE q = p
    BY <1>3, <2>1 DEF Credit
  <2>2. CASE q # p
    <3>1. payment'[q] = payment[q]
      BY <2>2 DEF Credit
    <3>2. PICK r \in filed : /\ r.of = payment[q].receipt /\ r.payment = q
                             /\ r.status = "processed_success"
      BY <3>1 DEF ReceiptsFiled
    <3>3. r \in filed'
      BY <3>2 DEF Credit
    <3> QED
      BY <3>1, <3>2, <3>3
  <2> QED
    BY <2>1, <2>2
<1>9. ReceiptsSpentOnce'
  BY DEF ReceiptsSpentOnce, Credit
<1> QED
  BY <1>1, <1>5, <1>6, <1>7, <1>8, <1>9

(***************************************************************************)
(* The submission and its maintenance: plain, and every outcome announced. *)
(***************************************************************************)
Plain == AllTold /\ PlainStep
Credited == AllTold /\ \E p \in Payments, a \in Attempts : Credit(p, a)

LEMMA CommitPlain ==
    ASSUME TypeOK, NEW a \in Attempts, NEW target \in {"failed", "unknown", "stk_sent"},
           NEW row \in PaymentRows, NEW att, CommitStale(a, target, row, att),
           row.status = target, row.receipt = payment[PaymentOf(a)].receipt
    PROVE  Plain
<1>1. PaymentOf(a) \in Payments
  BY AttemptParts
<1>2. payment' = [payment EXCEPT ![PaymentOf(a)] = row] /\ Announces(PaymentOf(a), row)
  BY DEF CommitStale, Announces
<1>3. PaidStays /\ FilesPlainly
  BY NothingFiled DEF CommitStale
<1>4. row.status \notin Final
  BY DEF Final
<1> QED
  BY <1>1, <1>2, <1>3, <1>4, PlainWrite DEF Plain, PlainStep

LEMMA SetAsidePlain ==
    ASSUME TypeOK, NEW p \in Payments, SetAside(p), UNCHANGED <<provider, filed>>,
           IF payment[p].status = "pending"
           THEN Announce(p, "unknown") \/ (IdRepeatedNext(p) /\ announced' = announced)
           ELSE announced' = announced
    PROVE  Plain
<1> DEFINE pending == payment[p].status = "pending"
           row == [payment[p] EXCEPT !.status = IF pending THEN "unknown" ELSE payment[p].status,
                                     !.acceptance = "uncertain", !.review = "needs_review"]
<1>1. payment[p] \in PaymentRows
  BY DEF TypeOK
<1>2. /\ row \in PaymentRows /\ row.receipt = payment[p].receipt
      /\ row.status = IF pending THEN "unknown" ELSE payment[p].status
  BY <1>1, ZenonT(40) DEF PaymentRows, Acceptances, Reviews, Statuses
<1>3. payment' = [payment EXCEPT ![p] = row]
  BY DEF SetAside
<1> HIDE DEF row
<1>4. Announces(p, row)
  BY <1>2 DEF Announces
<1>5. row.status \in Final => payment[p].status \in Final
  BY <1>2 DEF Final
<1> QED
  BY <1>2, <1>3, <1>4, <1>5, PlainWrite, NothingFiled DEF Plain, PlainStep

LEMMA SubmissionPlain ==
    ASSUME TypeOK, NEW a \in Attempts, Respond(a)
    PROVE  Plain
<1> DEFINE p == PaymentOf(a)
<1>1. p \in Payments /\ payment[p] \in PaymentRows
  BY AttemptParts DEF TypeOK
<1>2. ASSUME NEW outcome \in {"not_sent", "rejected"}, SubmitRefused(a, outcome)
      PROVE  Plain
  <2> DEFINE row == [payment[p] EXCEPT !.status = "failed", !.acceptance = "rejected",
                                       !.receipt_status = "not_applicable"]
  <2>1. /\ row \in PaymentRows
        /\ row.status = "failed" /\ row.receipt = payment[p].receipt
    BY <1>1 DEF PaymentRows, Acceptances, ReceiptStates, Statuses
  <2>2. CommitStale(a, "failed", row, [attempt[a] EXCEPT !.status = outcome])
    BY <1>2 DEF SubmitRefused
  <2> QED
    BY <2>1, <2>2, CommitPlain
<1>3. ASSUME RecordUncertain(a)
      PROVE  Plain
  <2> DEFINE row == [payment[p] EXCEPT !.status = "unknown", !.acceptance = "uncertain",
                                       !.review = "needs_review"]
  <2>1. /\ row \in PaymentRows
        /\ row.status = "unknown" /\ row.receipt = payment[p].receipt
    BY <1>1 DEF PaymentRows, Acceptances, Reviews, Statuses
  <2>2. CommitStale(a, "unknown", row, [attempt[a] EXCEPT !.status = "uncertain"])
    BY <1>3 DEF RecordUncertain
  <2> QED
    BY <2>1, <2>2, CommitPlain
<1>4. ASSUME SubmitAccepted(a)
      PROVE  Plain
  <2> DEFINE row == [payment[p] EXCEPT !.status = "stk_sent", !.checkout = NumberOf(a),
                                       !.acceptance = "accepted", !.due = TRUE]
  <2>1. /\ row \in PaymentRows
        /\ row.status = "stk_sent" /\ row.receipt = payment[p].receipt
    BY <1>1, AttemptParts DEF PaymentRows, Acceptances, Statuses
  <2>2. CommitStale(a, "stk_sent", row, [status |-> "accepted", known |-> TRUE])
    BY <1>4 DEF SubmitAccepted
  <2> QED
    BY <2>1, <2>2, CommitPlain
<1>5. ASSUME SubmitRepeatedId(a)
      PROVE  Plain
  <2>1. call' = [call EXCEPT ![a] = "repeated"]
    BY <1>5 DEF SubmitRepeatedId, Answered
  <2>2. IdRepeatedNext(p)
    BY <2>1, AttemptParts DEF IdRepeatedNext, TypeOK
  <2> QED
    BY <1>1, <1>5, <2>2, SetAsidePlain DEF SubmitRepeatedId
<1>6. ASSUME NEW target, SubmitAborted(a, target)
      PROVE  Plain
  BY <1>6, NothingWritten, NothingFiled DEF SubmitAborted, Plain, PlainStep
<1> QED
  BY <1>2, <1>3, <1>4, <1>5, <1>6 DEF Respond, SubmitUncertain, SubmitWithoutCheckout

(***************************************************************************)
(* Daraja and its callbacks.                                               *)
(***************************************************************************)
LEMMA ProviderPlain ==
    ASSUME TypeOK, NEW a \in Attempts,
           Transmit(a) \/ \E answer \in {"paid", "declined"} : CustomerAnswers(a, answer)
    PROVE  Plain
<1>1. UNCHANGED <<payment, announced, filed>>
  BY DEF Transmit, CustomerAnswers
<1>2. PaidStays
  BY DEF Transmit, CustomerAnswers, PaidStays, TypeOK
<1> QED
  BY <1>1, <1>2, NothingWritten DEF Plain, PlainStep, FilesPlainly

LEMMA ConflictPlain ==
    ASSUME TypeOK, NEW a \in Attempts, NEW code, MayReport(a, code), FlagConflict(a, code)
    PROVE  Plain
<1> DEFINE p == PaymentOf(a)
           row == [payment[p] EXCEPT !.review = "needs_review"]
<1>1. p \in Payments /\ payment[p] \in PaymentRows
  BY AttemptParts DEF TypeOK
<1>2. /\ row \in PaymentRows /\ row.status = payment[p].status
      /\ row.receipt = payment[p].receipt
  BY <1>1 DEF PaymentRows, Reviews
<1>3. payment' = [payment EXCEPT ![p] = row] /\ announced' = announced
  BY DEF FlagConflict
<1>4. PaidStays /\ FilesPlainly
  BY PlainFile DEF FlagConflict
<1> HIDE DEF row
<1>5. Announces(p, row)
  BY <1>2, <1>3 DEF Announces
<1> QED
  BY <1>1, <1>2, <1>3, <1>4, <1>5, PlainWrite DEF Plain, PlainStep

LEMMA FailurePlain ==
    ASSUME TypeOK, NEW a \in Attempts, NEW code, CallbackFails(a, code)
    PROVE  Plain
<1> DEFINE p == PaymentOf(a)
           old == payment[p]
           target == FailureTarget(old.status, code)
           row == WithFailure(old, target, code)
<1>1. p \in Payments /\ old \in PaymentRows /\ old.status \in Statuses
  BY AttemptParts DEF TypeOK, PaymentRows
<1>2. code \in FailureCodes /\ target \in FailureCodes
  BY <1>1, FailureTargetType DEF CallbackFails
<1>3. target \in Statuses /\ target \notin Final
  BY <1>2 DEF FailureCodes, Statuses, Final
<1>4. row \in PaymentRows
  BY <1>1, <1>3, WithFailureType
<1>5. row.status = target /\ row.receipt = old.receipt
  BY <1>1 DEF WithFailure, PaymentRows
<1>6. payment' = [payment EXCEPT ![p] = row] /\ Announce(p, target)
  BY DEF CallbackFails
<1>7. PaidStays /\ FilesPlainly
  <2>1. UNCHANGED provider /\ MayReport(a, code)
    BY DEF CallbackFails, Matched
  <2>2. \/ File(a, code, "processed_unknown", p)
        \/ File(a, code, "processed_failure", p)
    BY DEF CallbackFails
  <2> QED
    BY <2>1, <2>2, PlainFile
<1> HIDE DEF row, target
<1>8. Announces(p, row)
  BY <1>5, <1>6 DEF Announces
<1> QED
  BY <1>1, <1>3, <1>4, <1>5, <1>6, <1>7, <1>8, PlainWrite DEF Plain, PlainStep

LEMMA UnverifiedPlain ==
    ASSUME TypeOK, NEW a \in Attempts, CallbackUnverified(a)
    PROVE  Plain
<1> DEFINE p == PaymentOf(a)
           old == payment[p]
           sent == old.status = "stk_sent"
           row == [old EXCEPT !.status = IF sent THEN "unknown" ELSE old.status,
                              !.review = "needs_review", !.acceptance = "accepted"]
<1>1. p \in Payments /\ old \in PaymentRows
  BY AttemptParts DEF TypeOK
<1>2. PaidStays /\ FilesPlainly
  BY NothingFiled DEF CallbackUnverified
<1>3. CASE old.status = "success"
  BY <1>2, <1>3, NothingWritten DEF CallbackUnverified, Plain, PlainStep
<1>4. CASE old.status # "success"
  <2>1. /\ row \in PaymentRows /\ row.receipt = old.receipt
        /\ row.status = IF sent THEN "unknown" ELSE old.status
    BY <1>1 DEF PaymentRows, Acceptances, Reviews, Statuses
  <2>2. payment' = [payment EXCEPT ![p] = row]
    BY <1>4 DEF CallbackUnverified
  <2>3. IF sent THEN Announce(p, "unknown") ELSE announced' = announced
    BY DEF CallbackUnverified
  <2> HIDE DEF row
  <2>4. Announces(p, row)
    BY <2>1, <2>3 DEF Announces
  <2>5. row.status \in Final => old.status \in Final
    BY <2>1 DEF Final
  <2> QED
    BY <1>1, <1>2, <2>1, <2>2, <2>4, <2>5, PlainWrite DEF Plain, PlainStep
<1> QED
  BY <1>3, <1>4

\* A success callback that is no duplicate spends a receipt nobody holds.
LEMMA CallbackCredits ==
    ASSUME EvidenceInv, NEW a \in Attempts, CallbackEnriches(a) \/ CallbackSucceeds(a)
    PROVE  Credited
<1> USE DEF EvidenceInv, IInv
<1> DEFINE p == PaymentOf(a)
           old == payment[p]
           new == [of |-> a, code |-> "success", status |-> "processed_success", payment |-> p]
<1>1. p \in Payments /\ old \in PaymentRows /\ Sound(old)
  BY AttemptParts DEF TypeOK, RowsSound
<1>2. /\ Matched(a, "success") /\ filed' = filed \cup {new} /\ UNCHANGED provider
  BY DEF CallbackEnriches, CallbackSucceeds, File
<1>3. provider[a] = "paid"
  BY <1>2 DEF Matched, MayReport, SuccessCodes
<1>4. \A q \in Payments : payment[q].receipt # a
  <2> SUFFICES ASSUME NEW q \in Payments, payment[q].receipt = a
               PROVE  FALSE
    OBVIOUS
  <2>1. PICK r \in filed : r.of = a /\ r.payment = q /\ r.status = "processed_success"
    BY NoneAssumption DEF ReceiptsFiled
  <2>2. r.code = "success"
    BY <2>1 DEF CreditedRows
  <2> QED
    BY <1>2, <2>1, <2>2 DEF Matched, Filed
<1>5. old.receipt = None
  <2>1. CASE CallbackEnriches(a)
    BY <2>1 DEF CallbackEnriches
  <2>2. CASE CallbackSucceeds(a)
    <3>1. old.status \notin Final
      BY <1>1, <2>2 DEF CallbackSucceeds, MayMove, Allowed, PaymentRows, Statuses, Final
    <3> QED
      BY <1>1, <3>1 DEF Sound, Evidenced, Final
  <2> QED
    BY <2>1, <2>2
<1>6. PICK row \in PaymentRows :
          /\ payment' = [payment EXCEPT ![p] = row]
          /\ row.receipt = a /\ Announces(p, row)
  <2>1. CASE CallbackEnriches(a)
    <3> DEFINE row == [old EXCEPT !.receipt = a, !.source = "callback",
                                  !.receipt_status = "enriched_later",
                                  !.review = "resolved", !.acceptance = "accepted"]
    <3>1. row \in PaymentRows /\ row.receipt = a /\ row.status = old.status
      BY <1>1 DEF PaymentRows, Acceptances, ReceiptStates, Reviews, Sources
    <3>2. payment' = [payment EXCEPT ![p] = row] /\ announced' = announced
      BY <2>1 DEF CallbackEnriches
    <3> HIDE DEF row
    <3> QED
      BY <3>1, <3>2 DEF Announces
  <2>2. CASE CallbackSucceeds(a)
    <3> DEFINE row == [old EXCEPT !.status = "success", !.receipt = a,
                                  !.source = "callback", !.receipt_status = "present",
                                  !.review = "none", !.acceptance = "accepted"]
    <3>1. row \in PaymentRows /\ row.receipt = a /\ row.status = "success"
      BY <1>1, ZenonT(40) DEF PaymentRows, Acceptances, ReceiptStates, Reviews, Sources, Statuses
    <3>2. payment' = [payment EXCEPT ![p] = row] /\ Announce(p, "success")
      BY <2>2 DEF CallbackSucceeds
    <3> HIDE DEF row
    <3> QED
      BY <3>1, <3>2 DEF Announces
  <2> QED
    BY <2>1, <2>2
<1>7. AllTold
  BY <1>1, <1>6, ToldWrite
<1>8. /\ payment'[p].receipt = a
      /\ \A q \in Payments \ {p} : payment'[q] = payment[q] /\ payment[q].receipt # a
  BY <1>1, <1>4, <1>6 DEF TypeOK
<1>9. \E r \in filed' :
          /\ r.of = a /\ r.code = "success" /\ r.payment = p
          /\ r.status = "processed_success"
          /\ filed' \subseteq filed \cup {r}
  BY <1>2
<1>10. Credit(p, a)
  BY <1>2, <1>3, <1>5, <1>8, <1>9 DEF Credit
<1> QED
  BY <1>1, <1>7, <1>10 DEF Credited

LEMMA DarajaEvidence ==
    ASSUME EvidenceInv, NEW a \in Attempts, Daraja(a)
    PROVE  Plain \/ Credited
<1> USE DEF EvidenceInv, IInv
<1>1. CASE Transmit(a) \/ \E answer \in {"paid", "declined"} : CustomerAnswers(a, answer)
  BY <1>1, ProviderPlain
<1>2. ASSUME NEW code \in Codes, Callback(a, code)
      PROVE  Plain \/ Credited
  <2>1. CASE CallbackUnmatched(a, code)
    <3>1. PaidStays /\ FilesPlainly
      BY <2>1, PlainFile DEF CallbackUnmatched
    <3> QED
      BY <2>1, <3>1, NothingWritten DEF CallbackUnmatched, Plain, PlainStep
  <2>2. CASE CallbackOtherReceipt(a, code) \/ CallbackBlocked(a, code)
    BY <2>2, ConflictPlain DEF CallbackOtherReceipt, CallbackBlocked, Matched
  <2>3. CASE CallbackReceiptUsed(a)
    BY <2>3, ConflictPlain DEF CallbackReceiptUsed, Matched
  <2>4. CASE CallbackFails(a, code)
    BY <2>4, FailurePlain
  <2>5. CASE CallbackUnverified(a)
    BY <2>5, UnverifiedPlain
  <2>6. CASE CallbackEnriches(a) \/ CallbackSucceeds(a)
    BY <2>6, CallbackCredits
  <2> QED
    BY <1>2, <2>1, <2>2, <2>3, <2>4, <2>5, <2>6 DEF Callback
<1> QED
  BY <1>1, <1>2 DEF Daraja

(***************************************************************************)
(* Requests and operators.                                                 *)
(***************************************************************************)
LEMMA CreatePlain ==
    ASSUME TypeOK, NEW p \in Payments, Create(p)
    PROVE  Plain
<1> DEFINE row == [payment[p] EXCEPT !.status = "pending"]
<1>1. /\ row \in PaymentRows /\ row.status = "pending"
      /\ row.receipt = payment[p].receipt
  BY ZenonT(40) DEF TypeOK, PaymentRows, Statuses
<1>2. payment' = [payment EXCEPT ![p] = row] /\ UNCHANGED <<announced, provider, filed>>
  BY DEF Create
<1> HIDE DEF row
<1> QED
  BY <1>1, <1>2, PlainWrite, NothingFiled DEF Announces, Final, Plain, PlainStep

LEMMA RetryPlain ==
    ASSUME TypeOK, NEW p \in Payments, NEW override, Retry(p, override)
    PROVE  Plain
<1> DEFINE old == payment[p]
           row == [old EXCEPT !.status = "pending", !.checkout = 0, !.due = FALSE,
                              !.acceptance = "not_sent", !.receipt_status = "missing",
                              !.review = "none"]
<1>1. old \in PaymentRows
  BY DEF TypeOK
<1>2. row.status = "pending" /\ row.receipt = old.receipt
  BY <1>1 DEF PaymentRows
<1>3. row \in PaymentRows
  <2>1. 0 \in 0..MaxAttempts /\ FALSE \in BOOLEAN
    BY BoundsAssumption
  <2>2. /\ "pending" \in Statuses /\ "not_sent" \in Acceptances
        /\ "missing" \in ReceiptStates /\ "none" \in Reviews
    BY DEF Statuses, Acceptances, ReceiptStates, Reviews
  <2> QED
    BY <1>1, <2>1, <2>2 DEF PaymentRows
<1>4. payment' = [payment EXCEPT ![p] = row] /\ UNCHANGED <<announced, provider, filed>>
  BY DEF Retry
<1> HIDE DEF row
<1> QED
  BY <1>2, <1>3, <1>4, PlainWrite, NothingFiled DEF Announces, Final, Plain, PlainStep

\* An operator spends a receipt only if no payment holds it, and a failure
\* leaves the receipts alone.
LEMMA LinkEvidence ==
    ASSUME EvidenceInv, NEW p \in Payments, NEW r \in filed, LinkCallback(r, p)
    PROVE  Plain \/ Credited
<1>0. TypeOK /\ RowsSound /\ FiledIsTrue
  BY DEF EvidenceInv, IInv
<1> DEFINE old == payment[p]
           target == LinkTarget(r, p)
           credited == [old EXCEPT !.status = target, !.acceptance = "accepted",
                                   !.review = "resolved", !.receipt = r.of,
                                   !.source = "callback", !.receipt_status = "present"]
           refused == [old EXCEPT !.status = target, !.acceptance = "accepted",
                                  !.review = "resolved",
                                  !.receipt_status = "not_applicable"]
           row == IF target = "success" THEN credited ELSE refused
           linked == [r EXCEPT !.payment = p,
                               !.status = IF target = "success" THEN "processed_success"
                                                                ELSE "processed_failure"]
<1>1. old \in PaymentRows /\ Sound(old) /\ r \in CallbackRows /\ r.of \in Attempts
  BY <1>0 DEF TypeOK, RowsSound, CallbackRows
<1>2. /\ MayLink(r, p) /\ old.status \in Unsettled
      /\ payment' = [payment EXCEPT ![p] = row] /\ Announce(p, target)
      /\ filed' = (filed \ {r}) \cup {linked} \/ filed' = filed \cup {linked}
      /\ UNCHANGED provider
  BY DEF LinkCallback, MayLink
<1>3. /\ target \in {"success", "timeout", "failed"}
      /\ target = "success" <=> r.code = "success"
      /\ r.status = "unmatched"
  BY <1>2 DEF LinkTarget, MayLink
<1>4. /\ linked.of = r.of /\ linked.code = r.code /\ linked.payment = p
      /\ target = "success" => linked.status = "processed_success"
      /\ target # "success" => linked.status = "processed_failure"
  BY <1>1 DEF CallbackRows
<1>5. /\ row \in PaymentRows /\ row.status = target
      /\ target = "success" => row.receipt = r.of
      /\ target # "success" => row.receipt = old.receipt
  <2>1. CASE target = "success"
    BY <1>1, <2>1, ZenonT(40)
       DEF PaymentRows, Acceptances, ReceiptStates, Reviews, Sources, Statuses
  <2>2. CASE target # "success"
    <3>1. target \in Statuses
      BY <1>3 DEF Statuses
    <3> HIDE DEF target
    <3> QED
      BY <1>1, <2>2, <3>1 DEF PaymentRows, Acceptances, ReceiptStates, Reviews
  <2> QED
    BY <2>1, <2>2
<1>6. \A c \in filed \ filed' : c.status # "processed_success"
  BY <1>2, <1>3
<1>7. filed' \subseteq filed \cup {linked} /\ linked \in filed'
  BY <1>2
<1>8. PaidStays
  BY <1>2 DEF PaidStays
<1>9. ASSUME target = "success"
      PROVE  provider[r.of] = "paid" /\ old.receipt = None
             /\ \A q \in Payments \ {p} : payment[q].receipt # r.of
  BY <1>0, <1>1, <1>2, <1>3, <1>9 DEF FiledIsTrue, MayLink, Sound, Evidenced, Unsettled
<1> HIDE DEF row, target, linked
<1>10. Announces(p, row)
  BY <1>2, <1>5 DEF Announces
<1>11. CASE target = "success"
  <2>1. AllTold
    BY <1>0, <1>2, <1>5, <1>10, ToldWrite
  <2>2. /\ payment'[p].receipt = r.of
        /\ \A q \in Payments \ {p} : payment'[q] = payment[q]
    BY <1>0, <1>2, <1>5, <1>11 DEF TypeOK
  <2>3. linked.code = "success" /\ linked.status = "processed_success"
    BY <1>3, <1>4, <1>11
  <2>4. Credit(p, r.of)
    BY <1>2, <1>4, <1>6, <1>7, <1>9, <1>11, <2>2, <2>3 DEF Credit
  <2> QED
    BY <1>1, <2>1, <2>4 DEF Credited
<1>12. CASE target # "success"
  <2>1. FilesPlainly
    BY <1>3, <1>4, <1>6, <1>7, <1>12 DEF FilesPlainly
  <2> QED
    BY <1>0, <1>2, <1>3, <1>5, <1>8, <1>10, <1>12, <2>1, PlainWrite DEF Final, Plain, PlainStep
<1> QED
  BY <1>11, <1>12

LEMMA ReversalPlain ==
    ASSUME TypeOK, NEW p \in Payments, Reverse(p)
    PROVE  Plain
<1> DEFINE row == [payment[p] EXCEPT !.status = "reversed"]
<1>1. /\ row \in PaymentRows /\ row.status = "reversed"
      /\ row.receipt = payment[p].receipt
  BY ZenonT(40) DEF TypeOK, PaymentRows, Statuses
<1>2. /\ payment[p].status = "success" /\ payment' = [payment EXCEPT ![p] = row]
      /\ Announce(p, "reversed") /\ UNCHANGED <<provider, filed>>
  BY DEF Reverse
<1> HIDE DEF row
<1> QED
  BY <1>1, <1>2, PlainWrite, NothingFiled DEF Announces, Final, Plain, PlainStep

LEMMA LeasePlain ==
    ASSUME TypeOK, NEW p \in Payments,
           NEW owner \in Sessions \cup {None}, NEW live \in BOOLEAN,
           payment' = [payment EXCEPT ![p] =
                            [@ EXCEPT !.lease_owner = owner, !.lease_live = live]],
           UNCHANGED <<announced, provider, filed>>
    PROVE  Plain
<1> DEFINE row == [payment[p] EXCEPT !.lease_owner = owner, !.lease_live = live]
<1>1. payment[p] \in PaymentRows
  BY DEF TypeOK
<1>2. /\ row \in PaymentRows /\ row.status = payment[p].status
      /\ row.receipt = payment[p].receipt
  BY <1>1 DEF PaymentRows
<1>3. payment' = [payment EXCEPT ![p] = row]
  OBVIOUS
<1> HIDE DEF row
<1> QED
  BY <1>2, <1>3, PlainWrite, NothingFiled DEF Announces, Plain, PlainStep

(***************************************************************************)
(* Reconciliation.                                                         *)
(***************************************************************************)
LEMMA CheckPlain ==
    ASSUME IInv, NEW s \in Sessions, NEW answer \in Answers, NEW aged \in BOOLEAN,
           ApplyCheck(s, answer, aged)
    PROVE  Plain
<1> USE DEF IInv
<1> DEFINE p == check[s].payment
           n == check[s].checkout
           old == payment[p]
           mid == WithAnswer(old, answer)
           new == Closed(mid, aged)
           target == IF answer = "success" THEN "success"
                                           ELSE FailureTarget(old.status, answer)
           codeHeard == answer \in FailureCodes \cup {"success"}
<1>1. p \in Payments /\ n \in Numbers
  BY DEF ApplyCheck, SessionsNamePayments
<1>2. old \in PaymentRows /\ Sound(old)
  BY <1>1 DEF TypeOK, RowsSound
<1>3. answer # "superseded" => old.status \in Unsettled
  BY DEF ApplyCheck, Superseded
<1>4. /\ RowStep(old, mid)
      /\ answer = "success" => mid.status = "success"
      /\ answer \in FailureCodes => mid.status = FailureTarget(old.status, answer)
      /\ answer \in {"none", "superseded"} => mid.status = old.status
  BY <1>2, <1>3, AnswerStep
<1>5. mid \in PaymentRows /\ new \in PaymentRows
  BY <1>2, WithAnswerType, ClosedType
<1>6. /\ new.receipt = mid.receipt
      /\ \/ new.status = mid.status
         \/ new.status = "unknown" /\ mid.status \in Unsettled
  BY <1>4, <1>5, ClosedStep DEF RowStep
<1>7. mid.receipt = old.receipt
  <2>1. CASE answer \in FailureCodes
    BY <1>2, <2>1 DEF WithAnswer, WithFailure, QueriedSuccess, Unanswered, FailureCodes, PaymentRows
  <2>2. CASE answer \notin FailureCodes
    BY <1>2, <2>2 DEF WithAnswer, QueriedSuccess, Unanswered, PaymentRows
  <2> QED
    BY <2>1, <2>2
<1>8. payment' = [payment EXCEPT ![p] = new] /\ UNCHANGED <<provider, filed>>
  BY DEF ApplyCheck
<1>9. IF codeHeard THEN Announce(p, target)
      ELSE IF new.status # old.status THEN Announce(p, new.status)
      ELSE announced' = announced
  BY DEF ApplyCheck
<1>10. answer = "success" => provider[<<p, n>>] = "paid"
  BY DEF ApplyCheck, MayReport, SuccessCodes
<1>11. answer \in FailureCodes => target \in FailureCodes
  <2>1. old.status \in Statuses
    BY <1>2 DEF PaymentRows
  <2> QED
    BY <2>1, FailureTargetType DEF FailureCodes
<1> HIDE DEF mid, new
<1>12. codeHeard => mid.status = target
  BY <1>4 DEF FailureCodes
<1> HIDE DEF target
<1>13. codeHeard => new.status = target
  <2>1. CASE answer = "success"
    BY <1>4, <1>6, <1>12, <2>1 DEF Unsettled
  <2>2. CASE answer \in FailureCodes
    BY <1>6, <1>11, <1>12, <2>2 DEF Unsettled, FailureCodes
  <2> QED
    BY <2>1, <2>2
<1>14. Announces(p, new)
  BY <1>9, <1>13 DEF Announces
<1>15. new.status \in Final => old.status \in Final \/ PaidItself(p)
  <2>1. CASE answer = "success"
    BY <1>1, <1>10, <2>1 DEF PaidItself
  <2>2. CASE answer \in FailureCodes
    BY <1>11, <1>13, <2>2 DEF Final, FailureCodes
  <2>3. CASE answer \in {"none", "superseded"}
    BY <1>4, <1>6, <2>3 DEF Final
  <2> QED
    BY <2>1, <2>2, <2>3 DEF Answers
<1> QED
  BY <1>1, <1>5, <1>6, <1>7, <1>8, <1>14, <1>15, PlainWrite, NothingFiled
     DEF Plain, PlainStep

LEMMA ReconcilePlain ==
    ASSUME IInv, NEW s \in Sessions, Reconcile(s)
    PROVE  Plain
<1> USE DEF IInv
<1>1. ASSUME NEW p \in Payments, Lease(p, s), UNCHANGED <<announced, provider, filed>>
      PROVE  Plain
  BY <1>1, LeasePlain DEF Lease
<1>2. ASSUME NEW p \in Payments, Claim(s, p)
      PROVE  Plain
  BY <1>1, <1>2 DEF Claim
<1>3. CASE BeginManualCheck(s)
  BY <1>1, <1>3 DEF BeginManualCheck, SessionsNamePayments
<1>4. CASE BeginCheck(s) \/ SkipCheck(s) \/ DropCheck(s) \/ CrashCheck(s)
  BY <1>4, NothingWritten, NothingFiled
     DEF BeginCheck, SkipCheck, DropCheck, CrashCheck, Plain, PlainStep
<1>5. CASE FinishCheck(s)
  BY <1>5, CheckPlain DEF FinishCheck
<1> QED
  BY <1>2, <1>3, <1>4, <1>5 DEF Reconcile

(***************************************************************************)
(* Every step is of one of the two kinds, and tells the merchant.          *)
(***************************************************************************)
LEMMA EveryStep ==
    ASSUME EvidenceInv, Next
    PROVE  Plain \/ Credited
<1> USE DEF EvidenceInv, IInv
<1>1. ASSUME NEW a \in Attempts,
             Daraja(a) \/ Respond(a) \/ CrashSubmission(a) \/ Abandon(a)
      PROVE  Plain \/ Credited
  <2>1. CASE CrashSubmission(a)
    BY <2>1, NothingWritten, NothingFiled DEF CrashSubmission, Plain, PlainStep
  <2>2. CASE Abandon(a)
    BY <2>2, AttemptParts, SetAsidePlain DEF Abandon
  <2> QED
    BY <1>1, <2>1, <2>2, DarajaEvidence, SubmissionPlain
<1>2. ASSUME NEW p \in Payments, Request(p) \/ ExpireLease(p)
      PROVE  Plain \/ Credited
  <2>1. CASE ExpireLease(p)
    <3>1. payment[p].lease_owner \in Sessions \cup {None}
      BY DEF TypeOK, PaymentRows
    <3>2. payment' = [payment EXCEPT ![p] =
                          [@ EXCEPT !.lease_owner = payment[p].lease_owner,
                                    !.lease_live = FALSE]]
      BY <2>1 DEF ExpireLease, TypeOK, PaymentRows
    <3>3. UNCHANGED <<announced, provider, filed>>
      BY <2>1 DEF ExpireLease
    <3> QED
      BY <3>1, <3>2, <3>3, LeasePlain
  <2>2. CASE \E o \in Operators : LoadForManualCheck(o, p)
    BY <2>2, NothingWritten, NothingFiled DEF LoadForManualCheck, Plain, PlainStep
  <2> QED
    BY <1>2, <2>1, <2>2, CreatePlain, RetryPlain, LinkEvidence, ReversalPlain DEF Request
<1> QED
  BY <1>1, <1>2, ReconcilePlain DEF Next

LEMMA EvidenceInvariance == Spec => []EvidenceInv
<1>1. Init => EvidenceInv
  BY InitIInv DEF Init, NewPayment, EvidenceInv, PaymentsEarned, FiledIsTrue, CreditedRows,
                  ReceiptsFiled, ReceiptsSpentOnce, Final
<1>2. EvidenceInv /\ [Next]_vars => EvidenceInv'
  <2> SUFFICES ASSUME EvidenceInv, [Next]_vars PROVE EvidenceInv'
    OBVIOUS
  <2>1. CASE Next
    BY <2>1, EveryStep, PlainKeeps, CreditKeeps DEF Plain, Credited
  <2>2. CASE UNCHANGED vars
    <3>1. IInv'
      BY <2>2, StepIInv DEF EvidenceInv
    <3> QED
      BY <2>2, <3>1 DEF vars, EvidenceInv, PaymentsEarned, PaidItself, FiledIsTrue,
                        CreditedRows, ReceiptsFiled, ReceiptsSpentOnce
  <2> QED
    BY <2>1, <2>2
<1> QED
  BY <1>1, <1>2, PTL DEF Spec

(***************************************************************************)
(* The theorems.                                                           *)
(***************************************************************************)
\* No callback, status check or operator makes a payment successful unless the
\* customer paid for one of its attempts, or for the attempt whose receipt the
\* operator linked.
THEOREM SuccessIsAlwaysPaid == Spec => []SuccessMeansPaid
<1>1. EvidenceInv => SuccessMeansPaid
  <2> SUFFICES ASSUME EvidenceInv, NEW p \in Payments, payment[p].status \in Final,
                      payment[p].receipt # None
               PROVE  provider[payment[p].receipt] = "paid"
    BY DEF EvidenceInv, PaymentsEarned, SuccessMeansPaid, PaidItself, Final
  <2> QED
    BY DEF EvidenceInv, ReceiptsFiled, CreditedRows, FiledIsTrue
<1> QED
  BY <1>1, EvidenceInvariance, PTL

\* A receipt on a payment is money Daraja reported for this payment, and it is
\* spent once, however callbacks, their repetitions and operator links interleave.
THEOREM ReceiptsMatchCallbacks == Spec => []ReceiptMatchesCallback
<1>1. EvidenceInv => ReceiptMatchesCallback
  <2> SUFFICES ASSUME EvidenceInv PROVE ReceiptMatchesCallback
    OBVIOUS
  <2>1. \A p \in Payments : payment[p].receipt # None =>
            provider[payment[p].receipt] = "paid"
    BY DEF EvidenceInv, ReceiptsFiled, CreditedRows, FiledIsTrue
  <2> QED
    BY <2>1 DEF EvidenceInv, ReceiptsFiled, CreditedRows, ReceiptsSpentOnce,
                ReceiptMatchesCallback
<1> QED
  BY <1>1, EvidenceInvariance, PTL

\* A repeated id is forgotten only when the payment is tried again.
LEMMA RepeatedStays ==
    ASSUME TypeOK, Next, NEW p \in Payments, IdRepeated(p)
    PROVE  payment'[p].status = "pending" \/ IdRepeatedNext(p)
<1>1. CASE call' = call
  BY <1>1 DEF IdRepeated, IdRepeatedNext
<1>2. ASSUME NEW a \in Attempts, NEW c, Answered(a, c)
      PROVE  IdRepeatedNext(p)
  <2>1. PICK n \in Numbers : call[<<p, n>>] = "repeated"
    BY DEF IdRepeated
  <2>2. <<p, n>> \in Attempts /\ <<p, n>> # a
    BY <1>2, <2>1 DEF Answered, Attempts
  <2>3. call'[<<p, n>>] = call[<<p, n>>]
    BY <1>2, <2>2 DEF Answered, TypeOK
  <2> QED
    BY <2>1, <2>3 DEF IdRepeatedNext
<1>3. ASSUME NEW q \in Payments, Create(q) \/ \E override \in BOOLEAN : Retry(q, override)
      PROVE  payment'[p].status = "pending" \/ IdRepeatedNext(p)
  <2>1. PICK m \in Numbers : call' = [call EXCEPT ![<<q, m>>] = "sending"]
    <3>1. 1 \in Numbers
      BY BoundsAssumption DEF Numbers
    <3> QED
      BY <1>3, <3>1 DEF Create, Retry
  <2>2. CASE p = q
    <3>1. CASE Create(q)
      BY <2>2, <3>1 DEF Create, TypeOK, PaymentRows
    <3>2. ASSUME NEW override \in BOOLEAN, Retry(q, override)
          PROVE  payment'[q].status = "pending"
      BY <3>2 DEF Retry, TypeOK, PaymentRows
    <3> QED
      BY <1>3, <2>2, <3>1, <3>2
  <2>3. CASE p # q
    <3>1. PICK n \in Numbers : call[<<p, n>>] = "repeated"
      BY DEF IdRepeated
    <3>2. <<p, n>> \in Attempts /\ <<p, n>> # <<q, m>>
      BY <2>3 DEF Attempts
    <3>3. call'[<<p, n>>] = call[<<p, n>>]
      BY <2>1, <3>2 DEF TypeOK
    <3> QED
      BY <3>1, <3>3 DEF IdRepeatedNext
  <2> QED
    BY <2>2, <2>3
<1>4. ASSUME NEW a \in Attempts, Respond(a) \/ CrashSubmission(a)
      PROVE  \E c : Answered(a, c)
  BY <1>4 DEF Respond, CrashSubmission, SubmitRefused, SubmitUncertain, SubmitWithoutCheckout,
     SubmitAccepted, SubmitAborted, SubmitRepeatedId
<1>5. ASSUME NEW a \in Attempts, Daraja(a) \/ Abandon(a)
      PROVE  call' = call
  BY <1>5 DEF Daraja, Transmit, CustomerAnswers, Abandon, Callback, CallbackUnmatched, FlagConflict,
     CallbackReceiptUsed, CallbackOtherReceipt, CallbackBlocked, CallbackEnriches,
     CallbackSucceeds, CallbackUnverified, CallbackFails
<1>6. ASSUME NEW q \in Payments, ExpireLease(q) \/ Reverse(q)
                 \/ (\E r \in filed : LinkCallback(r, q))
                 \/ (\E o \in Operators : LoadForManualCheck(o, q))
      PROVE  call' = call
  BY <1>6 DEF ExpireLease, Reverse, LinkCallback, LoadForManualCheck
<1>7. ASSUME NEW s \in Sessions, Reconcile(s)
      PROVE  call' = call
  BY <1>7 DEF Reconcile, Claim, BeginCheck, BeginManualCheck, Lease, SkipCheck, DropCheck,
     FinishCheck, ApplyCheck, CrashCheck
<1> QED
  BY <1>1, <1>2, <1>3, <1>4, <1>5, <1>6, <1>7 DEF Next, Request

\* The newest event queued for a payment names the state it is in, also after
\* late answers and given-up checks; only the rollback branch for a repeated
\* CheckoutRequestID, which queues no event, leaves a merchant untold.
THEOREM OutcomeIsAlwaysAnnounced == Spec => []OutcomeIsAnnounced
<1>1. Init => OutcomeIsAnnounced
  BY DEF Init, NewPayment, OutcomeIsAnnounced
<1>2. EvidenceInv /\ OutcomeIsAnnounced /\ [Next]_vars => OutcomeIsAnnounced'
  <2> SUFFICES ASSUME EvidenceInv, OutcomeIsAnnounced, [Next]_vars, NEW p \in Payments,
                      payment'[p].status \notin {"absent", "pending"}
               PROVE  \/ announced'[p] = payment'[p].status
                      \/ payment'[p].status = "unknown" /\ IdRepeatedNext(p)
    BY DEF OutcomeIsAnnounced, IdRepeated, IdRepeatedNext
  <2>1. CASE Next
    <3>1. Told(p)
      BY <2>1, EveryStep DEF Plain, Credited, AllTold
    <3>2. CASE announced'[p] = announced[p] /\ payment'[p].status = payment[p].status
      <4>1. IdRepeated(p) => IdRepeatedNext(p)
        BY <2>1, RepeatedStays DEF EvidenceInv, IInv
      <4> QED
        BY <3>2, <4>1 DEF OutcomeIsAnnounced
    <3> QED
      BY <3>1, <3>2 DEF Told
  <2>2. CASE UNCHANGED vars
    BY <2>2 DEF vars, OutcomeIsAnnounced, IdRepeated, IdRepeatedNext
  <2> QED
    BY <2>1, <2>2
<1> QED
  BY <1>1, <1>2, EvidenceInvariance, PTL DEF Spec

\* The sizes that TLC checks together in MCStkReconcile take steps of
\* StkPayments alone, so every theorem about Spec holds of them as well.
THEOREM SizesAreInstances == SizedSpec => Spec
<1>1. SizedInit => Init
  BY DEF SizedInit
<1>2. ASSUME focus \in DOMAIN Sizes, [SizedNext]_<<focus, vars>>
      PROVE  (focus \in DOMAIN Sizes)' /\ [Next]_vars
  <2>1. CASE UNCHANGED <<focus, vars>>
    BY <1>2, <2>1 DEF Sizes
  <2>2. CASE SizedNext
    <3> DEFINE size == Sizes[focus]
    <3>1. /\ (focus \in DOMAIN Sizes)'
          /\ \/ \E a \in size.attempts : OfAttempt(a, size.codes)
             \/ \E p \in {PaymentOf(a) : a \in size.attempts} :
                   OfPayment(p, size.attempts, size.sessions)
             \/ \E s \in size.sessions : OfSession(s, size.codes)
      BY <1>2, <2>2 DEF SizedNext, Sizes
    <3>2. /\ size.attempts \subseteq Attempts
          /\ size.sessions \subseteq Sessions
          /\ size.codes \subseteq Codes
      <4>1. 1 \in Numbers /\ 2 \in Numbers
        BY SizesAssumption, BoundsAssumption DEF Numbers
      <4>2. focus = "checks" \/ focus = "retries" \/ focus = "links"
        BY <1>2 DEF Sizes
      <4> QED
        BY <4>1, <4>2, SizesAssumption
           DEF Sizes, Attempts, Sessions, Codes, SuccessCodes, FailureCodes
    <3>3. {PaymentOf(a) : a \in size.attempts} \subseteq Payments
      BY <3>2 DEF Attempts, PaymentOf
    <3>4. CASE \E a \in size.attempts : OfAttempt(a, size.codes)
      BY <3>1, <3>2, <3>4 DEF OfAttempt, Next, Daraja
    <3>5. CASE \E p \in {PaymentOf(a) : a \in size.attempts} :
                  OfPayment(p, size.attempts, size.sessions)
      <4> PICK p \in Payments : OfPayment(p, size.attempts, size.sessions)
        BY <3>3, <3>5
      <4>1. Request(p) \/ ExpireLease(p)
        BY DEF OfPayment, Request
      <4> QED
        BY <3>1, <4>1 DEF Next
    <3>6. CASE \E s \in size.sessions : OfSession(s, size.codes)
      <4> PICK s \in Sessions : OfSession(s, size.codes)
        BY <3>2, <3>6
      <4>1. Reconcile(s)
        BY DEF OfSession, Reconcile, FinishCheck
      <4> QED
        BY <3>1, <4>1 DEF Next
    <3> QED
      BY <3>1, <3>4, <3>5, <3>6
  <2> QED
    BY <1>2, <2>1, <2>2
<1>3. SizedInit => focus \in DOMAIN Sizes
  BY DEF SizedInit
<1> QED
  BY <1>1, <1>2, <1>3, PTL DEF SizedSpec, Spec

=============================================================================
