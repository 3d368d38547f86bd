-------------------------- MODULE StkPromptProofs --------------------------
(***************************************************************************)
(* Proofs that relate the payment rows to the ledger, and both to what the *)
(* customer sees: the ledger is complete, and Daraja shows no second prompt*)
(* for a payment unless an administrator took the responsibility.          *)
(***************************************************************************)
EXTENDS StkPaymentsProofs

(***************************************************************************)
(* The ledger.                                                             *)
(***************************************************************************)
Extends(new, old) ==
    /\ Len(new) >= Len(old)
    /\ \A i \in DOMAIN old : new[i] = old[i]

AbsentHasNoLedger ==
    \A p \in Payments : payment[p].status = "absent" => ledger[p] = <<>>

Explained(p) ==
    /\ Extends(ledger'[p], ledger[p])
    /\ payment[p].status # "absent" /\ payment'[p].status # payment[p].status =>
          \E i \in DOMAIN ledger'[p] :
            /\ i > Len(ledger[p])
            /\ ledger'[p][i] = Row(payment[p].status, payment'[p].status)

LEMMA LedgerStep ==
    ASSUME IInv, AbsentHasNoLedger, Next
    PROVE  (\A p \in Payments : Explained(p)) /\ AbsentHasNoLedger'
<1> USE DEF IInv
<1>0. \A p \in Payments : Extends(ledger[p], ledger[p])
  BY DEF Extends, TypeOK
<1>1. CASE Effect
  <2>1. PICK p \in Payments, row \in PaymentRows : Writes(p, row)
    BY <1>1 DEF Effect
  <2>2. /\ payment' = [payment EXCEPT ![p] = row]
        /\ payment'[p] = row
        /\ \A q \in Payments \ {p} : payment'[q] = payment[q]
    BY <2>1 DEF Writes, TypeOK
  <2>3. CASE ledger' = ledger /\ row.status = payment[p].status
    BY <1>0, <2>2, <2>3 DEF Explained, AbsentHasNoLedger
  <2>4. ASSUME NEW f \in Statuses, Record(p, f, row.status), row.status # "absent",
               row.status # payment[p].status => f = payment[p].status
        PROVE  (\A q \in Payments : Explained(q)) /\ AbsentHasNoLedger'
    <3> DEFINE old == ledger[p]
               new == Append(old, Row(f, row.status))
    <3>1. old \in Seq(LedgerRows) /\ Row(f, row.status) \in LedgerRows
      BY DEF TypeOK, Row, LedgerRows, PaymentRows
    <3>2. /\ ledger'[p] = new
          /\ \A q \in Payments \ {p} : ledger'[q] = ledger[q]
      BY <2>4 DEF Record, TypeOK
    <3>3. /\ Len(new) = Len(old) + 1 /\ DOMAIN new = 1..Len(new)
          /\ new[Len(old) + 1] = Row(f, row.status)
          /\ Extends(new, old)
      BY <3>1 DEF Extends
    <3>4. Len(old) \in Nat
      BY <3>1
    <3>5. Explained(p)
      <4>1. Len(old) + 1 \in DOMAIN new /\ Len(old) + 1 > Len(old)
        BY <3>3, <3>4
      <4> HIDE DEF new
      <4> QED
        BY <2>2, <2>4, <3>2, <3>3, <4>1 DEF Explained
    <3>6. \A q \in Payments \ {p} : Explained(q)
      BY <1>0, <2>2, <3>2 DEF Explained
    <3>7. AbsentHasNoLedger'
      BY <2>2, <2>4, <3>2 DEF AbsentHasNoLedger
    <3> QED
      BY <3>5, <3>6, <3>7
  <2> QED
    BY <2>1, <2>3, <2>4 DEF Writes, Ledgered
<1>2. CASE NoEffect
  BY <1>0, <1>2 DEF NoEffect, Explained, AbsentHasNoLedger
<1>3. ASSUME NEW p \in Payments, Create(p)
      PROVE  (\A q \in Payments : Explained(q)) /\ AbsentHasNoLedger'
  <2>1. /\ payment[p].status = "absent" /\ ledger[p] = <<>>
        /\ payment'[p].status = "pending"
        /\ \A q \in Payments \ {p} : payment'[q] = payment[q] /\ ledger'[q] = ledger[q]
        /\ ledger'[p] = <<Row("absent", "created"), Row("created", "pending")>>
    BY <1>3 DEF Create, AbsentHasNoLedger, TypeOK, PaymentRows
  <2>2. Explained(p)
    BY <2>1 DEF Explained, Extends
  <2> QED
    BY <1>0, <2>1, <2>2 DEF Explained, AbsentHasNoLedger
<1> QED
  BY <1>1, <1>2, <1>3, NextEffect

LEMMA LedgerInvariance == Spec => [](IInv /\ AbsentHasNoLedger)
<1>1. Init => AbsentHasNoLedger
  BY DEF Init, AbsentHasNoLedger
<1>2. IInv /\ AbsentHasNoLedger /\ [Next]_vars => AbsentHasNoLedger'
  BY LedgerStep DEF vars, AbsentHasNoLedger
<1> QED
  BY <1>1, <1>2, Invariance, PTL DEF Spec

\* The ledger is append-only and complete: every change of a status, also one
\* committed from a stale copy, has a row that leaves the state the database
\* held for the state the database now holds.
THEOREM LedgerIsComplete == Spec => ChangesAreLedgered
<1> DEFINE Step == \A p \in Payments :
                /\ Len(ledger'[p]) >= Len(ledger[p])
                /\ \A i \in DOMAIN ledger[p] : ledger'[p][i] = ledger[p][i]
                /\ payment[p].status # "absent" /\ payment'[p].status # payment[p].status =>
                      \E i \in DOMAIN ledger'[p] :
                        /\ i > Len(ledger[p])
                        /\ ledger'[p][i] = Row(payment[p].status, payment'[p].status)
<1>1. IInv /\ AbsentHasNoLedger /\ [Next]_vars => [Step]_vars
  BY LedgerStep DEF Explained, Extends
<1>2. ChangesAreLedgered <=> [][Step]_vars
  BY DEF ChangesAreLedgered
<1> HIDE DEF Step
<1> QED
  BY <1>1, <1>2, LedgerInvariance, PTL DEF Spec

(***************************************************************************)
(* The prompts.  An attempt is live while Daraja has shown its prompt or a *)
(* request for it may still arrive there.  The invariant behind            *)
(* SecondPromptNeedsOverride: without an override a payment has one live   *)
(* attempt at most, and none when its row says that Daraja rejected it,    *)
(* which is what lets the ordinary retry start another.                    *)
(***************************************************************************)
Live(a) == provider[a] # "none" \/ call[a] \in {"sending", "lost"}

OneLiveAttempt ==
    \A p \in Payments : \A m, n \in Numbers :
        Live(<<p, m>>) /\ Live(<<p, n>>) => m = n \/ Overridden(p)

RejectedIsDead ==
    \A p \in Payments : payment[p].acceptance = "rejected" =>
        Overridden(p) \/ \A n \in Numbers : ~Live(<<p, n>>)

AbsentIsFresh ==
    \A p \in Payments : payment[p].status = "absent" =>
        /\ payment[p].acceptance # "rejected"
        /\ \A n \in Numbers : ~Live(<<p, n>>)

PromptInv ==
    /\ IInv
    /\ AbsentHasNoLedger
    /\ OneLiveAttempt
    /\ RejectedIsDead
    /\ AbsentIsFresh

\* Most actions bring no attempt to life and do not claim a rejection.
QuietFor(p) == payment'[p].acceptance = "rejected" => payment[p].acceptance = "rejected"

Quiet ==
    /\ \A a \in Attempts : Live(a)' => Live(a)
    /\ \A p \in Payments : QuietFor(p)

LEMMA PairIsAttempt ==
    ASSUME NEW p \in Payments, NEW n \in Numbers
    PROVE  <<p, n>> \in Attempts
BY DEF Attempts

LEMMA OverriddenStays ==
    ASSUME IInv, AbsentHasNoLedger, Next, NEW p \in Payments, Overridden(p)
    PROVE  Overridden(p)'
<1>1. Extends(ledger'[p], ledger[p])
  BY LedgerStep DEF Explained
<1>2. ledger[p] \in Seq(LedgerRows) /\ ledger'[p] \in Seq(LedgerRows)
  BY RowsStep DEF IInv, TypeOK
<1>3. PICK i \in DOMAIN ledger[p] :
          ledger[p][i].from \in {"timeout", "unknown"} /\ ledger[p][i].to = "pending"
  BY DEF Overridden
<1>4. i \in DOMAIN ledger'[p] /\ ledger'[p][i] = ledger[p][i]
  BY <1>1, <1>2, <1>3 DEF Extends
<1> QED
  BY <1>3, <1>4 DEF Overridden

LEMMA StillPresent ==
    ASSUME IInv, Next, NEW p \in Payments, payment'[p].status = "absent"
    PROVE  payment[p].status = "absent"
<1>1. MachineStep(payment[p].status, "absent") /\ payment[p].status \in Statuses
  BY RowsStep DEF RowStep, IInv, TypeOK, PaymentRows
<1> QED
  BY <1>1 DEF MachineStep, Allowed, Statuses

LEMMA QuietStep ==
    ASSUME PromptInv, Next, Quiet
    PROVE  PromptInv'
<1>1. IInv' /\ AbsentHasNoLedger'
  BY StepIInv, LedgerStep DEF PromptInv
<1>2. \A p \in Payments : Overridden(p) => Overridden(p)'
  BY OverriddenStays DEF PromptInv
<1>3. \A p \in Payments, n \in Numbers : Live(<<p, n>>)' => Live(<<p, n>>)
  BY PairIsAttempt DEF Quiet
<1>4. OneLiveAttempt'
  BY <1>2, <1>3 DEF PromptInv, OneLiveAttempt
<1>5. RejectedIsDead'
  BY <1>2, <1>3 DEF PromptInv, RejectedIsDead, Quiet, QuietFor
<1>6. AbsentIsFresh'
  BY <1>3, StillPresent DEF PromptInv, AbsentIsFresh, Quiet, QuietFor
<1> QED
  BY <1>1, <1>4, <1>5, <1>6 DEF PromptInv

\* A write that keeps an acceptance, or sets another than "rejected", is quiet.
LEMMA QuietWrite ==
    ASSUME TypeOK, NEW q \in Payments, NEW row \in PaymentRows,
           payment' = [payment EXCEPT ![q] = row],
           row.acceptance = "rejected" => payment[q].acceptance = "rejected",
           \A a \in Attempts : Live(a)' => Live(a)
    PROVE  Quiet
<1>1. \A p \in Payments : payment'[p] = IF p = q THEN row ELSE payment[p]
  BY DEF TypeOK
<1> QED
  BY <1>1 DEF Quiet, QuietFor

LEMMA SameLives ==
    ASSUME UNCHANGED <<call, provider>>
    PROVE  \A a \in Attempts : Live(a)' => Live(a)
BY DEF Live

LEMMA AnsweredLives ==
    ASSUME TypeOK, NEW a \in Attempts, NEW c \in CallStates, Answered(a, c),
           provider' = provider
    PROVE  \A b \in Attempts : Live(b)' => Live(b)
BY DEF Live, Answered, TypeOK

(***************************************************************************)
(* The quiet actions.                                                      *)
(***************************************************************************)
LEMMA CommitQuiet ==
    ASSUME TypeOK, NEW a \in Attempts, NEW target, NEW row \in PaymentRows, NEW att,
           NEW c \in CallStates, Answered(a, c), CommitStale(a, target, row, att),
           row.acceptance # "rejected"
    PROVE  Quiet
<1>1. PaymentOf(a) \in Payments
  BY AttemptParts
<1>2. payment' = [payment EXCEPT ![PaymentOf(a)] = row] /\ provider' = provider
  BY DEF CommitStale
<1>3. \A b \in Attempts : Live(b)' => Live(b)
  BY <1>2, AnsweredLives
<1> QED
  BY <1>1, <1>2, <1>3, QuietWrite

LEMMA SetAsideQuiet ==
    ASSUME TypeOK, NEW p \in Payments, SetAside(p), \A a \in Attempts : Live(a)' => Live(a)
    PROVE  Quiet
<1> DEFINE row == [payment[p] EXCEPT
                     !.status = IF payment[p].status = "pending" THEN "unknown"
                                                                 ELSE payment[p].status,
                     !.acceptance = "uncertain", !.review = "needs_review"]
<1>1. row \in PaymentRows /\ row.acceptance = "uncertain"
  <2>1. payment[p] \in PaymentRows
    BY DEF TypeOK
  <2> QED
    BY <2>1, ZenonT(40) DEF PaymentRows, Acceptances, Reviews, Statuses
<1>2. payment' = [payment EXCEPT ![p] = row]
  BY DEF SetAside
<1> HIDE DEF row
<1> QED
  BY <1>1, <1>2, QuietWrite

LEMMA SubmissionQuiet ==
    ASSUME TypeOK, NEW a \in Attempts, Respond(a),
           \A outcome \in {"not_sent", "rejected"} : ~SubmitRefused(a, outcome)
    PROVE  Quiet
<1> DEFINE p == PaymentOf(a)
<1>1. p \in Payments /\ payment[p] \in PaymentRows
  BY AttemptParts DEF TypeOK
<1>2. "done" \in CallStates /\ "lost" \in CallStates /\ "repeated" \in CallStates
  BY DEF CallStates
<1>3. ASSUME RecordUncertain(a), Answered(a, "lost") \/ Answered(a, "done")
      PROVE  Quiet
  <2> DEFINE row == [payment[p] EXCEPT !.status = "unknown", !.acceptance = "uncertain",
                                       !.review = "needs_review"]
  <2>1. row \in PaymentRows /\ row.acceptance # "rejected"
    BY <1>1 DEF PaymentRows, Acceptances, Reviews, Statuses
  <2>2. CommitStale(a, "unknown", row, [attempt[a] EXCEPT !.status = "uncertain"])
    BY <1>3 DEF RecordUncertain
  <2> QED
    BY <1>2, <1>3, <2>1, <2>2, CommitQuiet
<1>4. ASSUME SubmitAccepted(a)
      PROVE  Quiet
  <2> DEFINE row == [payment[p] EXCEPT !.status = "stk_sent", !.checkout = NumberOf(a),
                                       !.acceptance = "accepted", !.due = TRUE]
  <2>1. row \in PaymentRows /\ row.acceptance # "rejected"
    BY <1>1, AttemptParts DEF PaymentRows, Acceptances, Statuses
  <2>2. CommitStale(a, "stk_sent", row, [status |-> "accepted", known |-> TRUE])
    BY <1>4 DEF SubmitAccepted
  <2> QED
    BY <1>2, <1>4, <2>1, <2>2, CommitQuiet DEF SubmitAccepted
<1>5. ASSUME SubmitRepeatedId(a)
      PROVE  Quiet
  <2>1. \A b \in Attempts : Live(b)' => Live(b)
    BY <1>2, <1>5, AnsweredLives DEF SubmitRepeatedId
  <2> QED
    BY <1>1, <1>5, <2>1, SetAsideQuiet DEF SubmitRepeatedId
<1>6. ASSUME NEW target, SubmitAborted(a, target)
      PROVE  Quiet
  <2>1. \A b \in Attempts : Live(b)' => Live(b)
    BY <1>2, <1>6, AnsweredLives DEF SubmitAborted
  <2> QED
    BY <1>6, <2>1 DEF SubmitAborted, Quiet, QuietFor
<1> QED
  BY <1>3, <1>4, <1>5, <1>6 DEF Respond, SubmitUncertain, SubmitWithoutCheckout

LEMMA FailureAcceptance ==
    ASSUME NEW row \in PaymentRows, NEW target, NEW code
    PROVE  WithFailure(row, target, code).acceptance = "accepted"
BY DEF WithFailure, PaymentRows

LEMMA DarajaQuiet ==
    ASSUME TypeOK, NEW a \in Attempts, Daraja(a)
    PROVE  Quiet
<1> DEFINE p == PaymentOf(a)
           old == payment[p]
<1>1. p \in Payments /\ old \in PaymentRows
  BY AttemptParts DEF TypeOK
<1>2. CASE Transmit(a) \/ \E answer \in {"paid", "declined"} : CustomerAnswers(a, answer)
  <2>1. \A b \in Attempts : Live(b)' => Live(b)
    BY <1>2 DEF Transmit, CustomerAnswers, Live, TypeOK
  <2> QED
    BY <1>2, <2>1 DEF Transmit, CustomerAnswers, Quiet, QuietFor
<1>3. ASSUME NEW code \in Codes, Callback(a, code)
      PROVE  Quiet
  <2>1. \A b \in Attempts : Live(b)' => Live(b)
    BY <1>3, SameLives
       DEF Callback, CallbackUnmatched, CallbackOtherReceipt, CallbackBlocked,
           CallbackReceiptUsed, FlagConflict, CallbackFails, CallbackEnriches,
           CallbackSucceeds, CallbackUnverified
  <2>2. ASSUME UNCHANGED payment
        PROVE  Quiet
    BY <2>1, <2>2 DEF Quiet, QuietFor
  <2>3. CASE FlagConflict(a, code)
    <3> DEFINE row == [old EXCEPT !.review = "needs_review"]
    <3>1. row \in PaymentRows /\ row.acceptance = old.acceptance
      BY <1>1 DEF PaymentRows, Reviews
    <3>2. payment' = [payment EXCEPT ![p] = row]
      BY <2>3 DEF FlagConflict
    <3> QED
      BY <1>1, <2>1, <3>1, <3>2, QuietWrite
  <2>4. CASE CallbackEnriches(a)
    <3> DEFINE row == [old EXCEPT !.receipt = a, !.source = "callback",
                                  !.receipt_status = "enriched_later",
                                  !.review = "resolved", !.acceptance = "accepted"]
    <3>1. row \in PaymentRows /\ row.acceptance = "accepted"
      BY <1>1 DEF PaymentRows, Acceptances, ReceiptStates, Reviews, Sources
    <3>2. payment' = [payment EXCEPT ![p] = row]
      BY <2>4 DEF CallbackEnriches
    <3> QED
      BY <1>1, <2>1, <3>1, <3>2, QuietWrite
  <2>5. CASE CallbackSucceeds(a)
    <3> DEFINE row == [old EXCEPT !.status = "success", !.receipt = a,
                                  !.source = "callback", !.receipt_status = "present",
                                  !.review = "none", !.acceptance = "accepted"]
    <3>1. row \in PaymentRows /\ row.acceptance = "accepted"
      BY <1>1, ZenonT(40) DEF PaymentRows, Acceptances, ReceiptStates, Reviews, Sources, Statuses
    <3>2. payment' = [payment EXCEPT ![p] = row]
      BY <2>5 DEF CallbackSucceeds
    <3> QED
      BY <1>1, <2>1, <3>1, <3>2, QuietWrite
  <2>6. CASE CallbackUnverified(a)
    <3> DEFINE row == [old EXCEPT
                         !.status = IF old.status = "stk_sent" THEN "unknown" ELSE old.status,
                         !.review = "needs_review", !.acceptance = "accepted"]
    <3>1. row \in PaymentRows /\ row.acceptance = "accepted"
      BY <1>1 DEF PaymentRows, Acceptances, Reviews, Statuses
    <3>2. payment' = payment \/ payment' = [payment EXCEPT ![p] = row]
      BY <2>6 DEF CallbackUnverified
    <3> HIDE DEF row
    <3> QED
      BY <1>1, <2>1, <2>2, <3>1, <3>2, QuietWrite
  <2>7. CASE CallbackFails(a, code)
    <3> DEFINE target == FailureTarget(old.status, code)
               row == WithFailure(old, target, code)
    <3>1. row.acceptance = "accepted"
      BY <1>1, FailureAcceptance
    <3>2. row \in PaymentRows
      <4>1. target \in Statuses
        BY <1>1, <2>7, FailureTargetType
           DEF CallbackFails, FailureCodes, PaymentRows, Statuses
      <4> QED
        BY <1>1, <4>1, WithFailureType
    <3>3. payment' = [payment EXCEPT ![p] = row]
      BY <2>7 DEF CallbackFails
    <3> HIDE DEF row
    <3> QED
      BY <1>1, <2>1, <3>1, <3>2, <3>3, QuietWrite
  <2> QED
    BY <1>3, <2>2, <2>3, <2>4, <2>5, <2>6, <2>7
       DEF Callback, CallbackUnmatched, CallbackOtherReceipt, CallbackBlocked,
           CallbackReceiptUsed
<1> QED
  BY <1>2, <1>3 DEF Daraja

LEMMA LinkQuiet ==
    ASSUME TypeOK, NEW p \in Payments, NEW r \in filed, LinkCallback(r, p)
    PROVE  Quiet
<1> DEFINE old == payment[p]
           target == LinkTarget(r, p)
           credited == [old EXCEPT !.status = target, !.acceptance = "accepted",
                                   !.review = "resolved", !.receipt = r.of,
                                   !.source = "callback", !.receipt_status = "present"]
           refused == [old EXCEPT !.status = target, !.acceptance = "accepted",
                                  !.review = "resolved",
                                  !.receipt_status = "not_applicable"]
           row == IF target = "success" THEN credited ELSE refused
<1>1. old \in PaymentRows /\ r.of \in Attempts
  BY DEF TypeOK, CallbackRows
<1>2. target \in Statuses
  BY DEF LinkTarget, Statuses
<1>3. payment' = [payment EXCEPT ![p] = row]
  BY DEF LinkCallback
<1>4. row \in PaymentRows /\ row.acceptance = "accepted"
  <2> HIDE DEF target
  <2> QED
    BY <1>1, <1>2 DEF PaymentRows, Acceptances, ReceiptStates, Reviews, Sources
<1>5. \A a \in Attempts : Live(a)' => Live(a)
  BY SameLives DEF LinkCallback
<1> HIDE DEF row
<1> QED
  BY <1>3, <1>4, <1>5, QuietWrite

LEMMA LeaseQuiet ==
    ASSUME TypeOK, NEW p \in Payments,
           NEW owner \in Sessions \cup {None}, NEW live \in BOOLEAN,
           payment' = [payment EXCEPT ![p] =
                            [@ EXCEPT !.lease_owner = owner, !.lease_live = live]],
           UNCHANGED <<call, provider>>
    PROVE  Quiet
<1> DEFINE row == [payment[p] EXCEPT !.lease_owner = owner, !.lease_live = live]
<1>1. payment[p] \in PaymentRows
  BY DEF TypeOK
<1>2. row \in PaymentRows /\ row.acceptance = payment[p].acceptance
  BY <1>1 DEF PaymentRows
<1>3. payment' = [payment EXCEPT ![p] = row]
  OBVIOUS
<1>4. \A a \in Attempts : Live(a)' => Live(a)
  BY SameLives
<1> HIDE DEF row
<1> QED
  BY <1>2, <1>3, <1>4, QuietWrite

LEMMA CheckQuiet ==
    ASSUME TypeOK, SessionsNamePayments, NEW s \in Sessions, NEW answer \in Answers,
           NEW aged \in BOOLEAN, ApplyCheck(s, answer, aged)
    PROVE  Quiet
<1> DEFINE p == check[s].payment
           old == payment[p]
           mid == WithAnswer(old, answer)
           new == Closed(mid, aged)
<1>1. p \in Payments
  BY DEF ApplyCheck, SessionsNamePayments
<1>2. old \in PaymentRows
  BY <1>1 DEF TypeOK
<1>3. mid \in PaymentRows /\ new \in PaymentRows
  BY <1>2, WithAnswerType, ClosedType
<1>4. mid.acceptance \in {"accepted", "uncertain", old.acceptance}
  <2>1. CASE answer \in FailureCodes
    BY <1>2, <2>1, FailureAcceptance DEF WithAnswer, QueriedSuccess, Unanswered, FailureCodes
  <2>2. CASE answer \notin FailureCodes
    BY <1>2, <2>2 DEF WithAnswer, QueriedSuccess, Unanswered, PaymentRows
  <2> QED
    BY <2>1, <2>2
<1>5. new.acceptance = mid.acceptance
  BY <1>3 DEF Closed, PaymentRows
<1>6. payment' = [payment EXCEPT ![p] = new]
  BY DEF ApplyCheck
<1>7. \A a \in Attempts : Live(a)' => Live(a)
  BY SameLives DEF ApplyCheck
<1> HIDE DEF mid, new
<1> QED
  BY <1>1, <1>3, <1>4, <1>5, <1>6, <1>7, QuietWrite

LEMMA ReconcileQuiet ==
    ASSUME TypeOK, SessionsNamePayments, NEW s \in Sessions, Reconcile(s)
    PROVE  Quiet
<1>1. ASSUME NEW p \in Payments, Lease(p, s), UNCHANGED <<call, provider>>
      PROVE  Quiet
  BY <1>1, LeaseQuiet DEF Lease
<1>2. ASSUME NEW p \in Payments, Claim(s, p)
      PROVE  Quiet
  BY <1>1, <1>2 DEF Claim
<1>3. CASE BeginManualCheck(s)
  BY <1>1, <1>3 DEF BeginManualCheck, SessionsNamePayments
<1>4. CASE BeginCheck(s) \/ SkipCheck(s) \/ DropCheck(s) \/ CrashCheck(s)
  BY <1>4 DEF BeginCheck, SkipCheck, DropCheck, CrashCheck, Quiet, QuietFor, Live
<1>5. CASE FinishCheck(s)
  BY <1>5, CheckQuiet DEF FinishCheck
<1> QED
  BY <1>2, <1>3, <1>4, <1>5 DEF Reconcile

LEMMA ReversalQuiet ==
    ASSUME TypeOK, NEW p \in Payments, Reverse(p)
    PROVE  Quiet
<1> DEFINE row == [payment[p] EXCEPT !.status = "reversed"]
<1>1. payment[p] \in PaymentRows
  BY DEF TypeOK
<1>2. row \in PaymentRows /\ row.acceptance = payment[p].acceptance
  BY <1>1 DEF PaymentRows, Statuses
<1>3. payment' = [payment EXCEPT ![p] = row]
  BY DEF Reverse
<1>4. \A a \in Attempts : Live(a)' => Live(a)
  BY SameLives DEF Reverse
<1> HIDE DEF row
<1> QED
  BY <1>2, <1>3, <1>4, QuietWrite

(***************************************************************************)
(* The three actions that are not quiet.                                   *)
(***************************************************************************)
\* The first prompt: nothing was live before.
LEMMA CreateKeepsPrompts ==
    ASSUME PromptInv, Next, NEW p \in Payments, Create(p)
    PROVE  PromptInv'
<1> USE DEF PromptInv, IInv
<1>1. IInv' /\ AbsentHasNoLedger'
  BY StepIInv, LedgerStep
<1>2. /\ payment[p].status = "absent" /\ payment[p].acceptance # "rejected"
      /\ \A n \in Numbers : ~Live(<<p, n>>)
  BY DEF Create, AbsentIsFresh
<1>3. \A q \in Payments : Overridden(q) => Overridden(q)'
  BY OverriddenStays
<1>4. /\ payment'[p].status = "pending" /\ payment'[p].acceptance = payment[p].acceptance
      /\ \A q \in Payments \ {p} : payment'[q] = payment[q]
  BY DEF Create, TypeOK, PaymentRows
<1>5. \A q \in Payments, n \in Numbers :
          Live(<<q, n>>)' => Live(<<q, n>>) \/ (q = p /\ n = 1)
  BY PairIsAttempt DEF Create, TypeOK, Live
<1>6. OneLiveAttempt'
  BY <1>2, <1>3, <1>5 DEF OneLiveAttempt
<1>7. RejectedIsDead'
  BY <1>2, <1>3, <1>4, <1>5 DEF RejectedIsDead
<1>8. AbsentIsFresh'
  BY <1>4, <1>5 DEF AbsentIsFresh
<1> QED
  BY <1>1, <1>6, <1>7, <1>8

\* A retry: nothing is live after a rejection, and any other retry leaves its
\* override in the ledger.
LEMMA RetryKeepsPrompts ==
    ASSUME PromptInv, Next, NEW p \in Payments, NEW override \in BOOLEAN, Retry(p, override)
    PROVE  PromptInv'
<1> USE DEF PromptInv, IInv
<1> DEFINE k == NextNumber(p)
<1>1. IInv' /\ AbsentHasNoLedger'
  BY StepIInv, LedgerStep
<1>2. \A q \in Payments : Overridden(q) => Overridden(q)'
  BY OverriddenStays
<1>3. k \in Numbers
  BY DEF Retry
<1>4. /\ payment'[p].status = "pending" /\ payment'[p].acceptance = "not_sent"
      /\ \A q \in Payments \ {p} : payment'[q] = payment[q]
  BY DEF Retry, TypeOK, PaymentRows
<1>5. \A q \in Payments, n \in Numbers :
          Live(<<q, n>>)' => Live(<<q, n>>) \/ (q = p /\ n = k)
  <2>1. call' = [call EXCEPT ![<<p, k>>] = "sending"] /\ provider' = provider
    BY DEF Retry
  <2> HIDE DEF k
  <2> QED
    BY <2>1, PairIsAttempt DEF TypeOK, Live
<1>6. Overridden(p)' \/ \A n \in Numbers : ~Live(<<p, n>>)
  <2>1. CASE payment[p].status = "failed"
    BY <1>2, <2>1 DEF Retry, MayRetry, RejectedIsDead
  <2>2. CASE payment[p].status \in {"timeout", "unknown"}
    <3> DEFINE new == Append(ledger[p], Row(payment[p].status, "pending"))
               i == Len(ledger[p]) + 1
    <3>1. /\ ledger[p] \in Seq(LedgerRows)
          /\ Row(payment[p].status, "pending") \in LedgerRows
      BY DEF TypeOK, PaymentRows, Row, LedgerRows, Statuses
    <3>2. ledger'[p] = new
      BY DEF Retry, Record, TypeOK
    <3>3. i \in DOMAIN new /\ new[i] = Row(payment[p].status, "pending")
      BY <3>1
    <3> HIDE DEF new, i
    <3> QED
      BY <2>2, <3>2, <3>3 DEF Overridden, Row
  <2> QED
    BY <2>1, <2>2 DEF Retry, MayRetry, RetryableStates
<1> HIDE DEF k
<1>7. OneLiveAttempt'
  BY <1>2, <1>5, <1>6 DEF OneLiveAttempt
<1>8. RejectedIsDead'
  BY <1>2, <1>4, <1>5 DEF RejectedIsDead
<1>9. AbsentIsFresh'
  BY <1>4, <1>5 DEF AbsentIsFresh
<1> QED
  BY <1>1, <1>7, <1>8, <1>9

\* A rejection: the one live attempt is the rejected one, and it dies.
LEMMA RefusalKeepsPrompts ==
    ASSUME PromptInv, Next, NEW a \in Attempts, NEW outcome, SubmitRefused(a, outcome)
    PROVE  PromptInv'
<1> USE DEF PromptInv, IInv
<1> DEFINE p == PaymentOf(a)
<1>1. IInv' /\ AbsentHasNoLedger'
  BY StepIInv, LedgerStep
<1>2. \A q \in Payments : Overridden(q) => Overridden(q)'
  BY OverriddenStays
<1>3. p \in Payments /\ NumberOf(a) \in Numbers /\ a = <<p, NumberOf(a)>>
  BY AttemptParts
<1>4. /\ payment'[p].status = "failed"
      /\ \A q \in Payments \ {p} : payment'[q] = payment[q]
  BY <1>3 DEF SubmitRefused, CommitStale, TypeOK, PaymentRows
<1>5. Live(a) /\ ~Live(a)'
  BY DEF SubmitRefused, CommitStale, Answered, Live, TypeOK
<1>6. \A b \in Attempts : Live(b)' => Live(b)
  BY DEF SubmitRefused, CommitStale, Answered, Live, TypeOK
<1>7. \A q \in Payments, n \in Numbers : Live(<<q, n>>)' => Live(<<q, n>>)
  BY <1>6, PairIsAttempt
<1>8. Overridden(p) \/ \A n \in Numbers : ~Live(<<p, n>>)'
  BY <1>3, <1>5, <1>7 DEF OneLiveAttempt
<1> HIDE DEF p
<1>9. OneLiveAttempt'
  BY <1>2, <1>7 DEF OneLiveAttempt
<1>10. RejectedIsDead'
  BY <1>2, <1>4, <1>7, <1>8 DEF RejectedIsDead
<1>11. AbsentIsFresh'
  BY <1>4, <1>7 DEF AbsentIsFresh
<1> QED
  BY <1>1, <1>9, <1>10, <1>11

LEMMA StepPrompts == PromptInv /\ [Next]_vars => PromptInv'
<1> SUFFICES ASSUME PromptInv, [Next]_vars PROVE PromptInv'
  OBVIOUS
<1>0. TypeOK /\ SessionsNamePayments
  BY DEF PromptInv, IInv
<1>1. CASE UNCHANGED vars
  <2>1. IInv'
    BY <1>1, StepIInv DEF PromptInv
  <2> QED
    BY <1>1, <2>1 DEF vars, PromptInv, AbsentHasNoLedger, OneLiveAttempt,
                      RejectedIsDead, AbsentIsFresh, Live, Overridden
<1>2. ASSUME Next, NEW a \in Attempts,
             Daraja(a) \/ Respond(a) \/ CrashSubmission(a) \/ Abandon(a)
      PROVE  PromptInv'
  <2>1. CASE \E outcome \in {"not_sent", "rejected"} : SubmitRefused(a, outcome)
    BY <1>2, <2>1, RefusalKeepsPrompts
  <2>2. CASE /\ Respond(a)
             /\ \A outcome \in {"not_sent", "rejected"} : ~SubmitRefused(a, outcome)
    BY <1>0, <1>2, <2>2, SubmissionQuiet, QuietStep
  <2>3. CASE Daraja(a)
    BY <1>0, <1>2, <2>3, DarajaQuiet, QuietStep
  <2>4. CASE CrashSubmission(a)
    <3>1. Answered(a, "lost") /\ UNCHANGED <<payment, provider>>
      BY <2>4 DEF CrashSubmission
    <3>2. \A b \in Attempts : Live(b)' => Live(b)
      BY <1>0, <3>1, AnsweredLives DEF CallStates
    <3>3. Quiet
      BY <3>1, <3>2 DEF Quiet, QuietFor
    <3> QED
      BY <1>2, <3>3, QuietStep
  <2>5. CASE Abandon(a)
    <3>1. PaymentOf(a) \in Payments /\ SetAside(PaymentOf(a))
      BY <2>5, AttemptParts DEF Abandon
    <3>2. \A b \in Attempts : Live(b)' => Live(b)
      BY <2>5, SameLives DEF Abandon
    <3> QED
      BY <1>0, <1>2, <3>1, <3>2, SetAsideQuiet, QuietStep
  <2> QED
    BY <1>2, <2>1, <2>2, <2>3, <2>4, <2>5
<1>3. ASSUME Next, NEW p \in Payments, Request(p) \/ ExpireLease(p)
      PROVE  PromptInv'
  <2>1. CASE Create(p)
    BY <1>3, <2>1, CreateKeepsPrompts
  <2>2. CASE \E override \in BOOLEAN : Retry(p, override)
    BY <1>3, <2>2, RetryKeepsPrompts
  <2>3. CASE \E r \in filed : LinkCallback(r, p)
    BY <1>0, <1>3, <2>3, LinkQuiet, QuietStep
  <2>4. CASE \E o \in Operators : LoadForManualCheck(o, p)
    <3>1. Quiet
      BY <2>4 DEF LoadForManualCheck, Quiet, QuietFor, Live
    <3> QED
      BY <1>3, <3>1, QuietStep
  <2>5. CASE Reverse(p)
    BY <1>0, <1>3, <2>5, ReversalQuiet, QuietStep
  <2>6. CASE ExpireLease(p)
    <3>1. payment[p].lease_owner \in Sessions \cup {None}
      BY <1>0 DEF TypeOK, PaymentRows
    <3>2. payment' = [payment EXCEPT ![p] =
                          [@ EXCEPT !.lease_owner = payment[p].lease_owner,
                                    !.lease_live = FALSE]]
      BY <1>0, <2>6 DEF ExpireLease, TypeOK, PaymentRows
    <3>3. UNCHANGED <<call, provider>>
      BY <2>6 DEF ExpireLease
    <3>4. Quiet
      BY <1>0, <3>1, <3>2, <3>3, LeaseQuiet
    <3> QED
      BY <1>3, <3>4, QuietStep
  <2> QED
    BY <1>3, <2>1, <2>2, <2>3, <2>4, <2>5, <2>6 DEF Request
<1>4. ASSUME Next, NEW s \in Sessions, Reconcile(s)
      PROVE  PromptInv'
  BY <1>0, <1>4, ReconcileQuiet, QuietStep
<1> QED
  BY <1>1, <1>2, <1>3, <1>4 DEF Next

LEMMA InitPrompts == Init => PromptInv
<1> SUFFICES ASSUME Init PROVE PromptInv
  OBVIOUS
<1>1. AbsentHasNoLedger
  BY DEF Init, AbsentHasNoLedger
<1>2. \A p \in Payments, n \in Numbers : ~Live(<<p, n>>)
  BY PairIsAttempt DEF Init, Live
<1>3. \A p \in Payments : payment[p].acceptance = "not_sent"
  BY DEF Init, NewPayment
<1> QED
  BY <1>1, <1>2, <1>3, InitIInv
     DEF PromptInv, OneLiveAttempt, RejectedIsDead, AbsentIsFresh

\* However calls crash, time out, overtake each other and are called back, the
\* customer sees a second prompt for a payment only after an override.
THEOREM NoSecondPromptUnasked == Spec => []SecondPromptNeedsOverride
<1>1. PromptInv => SecondPromptNeedsOverride
  BY DEF PromptInv, OneLiveAttempt, Live, SecondPromptNeedsOverride
<1> QED
  BY <1>1, InitPrompts, StepPrompts, PTL DEF Spec

=============================================================================
