------------------------- MODULE StkPaymentsProofs -------------------------
(***************************************************************************)
(* Proofs about StkPayments, for every set of payments, workers and        *)
(* operators and every bound.                                              *)
(***************************************************************************)
EXTENDS StkPayments, TLAPS

(***************************************************************************)
(* Facts about the building blocks.                                        *)
(***************************************************************************)
\* An attempt is a payment and a number.
LEMMA AttemptParts ==
    ASSUME NEW a \in Attempts
    PROVE  /\ PaymentOf(a) \in Payments
           /\ NumberOf(a) \in Numbers
           /\ NumberOf(a) \in 0..MaxAttempts
           /\ a = <<PaymentOf(a), NumberOf(a)>>
BY BoundsAssumption DEF Attempts, Numbers, PaymentOf, NumberOf

\* Recording a ledger row keeps the ledger well-typed.
LEMMA RecordType ==
    ASSUME ledger \in [Payments -> Seq(LedgerRows)],
           NEW p \in Payments, NEW f \in Statuses, NEW t \in Statuses, Record(p, f, t)
    PROVE  ledger' \in [Payments -> Seq(LedgerRows)]
<1>1. Row(f, t) \in LedgerRows
  BY DEF Row, LedgerRows
<1>2. Append(ledger[p], Row(f, t)) \in Seq(LedgerRows)
  BY <1>1
<1> QED
  BY <1>2 DEF Record

\* A failure code leads to a state of the machine.
LEMMA FailureTargetType ==
    ASSUME NEW s \in Statuses, NEW code \in FailureCodes
    PROVE  FailureTarget(s, code) \in FailureCodes
BY DEF FailureTarget, FailureCodes

\* What a failure code, a status check and the end of a check write is a row.
LEMMA WithFailureType ==
    ASSUME NEW row \in PaymentRows, NEW target \in Statuses, NEW code
    PROVE  WithFailure(row, target, code) \in PaymentRows
BY DEF WithFailure, PaymentRows, Acceptances, ReceiptStates, Reviews

LEMMA ClosedType ==
    ASSUME NEW row \in PaymentRows, NEW aged \in BOOLEAN
    PROVE  Closed(row, aged) \in PaymentRows
<1> DEFINE n == IF row.checks < MaxChecks THEN row.checks + 1 ELSE MaxChecks
           waiting == row.status \in Unsettled
           exhausted == waiting /\ Exhausted(n, aged)
<1>1. n \in 0..MaxChecks
  BY BoundsAssumption DEF PaymentRows
<1>2. (waiting /\ ~exhausted) \in BOOLEAN
  OBVIOUS
<1>3. (IF exhausted THEN "unknown" ELSE row.status) \in Statuses
  BY DEF PaymentRows, Statuses
<1>4. (IF exhausted THEN "needs_review" ELSE row.review) \in Reviews
  BY DEF PaymentRows, Reviews
<1> HIDE DEF n, waiting, exhausted
<1>5. Closed(row, aged) =
        [row EXCEPT !.checks = n, !.lease_owner = None, !.lease_live = FALSE,
                    !.due = waiting /\ ~exhausted,
                    !.status = IF exhausted THEN "unknown" ELSE @,
                    !.review = IF exhausted THEN "needs_review" ELSE @]
  BY DEF Closed, n, waiting, exhausted
<1> QED
  BY <1>1, <1>2, <1>3, <1>4, <1>5, ZenonT(40) DEF PaymentRows

LEMMA WithAnswerType ==
    ASSUME NEW row \in PaymentRows, NEW answer \in Answers
    PROVE  WithAnswer(row, answer) \in PaymentRows
<1>1. CASE answer \in FailureCodes
  BY <1>1, FailureTargetType, WithFailureType
     DEF WithAnswer, QueriedSuccess, Unanswered, FailureCodes, Statuses, PaymentRows
<1>2. CASE answer \notin FailureCodes
  BY <1>2, ZenonT(40) DEF WithAnswer, QueriedSuccess, Unanswered, Answers, PaymentRows, Acceptances, ReceiptStates, Reviews,
              Sources, Statuses
<1> QED
  BY <1>1, <1>2

(***************************************************************************)
(* What any handler may do to one payment row.  Sound is the part of the   *)
(* inductive invariant that speaks of a row alone: UnknownIsFlagged,       *)
(* SuccessIsEvidenced, and the source of a receipt, which neither of them  *)
(* mentions and ReceiptEvidenceWins needs.                                 *)
(***************************************************************************)
Flagged(row) == row.status = "unknown" => row.review = "needs_review"

Evidenced(row) ==
    /\ row.status = "success" =>
          \/ row.receipt # None
          \/ row.source = "status_query" /\ row.review = "needs_review"
    /\ row.receipt # None => row.status \in {"success", "reversed"}
    /\ row.receipt # None => row.source = "callback"

Sound(row) == Flagged(row) /\ Evidenced(row)

RowsSound == \A p \in Payments : Sound(payment[p])

\* The steps of the state machine, a stutter included.
MachineStep(s, t) ==
    \/ t = s
    \/ s = "absent" /\ t = "pending"
    \/ t \in Allowed[s]
    \/ s \in RetryableStates /\ t = "pending"

SameEvidence(old, new) ==
    /\ new.receipt = old.receipt
    /\ new.source = "callback"
    /\ new.receipt_status = old.receipt_status

RowStep(old, new) ==
    /\ MachineStep(old.status, new.status)
    /\ Sound(new)
    /\ old.receipt # None => SameEvidence(old, new)

\* One row is written, and a new status has its ledger row.
Ledgered(p, row) ==
    \/ ledger' = ledger /\ row.status = payment[p].status
    \/ /\ row.status # "absent"
       /\ \E f \in Statuses :
            /\ Record(p, f, row.status)
            /\ row.status # payment[p].status => f = payment[p].status

Writes(p, row) ==
    /\ row \in PaymentRows
    /\ payment' = [payment EXCEPT ![p] = row]
    /\ RowStep(payment[p], row)
    /\ Ledgered(p, row)

Effect == \E p \in Payments : \E row \in PaymentRows : Writes(p, row)

NoEffect == UNCHANGED <<payment, ledger>>

LEMMA StaleEffect ==
    ASSUME TypeOK, RowsSound, NEW a \in Attempts, NEW target \in {"failed", "unknown", "stk_sent"},
           NEW row \in PaymentRows, NEW att, CommitStale(a, target, row, att),
           row.status = target,
           target = "unknown" => row.review = "needs_review",
           row.receipt = payment[PaymentOf(a)].receipt
    PROVE  Effect
<1> DEFINE p == PaymentOf(a)
<1>1. p \in Payments /\ payment[p] \in PaymentRows /\ Sound(payment[p])
  BY AttemptParts DEF TypeOK, RowsSound
<1>2. payment[p].status \in {"pending", target}
  BY DEF CommitStale, TriggerAccepts, Row
<1>3. payment[p].receipt = None
  BY <1>1, <1>2 DEF Sound, Evidenced
<1>4. MachineStep(payment[p].status, row.status)
  BY <1>2 DEF MachineStep, Allowed, Statuses
<1>5. Sound(row)
  BY <1>3 DEF Sound, Flagged, Evidenced
<1>6. Ledgered(p, row)
  <2>1. Record(p, "pending", row.status)
    BY DEF CommitStale
  <2>2. row.status # payment[p].status => "pending" = payment[p].status
    BY <1>2
  <2> QED
    BY <2>1, <2>2 DEF Ledgered, Statuses
<1>7. payment' = [payment EXCEPT ![p] = row]
  BY DEF CommitStale
<1> QED
  BY <1>1, <1>3, <1>4, <1>5, <1>6, <1>7 DEF Effect, Writes, RowStep

\* Maintenance and a repeated CheckoutRequestID set a payment aside.
LEMMA SetAsideEffect ==
    ASSUME TypeOK, RowsSound, NEW p \in Payments, SetAside(p)
    PROVE  Effect
<1> DEFINE pending == payment[p].status = "pending"
           row == [payment[p] EXCEPT !.status = IF pending THEN "unknown" ELSE payment[p].status,
                                     !.acceptance = "uncertain",
                                     !.review = "needs_review"]
<1>1. payment[p] \in PaymentRows /\ Sound(payment[p])
  BY DEF TypeOK, RowsSound
<1>2. /\ row.status = IF pending THEN "unknown" ELSE payment[p].status
      /\ row.review = "needs_review" /\ row.receipt = payment[p].receipt
      /\ row.source = payment[p].source
      /\ row.receipt_status = payment[p].receipt_status
      /\ row \in PaymentRows
  BY <1>1, ZenonT(40) DEF PaymentRows, Acceptances, Reviews, Statuses
<1>3. payment' = [payment EXCEPT ![p] = row]
  BY DEF SetAside
<1>4. IF pending THEN Record(p, "pending", "unknown") ELSE UNCHANGED ledger
  BY DEF SetAside
<1> HIDE DEF row
<1>5. RowStep(payment[p], row)
  <2>1. MachineStep(payment[p].status, row.status)
    BY <1>2 DEF MachineStep, Allowed, Statuses
  <2>2. Sound(row)
    BY <1>1, <1>2 DEF Sound, Flagged, Evidenced
  <2>3. payment[p].receipt # None => SameEvidence(payment[p], row)
    BY <1>1, <1>2 DEF Sound, Evidenced, SameEvidence
  <2> QED
    BY <2>1, <2>2, <2>3 DEF RowStep
<1>6. Ledgered(p, row)
  BY <1>2, <1>4 DEF Ledgered, Statuses
<1> QED
  BY <1>1, <1>2, <1>3, <1>5, <1>6 DEF Effect, Writes

(***************************************************************************)
(* The effect of each kind of action.                                      *)
(***************************************************************************)
LEMMA SubmissionEffect ==
    ASSUME TypeOK, RowsSound, NEW a \in Attempts, Respond(a)
    PROVE  Effect \/ NoEffect
<1> DEFINE p == PaymentOf(a)
<1>1. p \in Payments /\ payment[p] \in PaymentRows /\ Sound(payment[p])
  BY AttemptParts DEF TypeOK, RowsSound
<1>2. ASSUME NEW outcome \in {"not_sent", "rejected"}, SubmitRefused(a, outcome)
      PROVE  Effect
  <2> DEFINE row == [payment[p] EXCEPT !.status = "failed", !.acceptance = "rejected",
                                       !.receipt_status = "not_applicable"]
  <2>1. /\ row \in PaymentRows
        /\ row.status = "failed" /\ row.receipt = payment[p].receipt
    BY <1>1 DEF PaymentRows, Acceptances, ReceiptStates, Statuses
  <2>2. CommitStale(a, "failed", row, [attempt[a] EXCEPT !.status = outcome])
    BY <1>2 DEF SubmitRefused
  <2> QED
    BY <2>1, <2>2, StaleEffect
<1>3. ASSUME RecordUncertain(a)
      PROVE  Effect
  <2> DEFINE row == [payment[p] EXCEPT !.status = "unknown", !.acceptance = "uncertain",
                                       !.review = "needs_review"]
  <2>1. /\ row \in PaymentRows /\ row.review = "needs_review"
        /\ row.status = "unknown" /\ row.receipt = payment[p].receipt
    BY <1>1 DEF PaymentRows, Acceptances, Reviews, Statuses
  <2>2. CommitStale(a, "unknown", row, [attempt[a] EXCEPT !.status = "uncertain"])
    BY <1>3 DEF RecordUncertain
  <2> QED
    BY <2>1, <2>2, StaleEffect
<1>4. ASSUME SubmitAccepted(a)
      PROVE  Effect
  <2> DEFINE row == [payment[p] EXCEPT !.status = "stk_sent", !.checkout = NumberOf(a),
                                       !.acceptance = "accepted", !.due = TRUE]
  <2>1. /\ row \in PaymentRows
        /\ row.status = "stk_sent" /\ row.receipt = payment[p].receipt
    BY <1>1, AttemptParts DEF PaymentRows, Acceptances, Statuses
  <2>2. CommitStale(a, "stk_sent", row, [status |-> "accepted", known |-> TRUE])
    BY <1>4 DEF SubmitAccepted
  <2> QED
    BY <2>1, <2>2, StaleEffect
<1>5. ASSUME SubmitRepeatedId(a)
      PROVE  Effect
  <2>1. SetAside(p)
    BY <1>5 DEF SubmitRepeatedId
  <2> QED
    BY <1>1, <2>1, SetAsideEffect
<1>6. ASSUME NEW target \in {"failed", "unknown", "stk_sent"}, SubmitAborted(a, target)
      PROVE  NoEffect
  BY <1>6 DEF SubmitAborted, NoEffect
<1> QED
  BY <1>2, <1>3, <1>4, <1>5, <1>6 DEF Respond, SubmitUncertain, SubmitWithoutCheckout

LEMMA RetryEffect ==
    ASSUME TypeOK, RowsSound, NEW p \in Payments, NEW override \in BOOLEAN,
           Retry(p, override)
    PROVE  Effect
<1> DEFINE old == payment[p]
           row == [old EXCEPT !.status = "pending", !.checkout = 0, !.due = FALSE,
                              !.acceptance = "not_sent", !.receipt_status = "missing",
                              !.review = "none"]
<1>1. old \in PaymentRows /\ Sound(old)
  BY DEF TypeOK, RowsSound
<1>2. /\ row.status = "pending" /\ row.receipt = old.receipt
      /\ row \in PaymentRows
  <2>1. 0 \in 0..MaxAttempts /\ FALSE \in BOOLEAN
    BY BoundsAssumption
  <2>2. /\ "pending" \in Statuses /\ "not_sent" \in Acceptances
        /\ "missing" \in ReceiptStates /\ "none" \in Reviews
    BY DEF Statuses, Acceptances, ReceiptStates, Reviews
  <2> QED
    BY <1>1, <2>1, <2>2 DEF PaymentRows
<1>3. /\ old.status \in RetryableStates
      /\ old.receipt = None
      /\ payment' = [payment EXCEPT ![p] = row]
      /\ Record(p, old.status, "pending")
  BY DEF Retry, MayRetry
<1> HIDE DEF row
<1>4. RowStep(old, row)
  BY <1>2, <1>3 DEF RowStep, MachineStep, Sound, Flagged, Evidenced
<1>5. Ledgered(p, row)
  BY <1>1, <1>2, <1>3 DEF Ledgered, PaymentRows
<1> QED
  BY <1>2, <1>3, <1>4, <1>5 DEF Effect, Writes

\* The verdict "conflict" leaves everything but the review flag alone.
LEMMA FlagEffect ==
    ASSUME TypeOK, RowsSound, NEW a \in Attempts, NEW code, FlagConflict(a, code)
    PROVE  Effect
<1> DEFINE p == PaymentOf(a)
           old == payment[p]
           row == [old EXCEPT !.review = "needs_review"]
<1>1. p \in Payments /\ old \in PaymentRows /\ Sound(old)
  BY AttemptParts DEF TypeOK, RowsSound
<1>2. /\ row.status = old.status /\ row.review = "needs_review"
      /\ row.receipt = old.receipt /\ row.source = old.source
      /\ row.receipt_status = old.receipt_status
      /\ row \in PaymentRows
  BY <1>1 DEF PaymentRows, Reviews
<1>3. payment' = [payment EXCEPT ![p] = row] /\ ledger' = ledger
  BY DEF FlagConflict
<1> HIDE DEF row
<1>4. RowStep(old, row)
  BY <1>1, <1>2 DEF RowStep, MachineStep, Sound, Flagged, Evidenced, SameEvidence
<1>5. Ledgered(p, row)
  BY <1>2, <1>3 DEF Ledgered
<1> QED
  BY <1>1, <1>2, <1>3, <1>4, <1>5 DEF Effect, Writes

LEMMA EnrichmentEffect ==
    ASSUME TypeOK, RowsSound, NEW a \in Attempts, CallbackEnriches(a)
    PROVE  Effect
<1> DEFINE p == PaymentOf(a)
           old == payment[p]
           row == [old EXCEPT !.receipt = a, !.source = "callback",
                              !.receipt_status = "enriched_later",
                              !.review = "resolved", !.acceptance = "accepted"]
<1>1. p \in Payments /\ old \in PaymentRows /\ Sound(old)
  BY AttemptParts DEF TypeOK, RowsSound
<1>2. /\ old.status = "success" /\ old.receipt = None
      /\ payment' = [payment EXCEPT ![p] = row] /\ ledger' = ledger
  BY DEF CallbackEnriches
<1>3. /\ row.status = "success" /\ row.receipt = a /\ row.source = "callback"
      /\ row \in PaymentRows
  BY <1>1, <1>2 DEF PaymentRows, Acceptances, ReceiptStates, Reviews, Sources
<1>4. a # None
  BY NoneAssumption
<1> HIDE DEF row
<1>5. RowStep(old, row)
  BY <1>2, <1>3, <1>4 DEF RowStep, MachineStep, Sound, Flagged, Evidenced
<1>6. Ledgered(p, row)
  BY <1>2, <1>3 DEF Ledgered
<1> QED
  BY <1>1, <1>2, <1>3, <1>5, <1>6 DEF Effect, Writes

LEMMA SuccessEffect ==
    ASSUME TypeOK, RowsSound, NEW a \in Attempts, CallbackSucceeds(a)
    PROVE  Effect
<1> DEFINE p == PaymentOf(a)
           old == payment[p]
           row == [old EXCEPT !.status = "success", !.receipt = a, !.source = "callback",
                              !.receipt_status = "present", !.review = "none",
                              !.acceptance = "accepted"]
<1>1. p \in Payments /\ old \in PaymentRows /\ Sound(old)
  BY AttemptParts DEF TypeOK, RowsSound
<1>2. /\ old.status # "success" /\ MayMove(old.status, "success")
      /\ payment' = [payment EXCEPT ![p] = row]
      /\ Record(p, old.status, "success")
  BY DEF CallbackSucceeds
<1>3. /\ row.status = "success" /\ row.receipt = a /\ row.source = "callback"
      /\ row \in PaymentRows
  BY <1>1, ZenonT(40) DEF PaymentRows, Acceptances, ReceiptStates, Reviews, Sources, Statuses
<1>4. old.status \in {"stk_sent", "unknown"}
  BY <1>1, <1>2 DEF MayMove, Allowed, PaymentRows, Statuses
<1>5. a # None /\ old.receipt = None
  BY <1>1, <1>4, NoneAssumption DEF Sound, Evidenced
<1> HIDE DEF row
<1>6. RowStep(old, row)
  BY <1>2, <1>3, <1>5 DEF RowStep, MachineStep, MayMove, Sound, Flagged, Evidenced
<1>7. Ledgered(p, row)
  BY <1>1, <1>2, <1>3 DEF Ledgered, PaymentRows
<1> QED
  BY <1>1, <1>2, <1>3, <1>6, <1>7 DEF Effect, Writes

LEMMA UnverifiedEffect ==
    ASSUME TypeOK, RowsSound, NEW a \in Attempts, CallbackUnverified(a)
    PROVE  Effect \/ NoEffect
<1> DEFINE p == PaymentOf(a)
           old == payment[p]
           sent == old.status = "stk_sent"
           row == [old EXCEPT !.status = IF sent THEN "unknown" ELSE old.status,
                              !.review = "needs_review", !.acceptance = "accepted"]
<1>1. p \in Payments /\ old \in PaymentRows /\ Sound(old)
  BY AttemptParts DEF TypeOK, RowsSound
<1>2. CASE old.status = "success"
  BY <1>2 DEF CallbackUnverified, NoEffect
<1>3. CASE old.status # "success"
  <2>1. /\ row.status = IF sent THEN "unknown" ELSE old.status
        /\ row.review = "needs_review" /\ row.receipt = old.receipt
        /\ row.source = old.source /\ row.receipt_status = old.receipt_status
        /\ row \in PaymentRows
    BY <1>1 DEF PaymentRows, Acceptances, Reviews, Statuses
  <2>2. payment' = [payment EXCEPT ![p] = row]
    BY <1>3 DEF CallbackUnverified
  <2>3. IF sent THEN Record(p, "stk_sent", "unknown") ELSE ledger' = ledger
    BY DEF CallbackUnverified
  <2> HIDE DEF row
  <2>4. RowStep(old, row)
    <3>1. MachineStep(old.status, row.status)
      BY <2>1 DEF MachineStep, Allowed, Statuses
    <3>2. Sound(row)
      BY <1>1, <1>3, <2>1 DEF Sound, Flagged, Evidenced
    <3>3. old.receipt # None => SameEvidence(old, row)
      BY <1>1, <2>1 DEF Sound, Evidenced, SameEvidence
    <3> QED
      BY <3>1, <3>2, <3>3 DEF RowStep
  <2>5. Ledgered(p, row)
    BY <2>1, <2>3 DEF Ledgered, Statuses
  <2> QED
    BY <1>1, <2>1, <2>2, <2>4, <2>5 DEF Effect, Writes
<1> QED
  BY <1>2, <1>3

\* A failure code moves a row soundly, in the callback and in the status check.
LEMMA FailureStep ==
    ASSUME NEW old \in PaymentRows, Sound(old), NEW code \in FailureCodes,
           MayMove(old.status, FailureTarget(old.status, code))
    PROVE  RowStep(old, WithFailure(old, FailureTarget(old.status, code), code))
<1> DEFINE target == FailureTarget(old.status, code)
           row == WithFailure(old, target, code)
<1>1. /\ target \in FailureCodes
      /\ target = "unknown" <=> code = "unknown"
  BY DEF FailureTarget, FailureCodes
<1>2. /\ row.status = target /\ row.receipt = old.receipt
      /\ row.review = IF code = "unknown" THEN "needs_review" ELSE "none"
  BY DEF WithFailure, PaymentRows
<1>3. old.status \notin {"success", "reversed"}
  BY <1>1 DEF MayMove, Allowed, FailureCodes, Statuses
<1>4. old.receipt = None
  BY <1>3 DEF Sound, Evidenced
<1>5. MachineStep(old.status, row.status)
  BY <1>2 DEF MachineStep, MayMove
<1> HIDE DEF row
<1>6. Sound(row)
  BY <1>1, <1>2, <1>4 DEF Sound, Flagged, Evidenced, FailureCodes
<1> QED
  BY <1>4, <1>5, <1>6 DEF RowStep, row

LEMMA FailureEffect ==
    ASSUME TypeOK, RowsSound, NEW a \in Attempts, NEW code, CallbackFails(a, code)
    PROVE  Effect
<1> DEFINE p == PaymentOf(a)
           old == payment[p]
           target == FailureTarget(old.status, code)
           row == WithFailure(old, target, code)
<1>1. p \in Payments /\ old \in PaymentRows /\ Sound(old)
  BY AttemptParts DEF TypeOK, RowsSound
<1>2. code \in FailureCodes /\ MayMove(old.status, target)
  BY DEF CallbackFails
<1>3. payment' = [payment EXCEPT ![p] = row]
  BY DEF CallbackFails
<1>4. IF old.status = "unknown" /\ target = "unknown" THEN ledger' = ledger
                                                      ELSE Record(p, old.status, target)
  BY DEF CallbackFails
<1>5. RowStep(old, row)
  BY <1>1, <1>2, FailureStep
<1>6. row \in PaymentRows /\ row.status = target
  <2>1. old.status \in Statuses /\ target \in Statuses
    BY <1>1, <1>2, FailureTargetType DEF PaymentRows, FailureCodes, Statuses
  <2>2. row \in PaymentRows
    BY <1>1, <2>1, WithFailureType
  <2>3. row.status = target
    BY <1>1 DEF WithFailure, PaymentRows
  <2> QED
    BY <2>2, <2>3
<1>7. old.status \in Statuses /\ target # "absent"
  BY <1>1, <1>2, FailureTargetType DEF PaymentRows, FailureCodes
<1> HIDE DEF row, target
<1>8. Ledgered(p, row)
  BY <1>4, <1>6, <1>7 DEF Ledgered
<1> QED
  BY <1>1, <1>3, <1>5, <1>6, <1>8 DEF Effect, Writes

LEMMA LinkEffect ==
    ASSUME TypeOK, RowsSound, NEW p \in Payments, NEW r \in filed, LinkCallback(r, p)
    PROVE  Effect
<1> DEFINE old == payment[p]
           target == LinkTarget(r, p)
           credited == [old EXCEPT !.status = target, !.acceptance = "accepted",
                                   !.review = "resolved", !.receipt = r.of,
                                   !.source = "callback", !.receipt_status = "present"]
           refused == [old EXCEPT !.status = target, !.acceptance = "accepted",
                                  !.review = "resolved",
                                  !.receipt_status = "not_applicable"]
           row == IF target = "success" THEN credited ELSE refused
<1>1. old \in PaymentRows /\ Sound(old) /\ r \in CallbackRows
  BY DEF TypeOK, RowsSound
<1>2. /\ old.status \in Unsettled /\ MayMove(old.status, target)
      /\ payment' = [payment EXCEPT ![p] = row]
      /\ Record(p, old.status, target)
  BY DEF LinkCallback, MayLink
<1>3. target \in {"success", "timeout", "failed"}
  BY DEF LinkTarget
<1>4. r.of \in Attempts /\ r.of # None
  BY <1>1, NoneAssumption DEF CallbackRows
<1>5. /\ row \in PaymentRows /\ row.status = target
      /\ target = "success" => row.receipt = r.of /\ row.source = "callback"
      /\ target # "success" => row.receipt = old.receipt
  <2>1. CASE target = "success"
    BY <1>1, <1>4, <2>1, ZenonT(40)
       DEF PaymentRows, Acceptances, ReceiptStates, Reviews, Sources, Statuses
  <2>2. CASE target # "success"
    BY <1>1, <1>3, <2>2, ZenonT(40)
       DEF PaymentRows, Acceptances, ReceiptStates, Reviews, Sources, Statuses
  <2> QED
    BY <2>1, <2>2
<1>6. old.receipt = None /\ old.status \in Statuses
  BY <1>1, <1>2 DEF Sound, Evidenced, Unsettled, PaymentRows
<1> HIDE DEF row, target
<1>7. RowStep(old, row)
  BY <1>2, <1>3, <1>4, <1>5, <1>6
     DEF RowStep, MachineStep, MayMove, Sound, Flagged, Evidenced
<1>8. Ledgered(p, row)
  BY <1>2, <1>3, <1>5, <1>6 DEF Ledgered
<1> QED
  BY <1>2, <1>5, <1>7, <1>8 DEF Effect, Writes

(***************************************************************************)
(* Sessions at work name a payment, and the ones that ask Daraja an attempt*)
(* of it; without this the type of what they write would be unknown.       *)
(***************************************************************************)
SessionsNamePayments ==
    \A s \in Sessions :
        /\ check[s].phase # "idle" => check[s].payment \in Payments
        /\ check[s].phase \in {"loaded", "querying"} => check[s].checkout \in Numbers

\* Taking, dropping and losing a lease touches nothing but the lease.
LEMMA LeaseEffect ==
    ASSUME TypeOK, RowsSound, NEW p \in Payments,
           NEW owner \in Sessions \cup {None}, NEW live \in BOOLEAN,
           payment' = [payment EXCEPT ![p] =
                            [@ EXCEPT !.lease_owner = owner, !.lease_live = live]],
           ledger' = ledger
    PROVE  Effect
<1> DEFINE old == payment[p]
           row == [old EXCEPT !.lease_owner = owner, !.lease_live = live]
<1>1. old \in PaymentRows /\ Sound(old)
  BY DEF TypeOK, RowsSound
<1>2. /\ row.status = old.status /\ row.review = old.review
      /\ row.receipt = old.receipt /\ row.source = old.source
      /\ row.receipt_status = old.receipt_status
      /\ row \in PaymentRows
  BY <1>1 DEF PaymentRows
<1>3. payment' = [payment EXCEPT ![p] = row]
  OBVIOUS
<1> HIDE DEF row
<1>4. RowStep(old, row)
  BY <1>1, <1>2 DEF RowStep, MachineStep, Sound, Flagged, Evidenced, SameEvidence
<1>5. Ledgered(p, row)
  BY <1>2 DEF Ledgered
<1> QED
  BY <1>2, <1>3, <1>4, <1>5 DEF Effect, Writes

\* The verdict of phase 2, before the check is closed.
LEMMA AnswerStep ==
    ASSUME NEW old \in PaymentRows, Sound(old), NEW answer \in Answers,
           answer # "superseded" => old.status \in Unsettled
    PROVE  LET row == WithAnswer(old, answer) IN
           /\ RowStep(old, row)
           /\ row.status \in Unsettled => old.status \in Unsettled
           /\ answer = "success" => row.status = "success"
           /\ answer \in FailureCodes => row.status = FailureTarget(old.status, answer)
           /\ answer \in {"none", "superseded"} => row.status = old.status
<1> DEFINE row == WithAnswer(old, answer)
           target == FailureTarget(old.status, answer)
<1>1. CASE answer = "success"
  <2>1. old.status \in Unsettled /\ old.receipt = None
    BY <1>1 DEF Sound, Evidenced, Unsettled
  <2>2. /\ row.status = "success" /\ row.receipt = None /\ row.source = "status_query"
        /\ row.review = "needs_review"
    BY <1>1, <2>1 DEF WithAnswer, QueriedSuccess, Unanswered, FailureCodes, PaymentRows
  <2> HIDE DEF row
  <2>3. RowStep(old, row)
    BY <2>1, <2>2
       DEF RowStep, MachineStep, Sound, Flagged, Evidenced, Allowed, Statuses, Unsettled
  <2> QED
    BY <1>1, <2>1, <2>2, <2>3 DEF row, FailureCodes
<1>2. CASE answer \in FailureCodes
  <2>1. old.status \in Unsettled
    BY <1>2 DEF FailureCodes
  <2>2. MayMove(old.status, target)
    BY <1>2, <2>1 DEF MayMove, FailureTarget, FailureCodes, Unsettled, Allowed, Statuses
  <2>3. row = WithFailure(old, target, answer)
    BY <1>2 DEF WithAnswer, QueriedSuccess, Unanswered, FailureCodes
  <2>4. row.status = target
    BY <2>3 DEF WithFailure, PaymentRows
  <2> HIDE DEF row
  <2>5. RowStep(old, row)
    BY <1>2, <2>2, <2>3, FailureStep
  <2> QED
    BY <1>2, <2>1, <2>4, <2>5 DEF row, FailureCodes
<1>3. CASE answer \in {"none", "superseded"}
  <2>1. /\ row.status = old.status /\ row.review = old.review
        /\ row.receipt = old.receipt /\ row.source = old.source
        /\ row.receipt_status = old.receipt_status
    BY <1>3 DEF WithAnswer, QueriedSuccess, Unanswered, FailureCodes, PaymentRows
  <2> HIDE DEF row
  <2>2. RowStep(old, row)
    BY <2>1 DEF RowStep, MachineStep, Sound, Flagged, Evidenced, SameEvidence
  <2> QED
    BY <1>3, <2>1, <2>2 DEF row, FailureCodes
<1> QED
  BY <1>1, <1>2, <1>3 DEF Answers

\* Closing a check keeps the row sound; it changes the status only by giving up.
LEMMA ClosedStep ==
    ASSUME NEW row \in PaymentRows, Sound(row), NEW aged \in BOOLEAN
    PROVE  LET new == Closed(row, aged) IN
           /\ Sound(new)
           /\ new.receipt = row.receipt /\ new.source = row.source
           /\ new.receipt_status = row.receipt_status
           /\ \/ new.status = row.status
              \/ new.status = "unknown" /\ row.status \in Unsettled
<1> DEFINE new == Closed(row, aged)
<1>1. /\ new.receipt = row.receipt /\ new.source = row.source
      /\ new.receipt_status = row.receipt_status
      /\ \/ new.status = row.status /\ new.review = row.review
         \/ /\ new.status = "unknown" /\ row.status \in Unsettled
            /\ new.review = "needs_review"
  BY DEF Closed, PaymentRows
<1> HIDE DEF new
<1>2. Sound(new)
  BY <1>1 DEF Sound, Flagged, Evidenced, Unsettled
<1> QED
  BY <1>1, <1>2 DEF new

LEMMA CheckEffect ==
    ASSUME TypeOK, RowsSound, SessionsNamePayments,
           NEW s \in Sessions, NEW answer \in Answers, NEW aged \in BOOLEAN,
           ApplyCheck(s, answer, aged)
    PROVE  Effect
<1> DEFINE p == check[s].payment
           old == payment[p]
           mid == WithAnswer(old, answer)
           new == Closed(mid, aged)
<1>1. p \in Payments
  BY DEF ApplyCheck, SessionsNamePayments
<1>2. old \in PaymentRows /\ Sound(old)
  BY <1>1 DEF TypeOK, RowsSound
<1>3. answer # "superseded" => old.status \in Unsettled
  BY DEF ApplyCheck, Superseded
<1>4. /\ RowStep(old, mid)
      /\ mid.status \in Unsettled => old.status \in Unsettled
  BY <1>2, <1>3, AnswerStep
<1>5. mid \in PaymentRows
  BY <1>2, WithAnswerType
<1>6. Sound(mid)
  BY <1>4 DEF RowStep
<1>7. /\ Sound(new) /\ new \in PaymentRows
      /\ new.receipt = mid.receipt /\ new.source = mid.source
      /\ new.receipt_status = mid.receipt_status
      /\ \/ new.status = mid.status
         \/ new.status = "unknown" /\ mid.status \in Unsettled
  BY <1>5, <1>6, ClosedStep, ClosedType
<1>8. payment' = [payment EXCEPT ![p] = new]
  BY DEF ApplyCheck
<1>9. IF new.status # old.status THEN Record(p, old.status, new.status)
                                 ELSE ledger' = ledger
  BY DEF ApplyCheck
<1> HIDE DEF mid, new
<1>10. RowStep(old, new)
  <2>1. MachineStep(old.status, new.status)
    <3>1. CASE new.status = mid.status
      BY <1>4, <3>1 DEF RowStep
    <3>2. CASE new.status = "unknown" /\ mid.status \in Unsettled
      BY <1>4, <3>2 DEF MachineStep, Allowed, Statuses, Unsettled
    <3> QED
      BY <1>7, <3>1, <3>2
  <2>2. old.receipt # None => SameEvidence(old, new)
    BY <1>4, <1>7 DEF RowStep, SameEvidence
  <2> QED
    BY <1>7, <2>1, <2>2 DEF RowStep
<1>11. Ledgered(p, new)
  <2>1. new.status # old.status => new.status # "absent"
    BY <1>2, <1>10 DEF RowStep, MachineStep, Allowed, PaymentRows, Statuses
  <2> QED
    BY <1>2, <1>9, <2>1 DEF Ledgered, PaymentRows
<1> QED
  BY <1>1, <1>7, <1>8, <1>10, <1>11 DEF Effect, Writes

LEMMA ReversalEffect ==
    ASSUME TypeOK, RowsSound, NEW p \in Payments, Reverse(p)
    PROVE  Effect
<1> DEFINE old == payment[p]
           row == [old EXCEPT !.status = "reversed"]
<1>1. old \in PaymentRows /\ Sound(old)
  BY DEF TypeOK, RowsSound
<1>2. /\ old.status = "success" /\ old.receipt # None
      /\ payment' = [payment EXCEPT ![p] = row]
      /\ Record(p, "success", "reversed")
  BY DEF Reverse
<1>3. /\ row.status = "reversed" /\ row.receipt = old.receipt
      /\ row.source = old.source /\ row.receipt_status = old.receipt_status
      /\ row \in PaymentRows
  BY <1>1 DEF PaymentRows, Statuses
<1> HIDE DEF row
<1>4. RowStep(old, row)
  BY <1>1, <1>2, <1>3
     DEF RowStep, MachineStep, Allowed, Statuses, Sound, Flagged, Evidenced, SameEvidence
<1>5. Ledgered(p, row)
  BY <1>2, <1>3 DEF Ledgered, Statuses
<1> QED
  BY <1>2, <1>3, <1>4, <1>5 DEF Effect, Writes

(***************************************************************************)
(* The types of the variables other than payment and ledger.               *)
(***************************************************************************)
OthersTyped ==
    /\ attempt \in [Attempts -> AttemptRows]
    /\ call \in [Attempts -> CallStates]
    /\ provider \in [Attempts -> ProviderStates]
    /\ filed \subseteq CallbackRows
    /\ check \in [Sessions -> CheckRows]
    /\ announced \in [Payments -> Statuses]

LEMMA MarkType ==
    ASSUME TypeOK, NEW a, NEW s \in AttemptStates, MarkAttempt(a, s)
    PROVE  attempt' \in [Attempts -> AttemptRows]
BY DEF TypeOK, MarkAttempt, AttemptRows

LEMMA AnnounceType ==
    ASSUME TypeOK, NEW p, NEW s \in Statuses, Announce(p, s)
    PROVE  announced' \in [Payments -> Statuses]
BY DEF TypeOK, Announce

LEMMA FileType ==
    ASSUME TypeOK, NEW a \in Attempts, NEW code \in Codes, NEW s \in FiledStates,
           NEW p \in Payments \cup {None}, File(a, code, s, p)
    PROVE  filed' \subseteq CallbackRows
BY DEF TypeOK, File, CallbackRows

LEMMA AnsweredType ==
    ASSUME TypeOK, NEW a, NEW c \in CallStates, Answered(a, c)
    PROVE  call' \in [Attempts -> CallStates]
BY DEF TypeOK, Answered

LEMMA CommitType ==
    ASSUME TypeOK, NEW a \in Attempts, NEW target \in Statuses, NEW row,
           NEW att \in AttemptRows, NEW c \in CallStates, Answered(a, c),
           CommitStale(a, target, row, att)
    PROVE  OthersTyped'
<1>1. attempt' \in [Attempts -> AttemptRows]
  BY DEF CommitStale, TypeOK
<1>2. announced' \in [Payments -> Statuses]
  BY AnnounceType DEF CommitStale
<1>3. call' \in [Attempts -> CallStates]
  BY AnsweredType
<1>4. UNCHANGED <<provider, filed, check>>
  BY DEF CommitStale
<1> QED
  BY <1>1, <1>2, <1>3, <1>4 DEF OthersTyped, TypeOK

LEMMA SubmissionTypes ==
    ASSUME TypeOK, NEW a \in Attempts, Respond(a)
    PROVE  OthersTyped'
<1>1. attempt[a] \in AttemptRows
  BY DEF TypeOK
<1>2. ASSUME NEW outcome \in {"not_sent", "rejected"}, SubmitRefused(a, outcome)
      PROVE  OthersTyped'
  <2>1. [attempt[a] EXCEPT !.status = outcome] \in AttemptRows
    BY <1>1 DEF AttemptRows, AttemptStates
  <2>2. "failed" \in Statuses /\ "done" \in CallStates
    BY DEF Statuses, CallStates
  <2> QED
    BY <1>2, <2>1, <2>2, CommitType DEF SubmitRefused
<1>3. ASSUME RecordUncertain(a), Answered(a, "lost") \/ Answered(a, "done")
      PROVE  OthersTyped'
  <2>1. [attempt[a] EXCEPT !.status = "uncertain"] \in AttemptRows
    BY <1>1 DEF AttemptRows, AttemptStates
  <2>2. "unknown" \in Statuses /\ "done" \in CallStates /\ "lost" \in CallStates
    BY DEF Statuses, CallStates
  <2> QED
    BY <1>3, <2>1, <2>2, CommitType DEF RecordUncertain
<1>4. ASSUME SubmitAccepted(a)
      PROVE  OthersTyped'
  <2>1. [status |-> "accepted", known |-> TRUE] \in AttemptRows
    BY DEF AttemptRows, AttemptStates
  <2>2. "stk_sent" \in Statuses /\ "done" \in CallStates
    BY DEF Statuses, CallStates
  <2> QED
    BY <1>4, <2>1, <2>2, CommitType DEF SubmitAccepted
<1>5. ASSUME SubmitRepeatedId(a) \/ \E target \in {"failed", "unknown", "stk_sent"} :
                                        SubmitAborted(a, target)
      PROVE  OthersTyped'
  <2>1. UNCHANGED <<attempt, provider, filed, check, announced>>
    BY <1>5 DEF SubmitRepeatedId, SubmitAborted
  <2>2. PICK c \in CallStates : Answered(a, c)
    BY <1>5 DEF SubmitRepeatedId, SubmitAborted, CallStates
  <2>3. call' \in [Attempts -> CallStates]
    BY <2>2, AnsweredType
  <2> QED
    BY <2>1, <2>3 DEF OthersTyped, TypeOK
<1> QED
  BY <1>2, <1>3, <1>4, <1>5 DEF Respond, SubmitUncertain, SubmitWithoutCheckout

LEMMA CallbackTypes ==
    ASSUME TypeOK, NEW a \in Attempts, NEW code \in Codes, Callback(a, code)
    PROVE  OthersTyped'
<1> DEFINE p == PaymentOf(a)
           target == FailureTarget(payment[p].status, code)
<1>1. p \in Payments /\ payment[p].status \in Statuses
  BY AttemptParts DEF TypeOK, PaymentRows
<1>2. CASE CallbackUnmatched(a, code)
  <2>1. filed' \subseteq CallbackRows
    BY <1>2, FileType DEF CallbackUnmatched, FiledStates
  <2> QED
    BY <1>2, <2>1 DEF CallbackUnmatched, OthersTyped, TypeOK
<1>3. CASE FlagConflict(a, code)
  <2>1. filed' \subseteq CallbackRows
    BY <1>1, <1>3, FileType DEF FlagConflict, FiledStates
  <2>2. attempt' \in [Attempts -> AttemptRows]
    BY <1>3, MarkType DEF FlagConflict, AttemptStates
  <2> QED
    BY <1>3, <2>1, <2>2 DEF FlagConflict, OthersTyped, TypeOK
<1>4. CASE CallbackEnriches(a) \/ CallbackSucceeds(a)
  <2>1. filed' \subseteq CallbackRows
    BY <1>1, <1>4, FileType
       DEF CallbackEnriches, CallbackSucceeds, FiledStates, Codes, SuccessCodes
  <2>2. attempt' \in [Attempts -> AttemptRows]
    BY <1>4, MarkType DEF CallbackEnriches, CallbackSucceeds, AttemptStates
  <2>3. announced' = announced \/ Announce(p, "success")
    BY <1>4 DEF CallbackEnriches, CallbackSucceeds
  <2>4. announced' \in [Payments -> Statuses]
    BY <2>3, AnnounceType DEF TypeOK, Statuses
  <2>5. UNCHANGED <<call, provider, check>>
    BY <1>4 DEF CallbackEnriches, CallbackSucceeds
  <2> QED
    BY <2>1, <2>2, <2>4, <2>5 DEF OthersTyped, TypeOK
<1>5. CASE CallbackUnverified(a)
  <2>1. announced' = announced \/ Announce(p, "unknown")
    BY <1>5 DEF CallbackUnverified
  <2>2. announced' \in [Payments -> Statuses]
    BY <2>1, AnnounceType DEF TypeOK, Statuses
  <2> QED
    BY <1>5, <2>2 DEF CallbackUnverified, OthersTyped, TypeOK
<1>6. CASE CallbackFails(a, code)
  <2>1. code \in FailureCodes
    BY <1>6 DEF CallbackFails
  <2>2. target \in FailureCodes
    BY <1>1, <2>1, FailureTargetType
  <2>3. /\ target \in Statuses
        /\ AttemptAfter(target) \in AttemptStates
    BY <2>2 DEF FailureCodes, Statuses, AttemptAfter, AttemptStates
  <2>4. announced' \in [Payments -> Statuses]
    BY <1>6, <2>3, AnnounceType DEF CallbackFails
  <2>5. attempt' \in [Attempts -> AttemptRows]
    BY <1>6, <2>3, MarkType DEF CallbackFails
  <2>6. filed' \subseteq CallbackRows
    BY <1>1, <1>6, FileType DEF CallbackFails, FiledStates
  <2>7. UNCHANGED <<call, provider, check>>
    BY <1>6 DEF CallbackFails
  <2> QED
    BY <2>4, <2>5, <2>6, <2>7 DEF OthersTyped, TypeOK
<1> QED
  BY <1>2, <1>3, <1>4, <1>5, <1>6
     DEF Callback, CallbackOtherReceipt, CallbackBlocked, CallbackReceiptUsed

LEMMA LinkTypes ==
    ASSUME TypeOK, NEW p \in Payments, NEW r \in filed, LinkCallback(r, p)
    PROVE  OthersTyped'
<1> DEFINE target == LinkTarget(r, p)
           linked == [r EXCEPT !.payment = p,
                               !.status = IF target = "success" THEN "processed_success"
                                                                ELSE "processed_failure"]
<1>1. target \in {"success", "timeout", "failed"}
  BY DEF LinkTarget
<1>2. r \in CallbackRows
  BY DEF TypeOK
<1>3. linked \in CallbackRows
  BY <1>2 DEF CallbackRows, FiledStates
<1>4. filed' \subseteq filed \cup {linked}
  BY DEF LinkCallback
<1>5. filed' \subseteq CallbackRows
  BY <1>3, <1>4 DEF TypeOK
<1>6. attempt' \in [Attempts -> AttemptRows]
  <2>1. (IF target = "success" THEN "succeeded" ELSE target) \in AttemptStates
    BY <1>1 DEF AttemptStates
  <2> QED
    BY <2>1, MarkType DEF LinkCallback
<1>7. announced' \in [Payments -> Statuses]
  BY <1>1, AnnounceType DEF LinkCallback, Statuses
<1> QED
  BY <1>5, <1>6, <1>7 DEF LinkCallback, OthersTyped, TypeOK

LEMMA RequestTypes ==
    ASSUME TypeOK, NEW p \in Payments, Request(p)
    PROVE  OthersTyped'
<1>1. CASE Create(p)
  BY <1>1 DEF Create, OthersTyped, TypeOK, AttemptRows, AttemptStates, CallStates
<1>2. CASE \E override \in BOOLEAN : Retry(p, override)
  <2> DEFINE a == <<p, NextNumber(p)>>
  <2>1. /\ attempt' = [attempt EXCEPT ![a].status = "created"]
        /\ call' = [call EXCEPT ![a] = "sending"]
        /\ UNCHANGED <<provider, filed, check, announced>>
    BY <1>2 DEF Retry
  <2> HIDE DEF a
  <2> QED
    BY <2>1 DEF OthersTyped, TypeOK, AttemptRows, AttemptStates, CallStates
<1>3. CASE \E r \in filed : LinkCallback(r, p)
  BY <1>3, LinkTypes
<1>4. CASE \E o \in Operators : LoadForManualCheck(o, p)
  <2>1. PICK o \in Operators : LoadForManualCheck(o, p)
    BY <1>4
  <2>2. payment[p].checkout \in 0..MaxAttempts
    BY DEF TypeOK, PaymentRows
  <2>3. [Querying(p) EXCEPT !.phase = "loaded"] \in CheckRows
    BY <2>2 DEF Querying, CheckRows
  <2>4. check' \in [Sessions -> CheckRows]
    BY <2>1, <2>3 DEF LoadForManualCheck, TypeOK
  <2> QED
    BY <2>1, <2>4 DEF LoadForManualCheck, OthersTyped, TypeOK
<1>5. CASE Reverse(p)
  <2>1. announced' \in [Payments -> Statuses]
    BY <1>5, AnnounceType DEF Reverse, Statuses
  <2> QED
    BY <1>5, <2>1 DEF Reverse, OthersTyped, TypeOK
<1> QED
  BY <1>1, <1>2, <1>3, <1>4, <1>5 DEF Request

LEMMA ReconcileTypes ==
    ASSUME TypeOK, SessionsNamePayments, NEW s \in Sessions, Reconcile(s)
    PROVE  OthersTyped'
<1>0. NoCheck \in CheckRows
  BY BoundsAssumption DEF NoCheck, CheckRows
<1>1. ASSUME NEW p \in Payments, Claim(s, p)
      PROVE  OthersTyped'
  <2>1. [phase |-> "claimed", payment |-> p, checkout |-> 0] \in CheckRows
    BY BoundsAssumption DEF CheckRows
  <2> QED
    BY <1>1, <2>1 DEF Claim, OthersTyped, TypeOK
<1>2. CASE BeginCheck(s)
  <2>1. check[s].payment \in Payments
    BY <1>2 DEF BeginCheck, SessionsNamePayments
  <2>2. Querying(check[s].payment) \in CheckRows
    BY <2>1 DEF Querying, CheckRows, TypeOK, PaymentRows
  <2> QED
    BY <1>2, <2>2 DEF BeginCheck, OthersTyped, TypeOK
<1>3. CASE SkipCheck(s) \/ DropCheck(s) \/ CrashCheck(s)
  BY <1>0, <1>3 DEF SkipCheck, DropCheck, CrashCheck, OthersTyped, TypeOK
<1>4. CASE BeginManualCheck(s)
  <2>1. [check[s] EXCEPT !.phase = "querying"] \in CheckRows
    BY DEF TypeOK, CheckRows
  <2> QED
    BY <1>4, <2>1 DEF BeginManualCheck, OthersTyped, TypeOK
<1>5. ASSUME NEW answer \in Answers, NEW aged \in BOOLEAN, ApplyCheck(s, answer, aged)
      PROVE  OthersTyped'
  <2> DEFINE p == check[s].payment
             new == Closed(WithAnswer(payment[p], answer), aged)
             target == IF answer = "success" THEN "success"
                                             ELSE FailureTarget(payment[p].status, answer)
             codeHeard == answer \in FailureCodes \cup {"success"}
             mark == IF answer = "success" THEN "succeeded" ELSE AttemptAfter(target)
  <2>1. p \in Payments
    BY <1>5 DEF ApplyCheck, SessionsNamePayments
  <2>2. payment[p] \in PaymentRows /\ payment[p].status \in Statuses
    BY <2>1 DEF TypeOK, PaymentRows
  <2>3. new.status \in Statuses
    <3>1. new \in PaymentRows
      BY <2>2, WithAnswerType, ClosedType
    <3> QED
      BY <3>1 DEF PaymentRows
  <2>4. ASSUME answer \in FailureCodes
        PROVE  target \in Statuses /\ mark \in AttemptStates
    <3>1. answer # "success" /\ target \in FailureCodes
      BY <2>2, <2>4, FailureTargetType DEF FailureCodes
    <3>2. mark = AttemptAfter(target)
      BY <3>1
    <3> HIDE DEF target, mark
    <3> QED
      BY <3>1, <3>2 DEF FailureCodes, Statuses, AttemptAfter, AttemptStates
  <2>5. codeHeard => target \in Statuses /\ mark \in AttemptStates
    BY <2>4 DEF Statuses, AttemptStates
  <2>6. IF codeHeard THEN MarkAttempt(<<p, check[s].checkout>>, mark) ELSE attempt' = attempt
    BY <1>5 DEF ApplyCheck
  <2>7. IF codeHeard THEN Announce(p, target)
        ELSE IF new.status # payment[p].status THEN Announce(p, new.status)
        ELSE announced' = announced
    BY <1>5 DEF ApplyCheck
  <2>8. check' = [check EXCEPT ![s] = NoCheck] /\ UNCHANGED <<call, provider, filed>>
    BY <1>5 DEF ApplyCheck
  <2> HIDE DEF p, new, target, codeHeard, mark
  <2>9. attempt' \in [Attempts -> AttemptRows]
    BY <2>5, <2>6, MarkType DEF TypeOK
  <2>10. announced' \in [Payments -> Statuses]
    BY <2>3, <2>5, <2>7, AnnounceType DEF TypeOK
  <2> QED
    BY <1>0, <2>8, <2>9, <2>10 DEF OthersTyped, TypeOK
<1> QED
  BY <1>1, <1>2, <1>3, <1>4, <1>5 DEF Reconcile, FinishCheck

(***************************************************************************)
(* The inductive invariant.  TypeOK alone is not inductive, because the    *)
(* row a session writes is found through check; UnknownIsFlagged and       *)
(* SuccessIsEvidenced are not, because a status check that succeeds is     *)
(* flagged only if an unsettled row has no receipt.                        *)
(***************************************************************************)
IInv == TypeOK /\ SessionsNamePayments /\ RowsSound

LEMMA NextEffect ==
    ASSUME IInv, Next
    PROVE  Effect \/ NoEffect \/ \E p \in Payments : Create(p)
<1> USE DEF IInv
<1>1. ASSUME NEW a \in Attempts, Daraja(a)
      PROVE  Effect \/ NoEffect
  <2>1. CASE Transmit(a) \/ \E answer \in {"paid", "declined"} : CustomerAnswers(a, answer)
    BY <2>1 DEF Transmit, CustomerAnswers, NoEffect
  <2>2. ASSUME NEW code \in Codes, Callback(a, code)
        PROVE  Effect \/ NoEffect
    <3>1. CASE CallbackUnmatched(a, code)
      BY <3>1 DEF CallbackUnmatched, NoEffect
    <3>2. CASE FlagConflict(a, code)
      BY <3>2, FlagEffect
    <3>3. CASE CallbackFails(a, code)
      BY <3>3, FailureEffect
    <3>4. CASE CallbackEnriches(a) \/ CallbackSucceeds(a)
      BY <3>4, EnrichmentEffect, SuccessEffect
    <3>5. CASE CallbackUnverified(a)
      BY <3>5, UnverifiedEffect
    <3> QED
      BY <2>2, <3>1, <3>2, <3>3, <3>4, <3>5
         DEF Callback, CallbackOtherReceipt, CallbackBlocked, CallbackReceiptUsed
  <2> QED
    BY <1>1, <2>1, <2>2 DEF Daraja
<1>2. ASSUME NEW a \in Attempts, Respond(a) \/ CrashSubmission(a) \/ Abandon(a)
      PROVE  Effect \/ NoEffect
  <2>1. CASE Respond(a)
    BY <2>1, SubmissionEffect
  <2>2. CASE CrashSubmission(a)
    BY <2>2 DEF CrashSubmission, NoEffect
  <2>3. CASE Abandon(a)
    <3>1. PaymentOf(a) \in Payments /\ SetAside(PaymentOf(a))
      BY <2>3, AttemptParts DEF Abandon
    <3> QED
      BY <3>1, SetAsideEffect
  <2> QED
    BY <1>2, <2>1, <2>2, <2>3
<1>3. ASSUME NEW p \in Payments, Request(p)
      PROVE  Effect \/ NoEffect \/ Create(p)
  <2>1. CASE \E override \in BOOLEAN : Retry(p, override)
    BY <2>1, RetryEffect
  <2>2. CASE \E r \in filed : LinkCallback(r, p)
    BY <2>2, LinkEffect
  <2>3. CASE \E o \in Operators : LoadForManualCheck(o, p)
    BY <2>3 DEF LoadForManualCheck, NoEffect
  <2>4. CASE Reverse(p)
    BY <2>4, ReversalEffect
  <2> QED
    BY <1>3, <2>1, <2>2, <2>3, <2>4 DEF Request
<1>4. ASSUME NEW p \in Payments, ExpireLease(p)
      PROVE  Effect
  <2>1. payment[p].lease_owner \in Sessions \cup {None}
    BY DEF TypeOK, PaymentRows
  <2>2. payment' = [payment EXCEPT ![p] =
                        [@ EXCEPT !.lease_owner = payment[p].lease_owner,
                                  !.lease_live = FALSE]]
    BY <1>4 DEF ExpireLease, TypeOK, PaymentRows
  <2>3. ledger' = ledger
    BY <1>4 DEF ExpireLease
  <2> QED
    BY <2>1, <2>2, <2>3, LeaseEffect
<1>5. ASSUME NEW s \in Sessions, Reconcile(s)
      PROVE  Effect \/ NoEffect
  <2>1. ASSUME NEW p \in Payments, Lease(p, s), ledger' = ledger
        PROVE  Effect
    BY <2>1, LeaseEffect DEF Lease
  <2>2. ASSUME NEW p \in Payments, Claim(s, p)
        PROVE  Effect
    BY <2>1, <2>2 DEF Claim
  <2>3. CASE BeginManualCheck(s)
    BY <2>1, <2>3 DEF BeginManualCheck, SessionsNamePayments
  <2>4. CASE BeginCheck(s) \/ SkipCheck(s) \/ DropCheck(s) \/ CrashCheck(s)
    BY <2>4 DEF BeginCheck, SkipCheck, DropCheck, CrashCheck, NoEffect
  <2>5. CASE FinishCheck(s)
    BY <2>5, CheckEffect DEF FinishCheck
  <2> QED
    BY <1>5, <2>2, <2>3, <2>4, <2>5 DEF Reconcile
<1> QED
  BY <1>1, <1>2, <1>3, <1>4, <1>5 DEF Next

LEMMA NextTypes ==
    ASSUME IInv, Next
    PROVE  OthersTyped'
<1> USE DEF IInv
<1>1. ASSUME NEW a \in Attempts, Transmit(a) \/ CrashSubmission(a) \/ Abandon(a)
                                 \/ \E answer \in {"paid", "declined"} : CustomerAnswers(a, answer)
      PROVE  OthersTyped'
  <2>1. CASE Transmit(a)
    BY <2>1 DEF Transmit, OthersTyped, TypeOK, ProviderStates
  <2>2. CASE CrashSubmission(a)
    BY <2>2, AnsweredType DEF CrashSubmission, OthersTyped, TypeOK, CallStates
  <2>3. CASE Abandon(a)
    <3>1. attempt' \in [Attempts -> AttemptRows]
      BY <2>3, MarkType DEF Abandon, AttemptStates
    <3>2. announced' = announced \/ Announce(PaymentOf(a), "unknown")
      BY <2>3 DEF Abandon
    <3>3. announced' \in [Payments -> Statuses]
      BY <3>2, AnnounceType DEF TypeOK, Statuses
    <3> QED
      BY <2>3, <3>1, <3>3 DEF Abandon, OthersTyped, TypeOK
  <2>4. CASE \E answer \in {"paid", "declined"} : CustomerAnswers(a, answer)
    BY <2>4 DEF CustomerAnswers, OthersTyped, TypeOK, ProviderStates
  <2> QED
    BY <1>1, <2>1, <2>2, <2>3, <2>4
<1>2. ASSUME NEW p \in Payments, ExpireLease(p)
      PROVE  OthersTyped'
  BY <1>2 DEF ExpireLease, OthersTyped, TypeOK
<1> QED
  BY <1>1, <1>2, SubmissionTypes, CallbackTypes, RequestTypes, ReconcileTypes
     DEF Next, Daraja

\* A payment that can be checked has the CheckoutRequestID of an attempt.
LEMMA CheckableNumber ==
    ASSUME TypeOK, NEW p \in Payments, Checkable(p)
    PROVE  payment[p].checkout \in Numbers
BY BoundsAssumption DEF TypeOK, Checkable, PaymentRows, Numbers

LEMMA SessionsStep ==
    ASSUME IInv, Next
    PROVE  SessionsNamePayments'
<1> USE DEF IInv, SessionsNamePayments
<1>1. ASSUME check' = check
      PROVE  SessionsNamePayments'
  BY <1>1
<1>2. ASSUME NEW s \in Sessions, NEW c \in CheckRows, check' = [check EXCEPT ![s] = c],
             c.phase # "idle" => c.payment \in Payments,
             c.phase \in {"loaded", "querying"} => c.checkout \in Numbers
      PROVE  SessionsNamePayments'
  BY <1>2 DEF TypeOK
<1>3. NoCheck \in CheckRows /\ NoCheck.phase = "idle"
  BY BoundsAssumption DEF NoCheck, CheckRows
<1>4. ASSUME NEW a \in Attempts,
             Daraja(a) \/ Respond(a) \/ CrashSubmission(a) \/ Abandon(a)
      PROVE  check' = check
  <2>1. CASE Daraja(a)
    BY <2>1 DEF Daraja, Transmit, CustomerAnswers, Callback, CallbackUnmatched,
                CallbackOtherReceipt, CallbackBlocked, CallbackReceiptUsed, FlagConflict,
                CallbackFails, CallbackEnriches, CallbackSucceeds, CallbackUnverified
  <2>2. CASE Respond(a)
    BY <2>2 DEF Respond, SubmitRefused, SubmitUncertain, SubmitWithoutCheckout,
                SubmitAccepted, SubmitAborted, SubmitRepeatedId, RecordUncertain,
                CommitStale
  <2> QED
    BY <1>4, <2>1, <2>2 DEF CrashSubmission, Abandon
<1>5. ASSUME NEW p \in Payments, Request(p) \/ ExpireLease(p)
      PROVE  SessionsNamePayments'
  <2>1. ASSUME NEW o \in Operators, LoadForManualCheck(o, p)
        PROVE  SessionsNamePayments'
    <3> DEFINE c == [Querying(p) EXCEPT !.phase = "loaded"]
    <3>1. c \in CheckRows /\ c.payment = p /\ c.checkout \in Numbers
      <4>1. payment[p].checkout \in Numbers
        BY <2>1, CheckableNumber DEF LoadForManualCheck
      <4> QED
        BY <4>1, BoundsAssumption DEF Querying, CheckRows, Numbers
    <3>2. check' = [check EXCEPT ![o] = c]
      BY <2>1 DEF LoadForManualCheck
    <3> QED
      BY <1>2, <3>1, <3>2 DEF Sessions
  <2>2. CASE ~\E o \in Operators : LoadForManualCheck(o, p)
    BY <1>1, <1>5, <2>2, ZenonT(40) DEF Request, Create, Retry, LinkCallback, Reverse, ExpireLease
  <2> QED
    BY <2>1, <2>2
<1>6. ASSUME NEW s \in Sessions, Reconcile(s)
      PROVE  SessionsNamePayments'
  <2>1. ASSUME NEW p \in Payments, Claim(s, p)
        PROVE  SessionsNamePayments'
    <3> DEFINE c == [phase |-> "claimed", payment |-> p, checkout |-> 0]
    <3>1. c \in CheckRows /\ c.payment = p /\ c.phase = "claimed"
      BY BoundsAssumption DEF CheckRows
    <3> QED
      BY <1>2, <2>1, <3>1 DEF Claim
  <2>2. CASE BeginCheck(s)
    <3> DEFINE c == Querying(check[s].payment)
    <3>1. c \in CheckRows /\ c.payment \in Payments /\ c.checkout \in Numbers
      <4>1. check[s].payment \in Payments /\ Checkable(check[s].payment)
        BY <2>2 DEF BeginCheck
      <4>2. payment[check[s].payment].checkout \in Numbers
        BY <4>1, CheckableNumber
      <4> QED
        BY <4>1, <4>2, BoundsAssumption DEF Querying, CheckRows, Numbers
    <3> QED
      BY <1>2, <2>2, <3>1 DEF BeginCheck
  <2>3. CASE BeginManualCheck(s)
    <3> DEFINE c == [check[s] EXCEPT !.phase = "querying"]
    <3>1. c \in CheckRows /\ c.payment \in Payments /\ c.checkout \in Numbers
      BY <2>3 DEF BeginManualCheck, CheckRows, TypeOK
    <3>2. check' = [check EXCEPT ![s] = c]
      BY <2>3 DEF BeginManualCheck
    <3> QED
      BY <1>2, <3>1, <3>2
  <2>4. CASE check' = [check EXCEPT ![s] = NoCheck]
    BY <1>2, <1>3, <2>4
  <2> QED
    BY <1>6, <2>1, <2>2, <2>3, <2>4
       DEF Reconcile, SkipCheck, DropCheck, FinishCheck, ApplyCheck, CrashCheck
<1> QED
  BY <1>1, <1>4, <1>5, <1>6 DEF Next

\* What the three kinds of steps do to payment and ledger.
LEMMA RowsStep ==
    ASSUME IInv, Next
    PROVE  /\ payment' \in [Payments -> PaymentRows]
           /\ ledger' \in [Payments -> Seq(LedgerRows)]
           /\ \A q \in Payments : RowStep(payment[q], payment'[q])
<1> USE DEF IInv
<1>0. ASSUME NEW q \in Payments
      PROVE  RowStep(payment[q], payment[q])
  BY DEF RowsSound, RowStep, MachineStep, Sound, Evidenced, SameEvidence
<1>1. CASE Effect
  <2>1. PICK p \in Payments, row \in PaymentRows : Writes(p, row)
    BY <1>1 DEF Effect
  <2>2. payment' = [payment EXCEPT ![p] = row]
    BY <2>1 DEF Writes
  <2>3. payment' \in [Payments -> PaymentRows]
    BY <2>2 DEF TypeOK
  <2>4. \A q \in Payments : RowStep(payment[q], payment'[q])
    BY <1>0, <2>1, <2>2 DEF Writes, TypeOK
  <2>5. ledger' \in [Payments -> Seq(LedgerRows)]
    <3>1. CASE ledger' = ledger
      BY <3>1 DEF TypeOK
    <3>2. CASE \E f \in Statuses : Record(p, f, row.status)
      BY <3>2, RecordType DEF TypeOK, PaymentRows
    <3> QED
      BY <2>1, <3>1, <3>2 DEF Writes, Ledgered
  <2> QED
    BY <2>3, <2>4, <2>5
<1>2. CASE NoEffect
  BY <1>0, <1>2 DEF NoEffect, TypeOK
<1>3. ASSUME NEW p \in Payments, Create(p)
      PROVE  /\ payment' \in [Payments -> PaymentRows]
             /\ ledger' \in [Payments -> Seq(LedgerRows)]
             /\ \A q \in Payments : RowStep(payment[q], payment'[q])
  <2> DEFINE row == [payment[p] EXCEPT !.status = "pending"]
             rows == <<Row("absent", "created"), Row("created", "pending")>>
  <2>1. payment' = [payment EXCEPT ![p] = row] /\ payment[p].status = "absent"
    BY <1>3 DEF Create
  <2>2. row \in PaymentRows /\ row.status = "pending" /\ row.receipt = payment[p].receipt
    BY ZenonT(40) DEF TypeOK, PaymentRows, Statuses
  <2>3. payment[p].receipt = None
    BY <2>1 DEF RowsSound, Sound, Evidenced
  <2> HIDE DEF row
  <2>4. RowStep(payment[p], row)
    BY <2>1, <2>2, <2>3 DEF RowStep, MachineStep, Sound, Flagged, Evidenced
  <2>5. /\ payment' \in [Payments -> PaymentRows]
        /\ \A q \in Payments : RowStep(payment[q], payment'[q])
    BY <1>0, <2>1, <2>2, <2>4 DEF TypeOK
  <2>6. rows \in Seq(LedgerRows)
    <3>1. Row("absent", "created") \in LedgerRows /\ Row("created", "pending") \in LedgerRows
      BY DEF Row, LedgerRows, Statuses
    <3> QED
      BY <3>1
  <2>7. ledger' = [ledger EXCEPT ![p] = rows]
    BY <1>3 DEF Create
  <2> HIDE DEF rows
  <2>8. ledger' \in [Payments -> Seq(LedgerRows)]
    BY <2>6, <2>7 DEF TypeOK
  <2> QED
    BY <2>5, <2>8
<1> QED
  BY <1>1, <1>2, <1>3, NextEffect

LEMMA InitIInv == Init => IInv
<1> SUFFICES ASSUME Init PROVE IInv
  OBVIOUS
<1>1. NewPayment \in PaymentRows /\ NoCheck \in CheckRows
  BY BoundsAssumption DEF NewPayment, PaymentRows, Acceptances, ReceiptStates, Reviews,
                          Sources, Statuses, NoCheck, CheckRows
<1>2. TypeOK
  BY <1>1 DEF Init, TypeOK, AttemptRows, AttemptStates, CallStates, ProviderStates,
              CallbackRows, LedgerRows, Statuses
<1>3. SessionsNamePayments
  BY DEF Init, SessionsNamePayments, NoCheck
<1>4. RowsSound
  BY DEF Init, RowsSound, NewPayment, Sound, Flagged, Evidenced
<1> QED
  BY <1>2, <1>3, <1>4 DEF IInv

LEMMA StepIInv == IInv /\ [Next]_vars => IInv'
<1> SUFFICES ASSUME IInv, [Next]_vars PROVE IInv'
  OBVIOUS
<1>1. CASE Next
  <2>1. TypeOK'
    BY <1>1, RowsStep, NextTypes DEF OthersTyped, TypeOK
  <2>2. SessionsNamePayments'
    BY <1>1, SessionsStep
  <2>3. RowsSound'
    BY <1>1, RowsStep DEF RowStep, RowsSound
  <2> QED
    BY <2>1, <2>2, <2>3 DEF IInv
<1>2. CASE UNCHANGED vars
  BY <1>2 DEF vars, IInv, TypeOK, SessionsNamePayments, RowsSound
<1> QED
  BY <1>1, <1>2

LEMMA Invariance == Spec => []IInv
BY InitIInv, StepIInv, PTL DEF Spec

(***************************************************************************)
(* The theorems.                                                           *)
(***************************************************************************)
\* Every row every handler writes is a row the schema allows, also when the
\* handler works on a stale copy or an expired lease.
THEOREM TypeCorrect == Spec => []TypeOK
<1>1. IInv => TypeOK
  BY DEF IInv
<1> QED
  BY <1>1, Invariance, PTL

\* No handler leaves a payment unknown without the needs_review flag.
THEOREM UnknownIsAlwaysFlagged == Spec => []UnknownIsFlagged
<1>1. IInv => UnknownIsFlagged
  BY DEF IInv, RowsSound, Sound, Flagged, UnknownIsFlagged
<1> QED
  BY <1>1, Invariance, PTL

\* A success always has a receipt, or stays flagged on a status query's word.
THEOREM SuccessIsAlwaysEvidenced == Spec => []SuccessIsEvidenced
<1>1. IInv => SuccessIsEvidenced
  BY DEF IInv, RowsSound, Sound, Evidenced, SuccessIsEvidenced
<1> QED
  BY <1>1, Invariance, PTL

\* No step replaces or downgrades the receipt of a payment.
THEOREM ReceiptEvidenceAlwaysWins == Spec => ReceiptEvidenceWins
<1> DEFINE Kept == \A p \in Payments : payment[p].receipt # None =>
                      /\ payment'[p].receipt = payment[p].receipt
                      /\ payment'[p].source = "callback"
                      /\ payment'[p].receipt_status = payment[p].receipt_status
<1>1. IInv /\ [Next]_vars => [Kept]_vars
  BY RowsStep DEF RowStep, SameEvidence
<1>2. ReceiptEvidenceWins <=> [][Kept]_vars
  BY DEF ReceiptEvidenceWins
<1> HIDE DEF Kept
<1> QED
  BY <1>1, <1>2, Invariance, PTL DEF Spec

(***************************************************************************)
(* The refinement.  Every action writes one row at most, so a step maps to *)
(* a step of PaymentLifecycle on that payment or to a stutter.             *)
(***************************************************************************)
StatusOf == [p \in Payments |-> payment[p].status]

LEMMA StatusStep ==
    ASSUME IInv, Next
    PROVE  \/ StatusOf' = StatusOf
           \/ \E p \in Payments : \E t \in Statuses :
                /\ StatusOf' = [StatusOf EXCEPT ![p] = t]
                /\ MachineStep(StatusOf[p], t)
<1> USE DEF IInv
<1>1. CASE Effect
  <2>1. PICK p \in Payments, row \in PaymentRows : Writes(p, row)
    BY <1>1 DEF Effect
  <2>2. payment' = [payment EXCEPT ![p] = row]
    BY <2>1 DEF Writes
  <2>3. StatusOf' = [StatusOf EXCEPT ![p] = row.status]
    BY <2>2 DEF StatusOf, TypeOK
  <2>4. MachineStep(StatusOf[p], row.status) /\ row.status \in Statuses
    BY <2>1 DEF Writes, RowStep, StatusOf, PaymentRows
  <2> QED
    BY <2>3, <2>4
<1>2. CASE NoEffect
  BY <1>2 DEF NoEffect, StatusOf
<1>3. ASSUME NEW p \in Payments, Create(p)
      PROVE  /\ StatusOf' = [StatusOf EXCEPT ![p] = "pending"]
             /\ StatusOf[p] = "absent"
  <2>1. /\ payment[p].status = "absent"
        /\ payment' = [payment EXCEPT ![p] = [payment[p] EXCEPT !.status = "pending"]]
    BY <1>3 DEF Create
  <2>2. [payment[p] EXCEPT !.status = "pending"].status = "pending"
    BY DEF TypeOK, PaymentRows
  <2> QED
    BY <2>1, <2>2 DEF StatusOf, TypeOK
<1>4. "pending" \in Statuses /\ MachineStep("absent", "pending")
  BY DEF Statuses, MachineStep
<1> QED
  BY <1>1, <1>2, <1>3, <1>4, NextEffect

LEMMA LifecycleStep ==
    ASSUME IInv, Next
    PROVE  [Lifecycle!Next]_StatusOf
<1>1. ASSUME NEW p \in Payments, NEW t \in Statuses,
             StatusOf' = [StatusOf EXCEPT ![p] = t], MachineStep(StatusOf[p], t)
      PROVE  Lifecycle!Next \/ StatusOf' = StatusOf
  <2>1. CASE t = StatusOf[p]
    BY <1>1, <2>1 DEF StatusOf
  <2>2. CASE StatusOf[p] = "absent" /\ t = "pending"
    BY <1>1, <2>2 DEF Lifecycle!Next, Lifecycle!Open, StatusOf
  <2>3. CASE t \in Allowed[StatusOf[p]]
    <3>1. Lifecycle!Advance(p, t)
      BY <1>1, <2>3
         DEF Lifecycle!Advance, StatusOf, Allowed, Lifecycle!Allowed, Statuses,
             Lifecycle!Statuses
    <3> QED
      BY <3>1 DEF Lifecycle!Next, Statuses, Lifecycle!Statuses
  <2>4. CASE StatusOf[p] \in RetryableStates /\ t = "pending"
    BY <1>1, <2>4
       DEF Lifecycle!Next, Lifecycle!BeginRetry, StatusOf, RetryableStates,
           Lifecycle!RetryableStates
  <2> QED
    BY <1>1, <2>1, <2>2, <2>3, <2>4 DEF MachineStep
<1> QED
  BY <1>1, StatusStep

\* Whatever handlers, crashes, late answers and operators do, the status of a
\* payment only takes steps of the state machine: the deferred trigger and the
\* guards of the handlers together implement PaymentLifecycle.
THEOREM Refinement == Spec => ImplementsLifecycle
<1>1. Init => Lifecycle!Init
  BY DEF Init, Lifecycle!Init, NewPayment
<1>2. IInv /\ [Next]_vars => [Lifecycle!Next]_StatusOf
  <2>1. UNCHANGED vars => UNCHANGED StatusOf
    BY DEF vars, StatusOf
  <2> QED
    BY <2>1, LifecycleStep
<1>3. ImplementsLifecycle <=> Lifecycle!Init /\ [][Lifecycle!Next]_StatusOf
  BY DEF ImplementsLifecycle, Lifecycle!Spec, StatusOf
<1> QED
  BY <1>1, <1>2, <1>3, Invariance, PTL DEF Spec

\* A success is final except for a reversal.
THEOREM SuccessStaysFinal == Spec => SuccessIsFinal
<1> DEFINE Final == \A p \in Payments :
                /\ StatusOf[p] = "success" => StatusOf'[p] \in {"success", "reversed"}
                /\ StatusOf[p] = "reversed" => StatusOf'[p] = "reversed"
<1>1. IInv /\ [Next]_vars => [Final]_StatusOf
  <2> SUFFICES ASSUME IInv, Next PROVE [Final]_StatusOf
    BY DEF vars, StatusOf
  <2>1. ASSUME NEW p \in Payments, NEW t \in Statuses,
               StatusOf' = [StatusOf EXCEPT ![p] = t], MachineStep(StatusOf[p], t)
        PROVE  Final
    <3>1. \A q \in Payments : StatusOf'[q] = IF q = p THEN t ELSE StatusOf[q]
      BY <2>1 DEF StatusOf
    <3>2. /\ StatusOf[p] = "success" => t \in {"success", "reversed"}
          /\ StatusOf[p] = "reversed" => t = "reversed"
      BY <2>1 DEF MachineStep, Allowed, Statuses, RetryableStates
    <3> QED
      BY <3>1, <3>2
  <2> QED
    BY <2>1, StatusStep
<1>2. SuccessIsFinal <=> [][Final]_StatusOf
  BY DEF SuccessIsFinal, Lifecycle!SuccessIsFinal, StatusOf
<1> HIDE DEF Final
<1> QED
  BY <1>1, <1>2, Invariance, PTL DEF Spec

=============================================================================
