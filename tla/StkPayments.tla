---------------------------- MODULE StkPayments ----------------------------
(***************************************************************************)
(* The payment core of LynxPay: one STK payment is created, submitted to   *)
(* Daraja, answered, called back, reconciled, abandoned, retried, linked   *)
(* by an operator and reversed.  Every action is one database transaction  *)
(* of the code (a handler that commits several times is several actions),  *)
(* so the interleavings of this module are those of API processes, callback*)
(* deliveries, workers and operators on one PostgreSQL database.           *)
(***************************************************************************)
EXTENDS PaymentStates, Integers, Sequences, FiniteSets

CONSTANTS
    Payments,           \* payment rows, one per merchant and external reference
    MaxAttempts,        \* bound: STK attempts of one payment
    MaxChecks,          \* RECONCILIATION_MAX_ATTEMPTS
    MaxLedger,          \* bound: ledger rows beyond which no failure is reported
                        \* once more in other words
    Workers,            \* reconciliation workers
    Reliable,           \* the workers that do not die inside a check
    Operators,          \* sessions of the manual reconcile endpoint
    ResultCodes,        \* the classes of result codes Daraja uses
    None,               \* SQL NULL
    Overtaking,         \* may a submission outlive STK_SUBMITTING_TIMEOUT_SECONDS?
    ProviderRepeatsIds  \* may Daraja answer with a CheckoutRequestID already used?

Numbers  == 1..MaxAttempts
Attempts == Payments \X Numbers
Sessions == Workers \cup Operators
PaymentOf(a) == a[1]
NumberOf(a)  == a[2]

ASSUME BoundsAssumption == MaxAttempts \in Nat \ {0} /\ MaxChecks \in Nat \ {0}
ASSUME LedgerAssumption == MaxLedger \in Nat
ASSUME SessionsAssumption == Workers \cap Operators = {} /\ None \notin Sessions
ASSUME CodesAssumption == ResultCodes \subseteq Codes
ASSUME ReliableAssumption == Reliable \subseteq Workers
ASSUME NoneAssumption == None \notin Attempts /\ None \notin Payments
ASSUME SwitchAssumption == Overtaking \in BOOLEAN /\ ProviderRepeatsIds \in BOOLEAN

VARIABLES
    payment,    \* the lynxpay_payments rows
    attempt,    \* the lynxpay_payment_attempts rows
    call,       \* the API process that submits an attempt
    provider,   \* what Daraja and the customer did with an attempt
    filed,      \* the lynxpay_mpesa_callbacks rows a later handler reads
    check,      \* the reconciliation session of each worker and operator
    ledger,     \* the append-only lynxpay_payment_ledger, per payment
    announced   \* the newest webhook event queued for a payment

vars == <<payment, attempt, call, provider, filed, check, ledger, announced>>

(***************************************************************************)
(* Types.  A CheckoutRequestID is represented by the number of the attempt *)
(* it was issued for (0: none) and a receipt by the attempt it belongs to. *)
(* "due" is next_reconciliation_at being set, "lease_live" is              *)
(* reconciliation_lease_expires_at lying in the future.                    *)
(***************************************************************************)
Acceptances   == {"not_sent", "accepted", "rejected", "uncertain"}
ReceiptStates == {"missing", "present", "enriched_later", "not_applicable"}
Reviews       == {"none", "needs_review", "resolved"}
Sources       == {"callback", "status_query", "unknown"}

PaymentRows ==
    [status : Statuses, checkout : 0..MaxAttempts, acceptance : Acceptances,
     receipt : Attempts \cup {None}, receipt_status : ReceiptStates,
     review : Reviews, source : Sources, due : BOOLEAN, checks : 0..MaxChecks,
     lease_owner : Sessions \cup {None}, lease_live : BOOLEAN]

AttemptStates ==
    {"absent", "created", "submitting", "accepted", "not_sent", "rejected",
     "uncertain", "abandoned", "succeeded", "failed", "timeout", "conflict"}

\* "known": the attempt's checkout_request_id is recorded.
AttemptRows == [status : AttemptStates, known : BOOLEAN]

\* sending: awaits Daraja; lost: nobody awaits the answer, the request may
\* still be under way; done: the answer was handled; repeated: it named a
\* CheckoutRequestID of another attempt, whose callbacks it now shares.
CallStates == {"idle", "sending", "lost", "done", "repeated"}

ProviderStates == {"none", "prompted", "paid", "declined"}

FiledStates ==
    {"unmatched", "conflict", "processed_success", "processed_failure",
     "processed_unknown"}
CallbackRows ==
    [of : Attempts, code : Codes, status : FiledStates, payment : Payments \cup {None}]

CheckRows ==
    [phase : {"idle", "claimed", "loaded", "querying"}, payment : Payments \cup {None},
     checkout : 0..MaxAttempts]
NoCheck == [phase |-> "idle", payment |-> None, checkout |-> 0]

Row(f, t) == [from |-> f, to |-> t]
LedgerRows == [from : Statuses, to : Statuses]

TypeOK ==
    /\ payment \in [Payments -> PaymentRows]
    /\ attempt \in [Attempts -> AttemptRows]
    /\ call \in [Attempts -> CallStates]
    /\ provider \in [Attempts -> ProviderStates]
    /\ filed \subseteq CallbackRows
    /\ check \in [Sessions -> CheckRows]
    /\ ledger \in [Payments -> Seq(LedgerRows)]
    /\ announced \in [Payments -> Statuses]

NewPayment ==
    [status |-> "absent", checkout |-> 0, acceptance |-> "not_sent",
     receipt |-> None, receipt_status |-> "missing", review |-> "none",
     source |-> "unknown", due |-> FALSE, checks |-> 0,
     lease_owner |-> None, lease_live |-> FALSE]

Init ==
    /\ payment = [p \in Payments |-> NewPayment]
    /\ attempt = [a \in Attempts |-> [status |-> "absent", known |-> FALSE]]
    /\ call = [a \in Attempts |-> "idle"]
    /\ provider = [a \in Attempts |-> "none"]
    /\ filed = {}
    /\ check = [s \in Sessions |-> NoCheck]
    /\ ledger = [p \in Payments |-> <<>>]
    /\ announced = [p \in Payments |-> "absent"]

(***************************************************************************)
(* Building blocks shared by the handlers.                                 *)
(***************************************************************************)
\* The ledger half of transition_and_record.
Record(p, f, t) == ledger' = [ledger EXCEPT ![p] = Append(@, Row(f, t))]

\* queue_webhooks
Announce(p, event) == announced' = [announced EXCEPT ![p] = event]

MarkAttempt(a, s) == attempt' = [attempt EXCEPT ![a].status = s]

\* The deferred trigger of migration 0012: a status that changes in the
\* database must have a ledger row of this transaction that leaves the old one.
TriggerTrusts(old, row) == TRUE    \* mutant: a ledger row for any old state will do
TriggerAccepts(old, row) == old = row.to \/ old = row.from

(***************************************************************************)
(* create_stk_push: one transaction stores the payment, takes it to pending*)
(* and stores attempt 1 before Daraja is called.  A replay of the same     *)
(* reference finds the row and changes nothing.                            *)
(***************************************************************************)
Create(p) ==
    /\ payment[p].status = "absent"
    /\ payment' = [payment EXCEPT ![p].status = "pending"]
    /\ ledger' = [ledger EXCEPT ![p] =
                    <<Row("absent", "created"), Row("created", "pending")>>]
    /\ attempt' = [attempt EXCEPT ![<<p, 1>>].status = "submitting"]
    /\ call' = [call EXCEPT ![<<p, 1>>] = "sending"]
    /\ UNCHANGED <<provider, filed, check, announced>>

(***************************************************************************)
(* Daraja and the customer.  Neither belongs to the repository: a request  *)
(* that is on the wire may reach Daraja after its sender gave up, a prompt *)
(* that was shown is paid, declined or left open.                          *)
(***************************************************************************)
Transmit(a) ==
    /\ call[a] \in {"sending", "lost"}
    /\ provider[a] = "none"
    /\ provider' = [provider EXCEPT ![a] = "prompted"]
    /\ UNCHANGED <<payment, attempt, call, filed, check, ledger, announced>>

CustomerAnswers(a, answer) ==
    /\ provider[a] = "prompted"
    /\ provider' = [provider EXCEPT ![a] = answer]
    /\ UNCHANGED <<payment, attempt, call, filed, check, ledger, announced>>

\* What Daraja may truthfully report of attempt a.  Codes of the timeout and
\* unknown classes are not definite: the customer may still pay afterwards.
MayReport(a, code) ==
    /\ code \in ResultCodes
    /\ call[a] # "repeated"
    /\ provider[a] # "none"
    /\ code \in SuccessCodes => provider[a] = "paid"
    /\ code = "failed" => provider[a] = "declined"

(***************************************************************************)
(* _submit_stk_attempt after its await.  The handler loaded the payment    *)
(* before the call, when it was pending with nothing recorded, holds no    *)
(* row lock, and writes only the columns it changed in memory; whatever    *)
(* another transaction did meanwhile stays in the other columns.  The      *)
(* ledger row says "pending -> target", and the trigger refuses the whole  *)
(* commit when the row had left pending for another state than the target. *)
(***************************************************************************)
Answered(a, c) == call[a] = "sending" /\ call' = [call EXCEPT ![a] = c]

CommitStale(a, target, row, att) ==
    LET p == PaymentOf(a) IN
    /\ TriggerAccepts(payment[p].status, Row("pending", target))
    /\ payment' = [payment EXCEPT ![p] = row]
    /\ attempt' = [attempt EXCEPT ![a] = att]
    /\ Record(p, "pending", target)
    /\ Announce(p, target)
    /\ UNCHANGED <<provider, filed, check>>

\* DarajaRequestNotSentError, or a ResponseCode other than 0.
SubmitRefused(a, outcome) ==
    LET p == PaymentOf(a) IN
    /\ Answered(a, "done")
    /\ provider[a] = "none"
    /\ CommitStale(a, "failed",
            [payment[p] EXCEPT !.status = "failed", !.acceptance = "rejected",
                               !.receipt_status = "not_applicable"],
            [attempt[a] EXCEPT !.status = outcome])

RecordUncertain(a) ==
    LET p == PaymentOf(a) IN
    CommitStale(a, "unknown",
        [payment[p] EXCEPT !.status = "unknown", !.acceptance = "uncertain",
                           !.review = "needs_review"],
        [attempt[a] EXCEPT !.status = "uncertain"])

\* A timeout, a network error or a 5xx: the request may still arrive.
SubmitUncertain(a) == Answered(a, "lost") /\ RecordUncertain(a)

\* Accepted without a CheckoutRequestID.
SubmitWithoutCheckout(a) ==
    /\ Answered(a, "done")
    /\ provider[a] # "none"
    /\ RecordUncertain(a)

SubmitAccepted(a) ==
    LET p == PaymentOf(a) IN
    /\ Answered(a, "done")
    /\ provider[a] # "none"
    /\ CommitStale(a, "stk_sent",
            [payment[p] EXCEPT !.status = "stk_sent", !.checkout = NumberOf(a),
                               !.acceptance = "accepted", !.due = TRUE],
            [status |-> "accepted", known |-> TRUE])

\* The trigger refuses the commit: the exception ends the request, and the
\* answer of Daraja is recorded nowhere.
SubmitAborted(a, target) ==
    LET p == PaymentOf(a) IN
    /\ Answered(a, IF target = "unknown" THEN "lost" ELSE "done")
    /\ target = "failed" => provider[a] = "none"
    /\ target = "stk_sent" => provider[a] # "none"
    /\ ~TriggerAccepts(payment[p].status, Row("pending", target))
    /\ UNCHANGED <<payment, attempt, provider, filed, check, ledger, announced>>

\* A payment whose submission ended without a usable answer: flagged, and
\* unknown if nothing else moved it on.
SetAsideUnflagged(p) ==             \* mutant: the review flag is forgotten
    LET pending == payment[p].status = "pending" IN
    /\ payment' = [payment EXCEPT ![p].status = IF pending THEN "unknown" ELSE @,
                                  ![p].acceptance = "uncertain"]
    /\ IF pending THEN Record(p, "pending", "unknown") ELSE UNCHANGED ledger

SetAsideInPlace(p) ==               \* mutant: the payment is flagged, but stays pending
    /\ payment' = [payment EXCEPT ![p].acceptance = "uncertain",
                                  ![p].review = "needs_review"]
    /\ UNCHANGED ledger

SetAside(p) ==
    LET pending == payment[p].status = "pending" IN
    /\ payment' = [payment EXCEPT ![p] =
            [@ EXCEPT !.status = IF pending THEN "unknown" ELSE payment[p].status,
                      !.acceptance = "uncertain", !.review = "needs_review"]]
    /\ IF pending THEN Record(p, "pending", "unknown") ELSE UNCHANGED ledger

\* The unique constraints refuse a CheckoutRequestID that another attempt
\* holds; the handler rolls back and flags the payment under a row lock.
SubmitRepeatedId(a) ==
    /\ ProviderRepeatsIds
    /\ Answered(a, "repeated")
    /\ provider[a] # "none"
    /\ \E b \in Attempts \ {a} : attempt[b].known
    /\ SetAside(PaymentOf(a))
    /\ UNCHANGED <<attempt, provider, filed, check, announced>>

\* The API process dies while it awaits Daraja.
CrashSubmission(a) ==
    /\ Answered(a, "lost")
    /\ UNCHANGED <<payment, attempt, provider, filed, check, ledger, announced>>

(***************************************************************************)
(* abandon_stale_stk_submissions, for one attempt of the batch.  Without   *)
(* Overtaking, a submission ends before the cutoff of 120 seconds.         *)
(***************************************************************************)
AbandonSilently(a) ==               \* mutant: no webhook event
    /\ attempt[a].status = "submitting"
    /\ call[a] = "sending" => Overtaking
    /\ MarkAttempt(a, "abandoned")
    /\ SetAside(PaymentOf(a))
    /\ UNCHANGED <<call, provider, filed, check, announced>>

Abandon(a) ==
    LET p == PaymentOf(a) IN
    /\ attempt[a].status = "submitting"
    /\ call[a] = "sending" => Overtaking
    /\ MarkAttempt(a, "abandoned")
    /\ SetAside(p)
    /\ IF payment[p].status = "pending" THEN Announce(p, "unknown")
                                        ELSE UNCHANGED announced
    /\ UNCHANGED <<call, provider, filed, check>>

(***************************************************************************)
(* retry_payment: a definite rejection may be retried by anyone, a timeout *)
(* or unknown payment only with the override of an administrator.          *)
(***************************************************************************)
AttemptsOf(p) == {n \in Numbers : attempt[<<p, n>>].status # "absent"}
NextNumber(p) == Cardinality(AttemptsOf(p)) + 1

MayRetryFailed(p, override) ==      \* mutant: any failure counts as a rejection
    /\ payment[p].status \in RetryableStates
    /\ payment[p].receipt = None
    /\ payment[p].status \in {"timeout", "unknown"} => override

MayRetry(p, override) ==
    /\ payment[p].status \in RetryableStates
    /\ payment[p].receipt = None
    /\ payment[p].receipt_status \notin {"present", "enriched_later"}
    /\ payment[p].status = "failed" => payment[p].acceptance = "rejected"
    /\ payment[p].status \in {"timeout", "unknown"} => override

Retry(p, override) ==
    LET a == <<p, NextNumber(p)>> IN
    /\ NextNumber(p) \in Numbers
    /\ MayRetry(p, override)
    /\ payment' = [payment EXCEPT ![p] =
            [@ EXCEPT !.status = "pending", !.checkout = 0, !.due = FALSE,
                      !.acceptance = "not_sent", !.receipt_status = "missing",
                      !.review = "none"]]
    /\ Record(p, payment[p].status, "pending")
    /\ attempt' = [attempt EXCEPT ![a].status = "created"]
    /\ call' = [call EXCEPT ![a] = "sending"]
    /\ UNCHANGED <<provider, filed, check, announced>>

(***************************************************************************)
(* receive_mpesa_callback.  Daraja may deliver a result any number of      *)
(* times, late, or never, so a delivery needs no message in flight: any    *)
(* code the provider may report can arrive in any state.  The raw row is   *)
(* committed first; matching, the payment lock and the verdict follow in a *)
(* second transaction.  Rows no later step reads (malformed, oversized,    *)
(* source_rejected, duplicate, verification_failed) are not kept, and a    *)
(* delivery that leaves nothing but such a row is a step without effect.   *)
(***************************************************************************)
File(a, code, s, p) ==
    filed' = filed \cup {[of |-> a, code |-> code, status |-> s, payment |-> p]}

Filed(a, code, states) ==
    \E r \in filed : r.of = a /\ r.code = code /\ r.status \in states

\* A delivery that finds its attempt and is no duplicate of a processed one.
\* A failure is a duplicate when code and description are the same; a class of
\* codes has many of these, so a failure of a class seen before may be new.
Matched(a, code) ==
    /\ MayReport(a, code)
    /\ attempt[a].known
    /\ code = "success" => ~Filed(a, code, {"processed_success"})
    /\ code \in FailureCodes /\ Filed(a, code, {"processed_failure", "processed_unknown"})
          => Len(ledger[PaymentOf(a)]) < MaxLedger

CallbackUnmatched(a, code) ==
    /\ MayReport(a, code)
    /\ ~attempt[a].known
    /\ File(a, code, "unmatched", None)
    /\ UNCHANGED <<payment, attempt, call, provider, check, ledger, announced>>

\* The verdict "conflict" in each of its three forms only flags the payment.
FlagConflict(a, code) ==
    LET p == PaymentOf(a) IN
    /\ payment' = [payment EXCEPT ![p].review = "needs_review"]
    /\ MarkAttempt(a, "conflict")
    /\ File(a, code, "conflict", p)
    /\ UNCHANGED <<call, provider, check, ledger, announced>>

\* Another payment holds the receipt.
CallbackReceiptUsed(a) ==
    /\ Matched(a, "reused")
    /\ \E q \in Payments \ {PaymentOf(a)} : payment[q].receipt # None
    /\ FlagConflict(a, "reused")

\* The payment succeeded with another receipt.
CallbackOtherReceipt(a, code) ==
    LET row == payment[PaymentOf(a)] IN
    /\ Matched(a, code)
    /\ code \in {"success", "unverified"}
    /\ row.status = "success"
    /\ row.receipt # None
    /\ code = "success" => row.receipt # a
    /\ FlagConflict(a, code)

\* InvalidPaymentTransitionError
CallbackBlocked(a, code) ==
    LET s == payment[PaymentOf(a)].status IN
    /\ Matched(a, code)
    /\ \/ code = "success" /\ ~MayMove(s, "success")
       \/ code \in FailureCodes /\ ~MayMove(s, FailureTarget(s, code))
    /\ FlagConflict(a, code)

\* A success confirmed by a status query earlier gets its receipt.
CallbackEnriches(a) ==
    LET p == PaymentOf(a) IN
    /\ Matched(a, "success")
    /\ payment[p].status = "success"
    /\ payment[p].receipt = None
    /\ payment' = [payment EXCEPT ![p] =
            [@ EXCEPT !.receipt = a, !.source = "callback",
                      !.receipt_status = "enriched_later",
                      !.review = "resolved", !.acceptance = "accepted"]]
    /\ MarkAttempt(a, "succeeded")
    /\ File(a, "success", "processed_success", p)
    /\ UNCHANGED <<call, provider, check, ledger, announced>>

CallbackSucceeds(a) ==
    LET p == PaymentOf(a) IN
    /\ Matched(a, "success")
    /\ payment[p].status # "success"
    /\ MayMove(payment[p].status, "success")
    /\ payment' = [payment EXCEPT ![p] =
            [@ EXCEPT !.status = "success", !.receipt = a, !.source = "callback",
                      !.receipt_status = "present", !.review = "none",
                      !.acceptance = "accepted"]]
    /\ Record(p, payment[p].status, "success")
    /\ Announce(p, "success")
    /\ MarkAttempt(a, "succeeded")
    /\ File(a, "success", "processed_success", p)
    /\ UNCHANGED <<call, provider, check>>

\* Code 0 whose evidence fails callback_matches_payment.
CallbackUnverified(a) ==
    LET p == PaymentOf(a)
        s == payment[p].status
        sent == s = "stk_sent"
    IN
    /\ Matched(a, "unverified")
    /\ ~(s = "success" /\ payment[p].receipt # None)
    /\ payment' = IF s = "success" THEN payment
                  ELSE [payment EXCEPT ![p] =
                        [@ EXCEPT !.status = IF sent THEN "unknown" ELSE s,
                                  !.review = "needs_review",
                                  !.acceptance = "accepted"]]
    /\ IF sent THEN Record(p, "stk_sent", "unknown") /\ Announce(p, "unknown")
               ELSE UNCHANGED <<ledger, announced>>
    /\ UNCHANGED <<attempt, call, provider, filed, check>>

\* What a failure code writes, in the callback and in the status check alike.
WithFailure(row, target, code) ==
    [row EXCEPT !.status = target, !.acceptance = "accepted",
                !.receipt_status = IF target = "unknown" THEN "missing"
                                                         ELSE "not_applicable",
                !.review = IF code = "unknown" THEN "needs_review" ELSE "none"]

AttemptAfterAsIs(target) == target  \* mutant: an attempt has no state "unknown"
AttemptAfter(target) == IF target = "unknown" THEN "uncertain" ELSE target

CallbackFails(a, code) ==
    LET p == PaymentOf(a)
        s == payment[p].status
        target == FailureTarget(s, code)
    IN
    /\ code \in FailureCodes
    /\ Matched(a, code)
    /\ MayMove(s, target)
    /\ payment' = [payment EXCEPT ![p] = WithFailure(@, target, code)]
    /\ IF s = "unknown" /\ target = "unknown" THEN UNCHANGED ledger
                                              ELSE Record(p, s, target)
    /\ Announce(p, target)
    /\ MarkAttempt(a, AttemptAfter(target))
    /\ File(a, code, IF target = "unknown" THEN "processed_unknown"
                                           ELSE "processed_failure", p)
    /\ UNCHANGED <<call, provider, check>>

Callback(a, code) ==
    \/ CallbackUnmatched(a, code)
    \/ CallbackOtherReceipt(a, code)
    \/ CallbackBlocked(a, code)
    \/ CallbackFails(a, code)
    \/ /\ code \in SuccessCodes
       /\ \/ code = "success" /\ (CallbackEnriches(a) \/ CallbackSucceeds(a))
          \/ code = "unverified" /\ CallbackUnverified(a)
          \/ code = "reused" /\ CallbackReceiptUsed(a)

(***************************************************************************)
(* link_unmatched_callback: a platform administrator links an unmatched    *)
(* callback to a payment of the merchant.  A success is checked against    *)
(* amount and phone only, so it may name any payment of the same amount    *)
(* and phone; a failure needs a CheckoutRequestID of the payment.  Code    *)
(* 1037 stands for the timeout class.                                      *)
(***************************************************************************)
\* The attempt marked: the one the callback names, else the newest.
LinkedAttempt(r, p) ==
    IF PaymentOf(r.of) = p /\ attempt[r.of].known
    THEN r.of
    ELSE <<p, CHOOSE n \in AttemptsOf(p) : \A m \in AttemptsOf(p) : m <= n>>

LinkTarget(r, p) ==
    IF r.code = "success" THEN "success"
    ELSE IF r.code = "timeout" /\ payment[p].status = "stk_sent" THEN "timeout"
    ELSE "failed"

MayLinkAgain(r, p) ==               \* mutant: the receipt may be in use
    /\ r.status = "unmatched"
    /\ payment[p].status \in Unsettled
    /\ r.code \in FailureCodes \cup {"success"}
    /\ r.code \in FailureCodes => PaymentOf(r.of) = p /\ attempt[r.of].known

MayLink(r, p) ==
    /\ r.status = "unmatched"
    /\ payment[p].status \in Unsettled
    /\ r.code \in FailureCodes \cup {"success"}
    /\ r.code = "success" => \A q \in Payments \ {p} : payment[q].receipt # r.of
    /\ r.code \in FailureCodes => PaymentOf(r.of) = p /\ attempt[r.of].known

LinkCallback(r, p) ==
    LET target == LinkTarget(r, p)
        linked == [r EXCEPT !.payment = p,
                            !.status = IF target = "success" THEN "processed_success"
                                                             ELSE "processed_failure"]
    IN
    /\ MayLink(r, p)
    /\ MayMove(payment[p].status, target)
    /\ payment' = [payment EXCEPT ![p] =
            IF target = "success"
            THEN [@ EXCEPT !.status = target, !.acceptance = "accepted",
                           !.review = "resolved", !.receipt = r.of,
                           !.source = "callback", !.receipt_status = "present"]
            ELSE [@ EXCEPT !.status = target, !.acceptance = "accepted",
                           !.review = "resolved",
                           !.receipt_status = "not_applicable"]]
    /\ Record(p, payment[p].status, target)
    /\ Announce(p, target)
    /\ MarkAttempt(LinkedAttempt(r, p),
                   IF target = "success" THEN "succeeded" ELSE target)
    \* A second delivery of the same callback may have left a second row.
    /\ \/ filed' = (filed \ {r}) \cup {linked}
       \/ filed' = filed \cup {linked}
    /\ UNCHANGED <<call, provider, check>>

(***************************************************************************)
(* Reconciliation.  claim_reconciliations leases a due payment; phase 1 of *)
(* reconcile_payment snapshots its CheckoutRequestID and commits; Daraja is*)
(* asked without a lock; phase 2 locks the payment again and applies the   *)
(* answer if the lease is still held.  A lease may expire at any time and  *)
(* a worker may die at any time.                                           *)
(***************************************************************************)
Checkable(p) == payment[p].status \in Unsettled /\ payment[p].checkout # 0

Querying(p) ==
    [phase |-> "querying", payment |-> p, checkout |-> payment[p].checkout]

Lease(p, s) ==
    payment' = [payment EXCEPT ![p].lease_owner = s, ![p].lease_live = TRUE]

Claim(w, p) ==
    /\ check[w].phase = "idle"
    /\ Checkable(p)
    /\ payment[p].checks < MaxChecks
    /\ payment[p].due
    /\ payment[p].lease_owner = None \/ ~payment[p].lease_live
    /\ Lease(p, w)
    /\ check' = [check EXCEPT ![w] =
                    [phase |-> "claimed", payment |-> p, checkout |-> 0]]
    /\ UNCHANGED <<attempt, call, provider, filed, ledger, announced>>

BeginCheck(w) ==
    LET p == check[w].payment IN
    /\ check[w].phase = "claimed"
    /\ Checkable(p)
    /\ payment[p].lease_owner = w
    /\ check' = [check EXCEPT ![w] = Querying(p)]
    /\ UNCHANGED <<payment, attempt, call, provider, filed, ledger, announced>>

\* The early returns of phase 1; a lease that is held stays held.
SkipCheck(w) ==
    LET p == check[w].payment IN
    /\ check[w].phase = "claimed"
    /\ ~Checkable(p) \/ payment[p].lease_owner # w
    /\ check' = [check EXCEPT ![w] = NoCheck]
    /\ UNCHANGED <<payment, attempt, call, provider, filed, ledger, announced>>

\* The manual endpoint reads the payment without a lock first.  Phase 1 then
\* locks the row but keeps the copy its session already holds, so its checks
\* and its snapshot are those of the first read.
LoadForManualCheck(o, p) ==
    /\ check[o].phase = "idle"
    /\ Checkable(p)
    /\ payment[p].lease_owner = None \/ ~payment[p].lease_live
    /\ check' = [check EXCEPT ![o] = [Querying(p) EXCEPT !.phase = "loaded"]]
    /\ UNCHANGED <<payment, attempt, call, provider, filed, ledger, announced>>

BeginManualCheck(o) ==
    /\ check[o].phase = "loaded"
    /\ Lease(check[o].payment, o)
    /\ check' = [check EXCEPT ![o].phase = "querying"]
    /\ UNCHANGED <<attempt, call, provider, filed, ledger, announced>>

\* Phase 2 without the lease: roll back.
DropCheck(s) ==
    /\ check[s].phase = "querying"
    /\ payment[check[s].payment].lease_owner # s
    /\ check' = [check EXCEPT ![s] = NoCheck]
    /\ UNCHANGED <<payment, attempt, call, provider, filed, ledger, announced>>

\* The query says that the customer paid, but carries no receipt.
QueriedSuccessUnflagged(row) ==     \* mutant: a success needs no review
    [row EXCEPT !.status = "success", !.source = "status_query", !.acceptance = "accepted",
                !.receipt_status = IF row.receipt = None THEN "missing" ELSE "present",
                !.review = "none"]

QueriedSuccess(row) ==
    [row EXCEPT !.status = "success", !.source = "status_query", !.acceptance = "accepted",
                !.receipt_status = IF row.receipt = None THEN "missing" ELSE "present",
                !.review = IF row.receipt = None THEN "needs_review" ELSE "none"]

\* The query failed, or gave no usable result code.
UnansweredIsPaid(row) ==            \* mutant: an accepted query counts as a payment
    [row EXCEPT !.status = "success", !.source = "status_query", !.review = "needs_review"]

Unanswered(row) == [row EXCEPT !.acceptance = "uncertain"]

\* The row after the verdict of phase 2 on an answer ("none": no usable one).
WithAnswer(row, answer) ==
    CASE answer = "success" -> QueriedSuccess(row)
      [] answer \in FailureCodes ->
            WithFailure(row, FailureTarget(row.status, answer), answer)
      [] answer = "none" -> Unanswered(row)
      [] OTHER -> row

\* The end of phase 2: count the check, schedule the next one or give up
\* (also when the payment is older than 24 hours), and release the lease.
ExhaustedLate(n, aged) == n > MaxChecks \/ aged     \* mutant: one check too many
Exhausted(n, aged) == n = MaxChecks \/ aged

Closed(row, aged) ==
    LET n == IF row.checks < MaxChecks THEN row.checks + 1 ELSE MaxChecks
        waiting == row.status \in Unsettled
        exhausted == waiting /\ Exhausted(n, aged)
    IN  [row EXCEPT !.checks = n, !.lease_owner = None, !.lease_live = FALSE,
                    !.due = waiting /\ ~exhausted,
                    !.status = IF exhausted THEN "unknown" ELSE @,
                    !.review = IF exhausted THEN "needs_review" ELSE @]

SupersededByRetry(s) ==             \* mutant: a callback in between goes unnoticed
    payment[check[s].payment].checkout # check[s].checkout

Superseded(s) ==
    LET row == payment[check[s].payment] IN
    row.status \notin Unsettled \/ row.checkout # check[s].checkout

ApplyCheck(s, answer, aged) ==
    LET p == check[s].payment
        a == <<p, check[s].checkout>>
        old == payment[p]
        new == Closed(WithAnswer(old, answer), aged)
        target == IF answer = "success" THEN "success"
                                        ELSE FailureTarget(old.status, answer)
        codeHeard == answer \in FailureCodes \cup {"success"}
    IN
    /\ check[s].phase = "querying"
    /\ old.lease_owner = s
    /\ Superseded(s) <=> answer = "superseded"
    /\ codeHeard => MayReport(a, answer)
    /\ payment' = [payment EXCEPT ![p] = new]
    /\ IF new.status # old.status THEN Record(p, old.status, new.status)
                                  ELSE UNCHANGED ledger
    /\ IF codeHeard
       THEN MarkAttempt(a, IF answer = "success" THEN "succeeded"
                                                 ELSE AttemptAfter(target))
       ELSE UNCHANGED attempt
    /\ IF codeHeard THEN Announce(p, target)
       ELSE IF new.status # old.status THEN Announce(p, new.status)
       ELSE UNCHANGED announced
    /\ check' = [check EXCEPT ![s] = NoCheck]
    /\ UNCHANGED <<call, provider, filed>>

Answers == FailureCodes \cup {"success", "none", "superseded"}

CrashCheck(s) ==
    /\ s \notin Reliable
    /\ check[s].phase # "idle"
    /\ check' = [check EXCEPT ![s] = NoCheck]
    /\ UNCHANGED <<payment, attempt, call, provider, filed, ledger, announced>>

ExpireLease(p) ==
    /\ payment[p].lease_live
    /\ payment' = [payment EXCEPT ![p].lease_live = FALSE]
    /\ UNCHANGED <<attempt, call, provider, filed, check, ledger, announced>>

\* receive_reversal_callback, when Daraja confirms a reversal.
Reverse(p) ==
    /\ payment[p].status = "success"
    /\ payment[p].receipt # None
    /\ payment' = [payment EXCEPT ![p].status = "reversed"]
    /\ Record(p, "success", "reversed")
    /\ Announce(p, "reversed")
    /\ UNCHANGED <<attempt, call, provider, filed, check>>

(***************************************************************************)
(* The specification.                                                      *)
(***************************************************************************)
\* The submitting process gets an answer or a timeout and records it.
Respond(a) ==
    \/ \E outcome \in {"not_sent", "rejected"} : SubmitRefused(a, outcome)
    \/ SubmitUncertain(a)
    \/ SubmitWithoutCheckout(a)
    \/ SubmitAccepted(a)
    \/ \E target \in {"failed", "unknown", "stk_sent"} : SubmitAborted(a, target)
    \/ SubmitRepeatedId(a)

Daraja(a) ==
    \/ Transmit(a)
    \/ \E answer \in {"paid", "declined"} : CustomerAnswers(a, answer)
    \/ \E code \in Codes : Callback(a, code)

Request(p) ==
    \/ Create(p)
    \/ \E override \in BOOLEAN : Retry(p, override)
    \/ \E r \in filed : LinkCallback(r, p)
    \/ \E o \in Operators : LoadForManualCheck(o, p)
    \/ Reverse(p)

FinishCheck(s) == \E answer \in Answers, aged \in BOOLEAN : ApplyCheck(s, answer, aged)

Reconcile(s) ==
    \/ \E p \in Payments : s \in Workers /\ Claim(s, p)
    \/ BeginCheck(s)
    \/ SkipCheck(s)
    \/ BeginManualCheck(s)
    \/ DropCheck(s)
    \/ FinishCheck(s)
    \/ CrashCheck(s)

Next ==
    \/ \E a \in Attempts : Daraja(a) \/ Respond(a) \/ CrashSubmission(a) \/ Abandon(a)
    \/ \E p \in Payments : Request(p) \/ ExpireLease(p)
    \/ \E s \in Sessions : Reconcile(s)

Spec == Init /\ [][Next]_vars

(***************************************************************************)
(* Fairness.  The HTTP client has timeouts, so a submission that does not  *)
(* crash ends; the maintenance and reconciliation workers poll for ever    *)
(* (run_forever); a lease runs out by the clock.  The reliable worker gets *)
(* strong fairness, because another session may hold the lease in between: *)
(* a worker begins a check right after its claim and Daraja calls end long *)
(* before the lease of 60 seconds, so it does not lose every lease it      *)
(* takes.  Nothing is assumed of clients, operators, customers and         *)
(* callback deliveries.                                                    *)
(***************************************************************************)
FairSpec ==
    /\ Spec
    /\ \A a \in Attempts : WF_vars(Respond(a)) /\ WF_vars(Abandon(a))
    /\ \A p \in Payments : WF_vars(ExpireLease(p))
    /\ \A w \in Reliable :
        /\ \A p \in Payments : SF_vars(Claim(w, p))
        /\ WF_vars(SkipCheck(w)) /\ WF_vars(DropCheck(w))
        /\ SF_vars(BeginCheck(w)) /\ SF_vars(FinishCheck(w))

(***************************************************************************)
(* Safety.                                                                 *)
(***************************************************************************)
\* An unknown payment always carries the needs_review flag, whoever put it
\* there or touched it since: a stale submission, maintenance, a callback or
\* an exhausted reconciliation.
UnknownIsFlagged ==
    \A p \in Payments : payment[p].status = "unknown" => payment[p].review = "needs_review"

\* A success rests on a receipt, or on a status query and then stays flagged
\* until the receipt arrives; a receipt sits only on a payment that succeeded.
SuccessIsEvidenced ==
    \A p \in Payments :
        /\ payment[p].status = "success" =>
              \/ payment[p].receipt # None
              \/ payment[p].source = "status_query" /\ payment[p].review = "needs_review"
        /\ payment[p].receipt # None => payment[p].status \in {"success", "reversed"}

\* No payment is successful unless the customer paid: one of its own attempts,
\* or the attempt whose receipt an operator linked to it.
SuccessMeansPaid ==
    \A p \in Payments : payment[p].status \in {"success", "reversed"} =>
        \/ \E n \in Numbers : provider[<<p, n>>] = "paid"
        \/ payment[p].receipt # None /\ provider[payment[p].receipt] = "paid"

\* A receipt on a payment is money Daraja collected and reported in a callback
\* that was filed for this very payment, and the other way round; no receipt
\* is spent twice, however callbacks and operator links interleave.
ReceiptMatchesCallback ==
    /\ \A p \in Payments : payment[p].receipt # None =>
          /\ provider[payment[p].receipt] = "paid"
          /\ \E r \in filed : /\ r.of = payment[p].receipt
                              /\ r.payment = p
                              /\ r.status = "processed_success"
    /\ \A r \in filed : r.status = "processed_success" => payment[r.payment].receipt = r.of
    /\ \A p, q \in Payments : payment[p].receipt = payment[q].receipt =>
          p = q \/ payment[p].receipt = None

\* The ledger shows a retry that only an administrator may start.
Overridden(p) ==
    \E i \in DOMAIN ledger[p] :
        ledger[p][i].from \in {"timeout", "unknown"} /\ ledger[p][i].to = "pending"

\* Daraja shows the customer two prompts for one payment only if an
\* administrator overrode the uncertainty about the first one: no crash,
\* timeout, late answer or callback lets the ordinary retry do it.
SecondPromptNeedsOverride ==
    \A p \in Payments : \A m, n \in Numbers :
        m # n /\ provider[<<p, m>>] # "none" /\ provider[<<p, n>>] # "none" => Overridden(p)

\* Daraja answered an attempt with a CheckoutRequestID that another one holds.
IdRepeated(p) == \E n \in Numbers : call[<<p, n>>] = "repeated"

\* The merchant was told the outcome the payment is in.  The one exception is a
\* payment set aside because Daraja repeated a CheckoutRequestID: the rollback
\* branch queues no event.
OutcomeIsAnnounced ==
    \A p \in Payments :
        payment[p].status \notin {"absent", "pending"} =>
            \/ announced[p] = payment[p].status
            \/ payment[p].status = "unknown" /\ IdRepeated(p)

\* An answer of Daraja that reached its process leaves its mark on the
\* attempt: it does not stay as it was before the call.
AnswerIsRecorded ==
    \A a \in Attempts : call[a] = "done" => attempt[a].status \notin {"created", "submitting"}

\* A payment whose verified success callback ended in conflict is successful
\* itself or waits for review.
ConflictStaysFlagged ==
    \A r \in filed : r.code = "success" /\ r.status = "conflict" =>
        \/ payment[r.payment].status \in {"success", "reversed"}
        \/ payment[r.payment].review # "none"

(***************************************************************************)
(* Action properties.                                                      *)
(***************************************************************************)
\* A receipt confirmed by a callback is never replaced or downgraded: not by
\* a status check in flight, a second callback, or a submission that answers late.
ReceiptEvidenceWins ==
    [][\A p \in Payments : payment[p].receipt # None =>
        /\ payment'[p].receipt = payment[p].receipt
        /\ payment'[p].source = "callback"
        /\ payment'[p].receipt_status = payment[p].receipt_status]_vars

\* The ledger only grows, and a payment that leaves a state has a new row that
\* leaves this state for the new one, also when the writer's copy was stale.
ChangesAreLedgered ==
    [][\A p \in Payments :
        /\ Len(ledger'[p]) >= Len(ledger[p])
        /\ \A i \in DOMAIN ledger[p] : ledger'[p][i] = ledger[p][i]
        /\ payment[p].status # "absent" /\ payment'[p].status # payment[p].status =>
              \E i \in DOMAIN ledger'[p] :
                /\ i > Len(ledger[p])
                /\ ledger'[p][i] = Row(payment[p].status, payment'[p].status)]_vars

\* StkPayments implements the state machine of PaymentLifecycle.
Lifecycle == INSTANCE PaymentLifecycle WITH status <- [p \in Payments |-> payment[p].status]
ImplementsLifecycle == Lifecycle!Spec
SuccessIsFinal == Lifecycle!SuccessIsFinal

(***************************************************************************)
(* Liveness.                                                               *)
(***************************************************************************)
\* A payment does not stay pending, whether its process answers or dies.
PendingResolves ==
    \A p \in Payments : payment[p].status = "pending" ~> payment[p].status # "pending"

\* A payment does not wait for its result for ever, though every callback is
\* lost and the status query never gives an answer.
SentResolves ==
    \A p \in Payments : payment[p].status = "stk_sent" ~> payment[p].status # "stk_sent"

=============================================================================
