------------------------------ MODULE Reversals ------------------------------
(***************************************************************************)
(* The reversal workflow of LynxPay: a request on a successful payment is  *)
(* approved by a second person, leased by a polling worker, sent to Daraja *)
(* once, and settled by callbacks or by an operator's status query.        *)
(* Handlers lock the row they change; the sweep of abandoned submissions   *)
(* reads without a lock.  Users, amounts, bindings and evidence documents  *)
(* are left out: they never change once a request exists.                  *)
(***************************************************************************)
EXTENDS Naturals, FiniteSets

CONSTANTS
    Payments,
    Reversals,
    PaymentOf,      \* the payment a reversal request is for
    Workers,
    Reliable,       \* the workers that keep polling and do not die
    MaxQueries,     \* STATUS_QUERY_MAX_ATTEMPTS
    None            \* SQL NULL

ASSUME PaymentOfAssumption == PaymentOf \in [Reversals -> Payments]
ASSUME MaxQueriesAssumption == MaxQueries \in Nat
ASSUME WorkersAssumption == Reliable \subseteq Workers /\ None \notin Workers /\ None \notin Reversals

VARIABLES
    payment,    \* the status of each payment: only successful ones matter
    reversal,   \* the lynxpay_reversal_requests rows
    work,       \* what each worker is doing
    provider,   \* what Daraja did with the request of a reversal
    sends       \* how many times a reversal was sent to Daraja

vars == <<payment, reversal, work, provider, sends>>

Cancellable == {"pending_approval", "approved"}
Queryable == {"submitted", "timeout", "unknown"}
ActiveWithoutUnknown ==             \* mutant: an unknown reversal does not block another
    {"pending_approval", "approved", "submitting", "submitted", "timeout"}
Active == {"pending_approval", "approved", "submitting", "submitted", "timeout", "unknown"}
Terminal == {"succeeded", "failed", "cancelled"}

ReversalStates ==
    {"absent", "pending_approval", "approved", "submitting", "submitted", "timeout",
     "unknown", "succeeded", "failed", "cancelled"}

\* "ids": the conversation ids of Daraja's answer are on the row.
ReversalRows ==
    [status : ReversalStates, owner : Workers \cup {None},
     lease_live : BOOLEAN, ids : BOOLEAN, queries : 0..MaxQueries]
NewReversal ==
    [status |-> "absent", owner |-> None, lease_live |-> FALSE, ids |-> FALSE, queries |-> 0]

\* "swept": the stale submissions the worker read before it claims.
WorkRows ==
    [phase : {"idle", "claiming", "claimed", "sending"}, swept : SUBSET Reversals,
     reversal : Reversals \cup {None}]
NoWork == [phase |-> "idle", swept |-> {}, reversal |-> None]

ProviderStates == {"none", "flying", "refused", "accepted", "executed", "declined"}

TypeOK ==
    /\ payment \in [Payments -> {"success", "reversed"}]
    /\ reversal \in [Reversals -> ReversalRows]
    /\ work \in [Workers -> WorkRows]
    /\ provider \in [Reversals -> ProviderStates]
    /\ sends \in [Reversals -> Nat]

Init ==
    /\ payment = [p \in Payments |-> "success"]
    /\ reversal = [r \in Reversals |-> NewReversal]
    /\ work = [w \in Workers |-> NoWork]
    /\ provider = [r \in Reversals |-> "none"]
    /\ sends = [r \in Reversals |-> 0]

SetStatus(r, s) == reversal' = [reversal EXCEPT ![r].status = s]
Released(row, s) == [row EXCEPT !.status = s, !.owner = None, !.lease_live = FALSE]

(***************************************************************************)
(* The operators' endpoints.  Each locks its row; request_reversal locks   *)
(* the payment, so two requests for one payment follow each other.         *)
(***************************************************************************)
RequestReversal(r) ==
    /\ reversal[r].status = "absent"
    /\ payment[PaymentOf[r]] = "success"
    /\ \A q \in Reversals :
          PaymentOf[q] = PaymentOf[r] => reversal[q].status \notin Active
    /\ SetStatus(r, "pending_approval")
    /\ UNCHANGED <<payment, work, provider, sends>>

ApproveReversal(r) ==
    /\ reversal[r].status = "pending_approval"
    /\ payment[PaymentOf[r]] = "success"
    /\ SetStatus(r, "approved")
    /\ UNCHANGED <<payment, work, provider, sends>>

CancelReversal(r) ==
    /\ reversal[r].status \in Cancellable
    /\ SetStatus(r, "cancelled")
    /\ UNCHANGED <<payment, work, provider, sends>>

MayQueryOnceMore(r) ==              \* mutant: the limit is off by one
    reversal[r].status \in Queryable /\ reversal[r].queries <= MaxQueries
MayQuery(r) ==
    reversal[r].status \in Queryable /\ reversal[r].queries < MaxQueries

\* query_reversal_status commits the attempt before it asks Daraja.
QueryReversalStatus(r) ==
    /\ MayQuery(r)
    /\ reversal' = [reversal EXCEPT ![r].queries = @ + 1]
    /\ UNCHANGED <<payment, work, provider, sends>>

(***************************************************************************)
(* claim_reversals: first the abandoned submissions are read, with no lock,*)
(* then they are overwritten and an approved row is leased in one commit.  *)
(***************************************************************************)
Stale(r) == reversal[r].status = "submitting" /\ ~reversal[r].lease_live

SweepRead(w) ==
    /\ work[w].phase = "idle"
    /\ work' = [work EXCEPT ![w] =
            [NoWork EXCEPT !.phase = "claiming", !.swept = {r \in Reversals : Stale(r)}]]
    /\ UNCHANGED <<payment, reversal, provider, sends>>

ClaimableOnce(r) ==                 \* mutant: a lease that ran out is not taken over
    reversal[r].status = "approved" /\ reversal[r].owner = None
Claimable(r) ==
    /\ reversal[r].status = "approved"
    /\ reversal[r].owner = None \/ ~reversal[r].lease_live

SweptForRetry(r) ==                 \* mutant: an abandoned submission is tried again
    Released(reversal[r], "approved")
Swept(r) == Released(reversal[r], "unknown")

Claim(w, r) ==
    /\ work[w].phase = "claiming"
    /\ r \notin work[w].swept
    /\ Claimable(r)
    /\ reversal' = [q \in Reversals |->
            IF q = r THEN [reversal[q] EXCEPT !.owner = w, !.lease_live = TRUE]
            ELSE IF q \in work[w].swept THEN Swept(q)
            ELSE reversal[q]]
    /\ work' = [work EXCEPT ![w] = [NoWork EXCEPT !.phase = "claimed", !.reversal = r]]
    /\ UNCHANGED <<payment, provider, sends>>

ClaimNothing(w) ==
    /\ work[w].phase = "claiming"
    /\ \A r \in Reversals \ work[w].swept : ~Claimable(r)
    /\ reversal' = [q \in Reversals |-> IF q \in work[w].swept THEN Swept(q) ELSE reversal[q]]
    /\ work' = [work EXCEPT ![w] = NoWork]
    /\ UNCHANGED <<payment, provider, sends>>

(***************************************************************************)
(* submit_claimed_reversal: the row is locked and checked, "submitting" is *)
(* committed, Daraja is called without a lock, and the answer is stored    *)
(* only if the row is still this worker's submission.                      *)
(***************************************************************************)
HoldsLeaseOnly(w) ==                \* mutant: the status is not looked at again
    /\ work[w].phase = "claimed"
    /\ reversal[work[w].reversal].owner = w
Holds(w) ==
    /\ work[w].phase = "claimed"
    /\ reversal[work[w].reversal].status = "approved"
    /\ reversal[work[w].reversal].owner = w

LeaseLost(w) ==
    /\ work[w].phase = "claimed"
    /\ ~Holds(w)
    /\ work' = [work EXCEPT ![w] = NoWork]
    /\ UNCHANGED <<payment, reversal, provider, sends>>

\* Credentials are missing or cannot be read, or the payment is not
\* eligible any more.
SubmitImpossible(w) ==
    LET r == work[w].reversal IN
    /\ Holds(w)
    /\ reversal' = [reversal EXCEPT ![r] = Released(@, "failed")]
    /\ work' = [work EXCEPT ![w] = NoWork]
    /\ UNCHANGED <<payment, provider, sends>>

BeginSubmit(w) ==
    LET r == work[w].reversal IN
    /\ Holds(w)
    /\ payment[PaymentOf[r]] = "success"
    /\ SetStatus(r, "submitting")
    /\ work' = [work EXCEPT ![w].phase = "sending"]
    /\ provider' = [provider EXCEPT ![r] = "flying"]
    /\ sends' = [sends EXCEPT ![r] = @ + 1]
    /\ UNCHANGED payment

\* The outcomes of the call that fit what Daraja did: "failed" when it never
\* got the request or refused it, "submitted" when it answered code 0, and
\* "unknown" for a time-out, a server error or an unreadable answer.
Outcomes(r) ==
    CASE provider[r] = "refused" -> {"failed", "unknown"}
      [] provider[r] = "flying"  -> {"failed", "unknown"}
      [] OTHER                   -> {"submitted", "unknown"}

\* A request that was not sent does not arrive later.
Landed(r, outcome) ==
    IF provider[r] = "flying" /\ outcome = "failed" THEN "none" ELSE provider[r]

FinishSubmit(w) ==
    LET r == work[w].reversal
        mine == reversal[r].status = "submitting" /\ reversal[r].owner = w
    IN
    /\ work[w].phase = "sending"
    /\ \E outcome \in Outcomes(r) :
        /\ provider' = [provider EXCEPT ![r] = Landed(r, outcome)]
        /\ reversal' = IF mine
                       THEN [reversal EXCEPT ![r] =
                                [Released(@, outcome) EXCEPT !.ids = (outcome = "submitted")]]
                       ELSE reversal
    /\ work' = [work EXCEPT ![w] = NoWork]
    /\ UNCHANGED <<payment, sends>>

CrashWorker(w) ==
    /\ w \notin Reliable
    /\ work[w].phase # "idle"
    /\ work' = [work EXCEPT ![w] = NoWork]
    /\ UNCHANGED <<payment, reversal, provider, sends>>

ExpireLease(r) ==
    /\ reversal[r].lease_live
    /\ reversal' = [reversal EXCEPT ![r].lease_live = FALSE]
    /\ UNCHANGED <<payment, work, provider, sends>>

(***************************************************************************)
(* Daraja.                                                                 *)
(***************************************************************************)
Decide(r, from, answers) ==
    /\ provider[r] = from
    /\ \E answer \in answers : provider' = [provider EXCEPT ![r] = answer]
    /\ UNCHANGED <<payment, reversal, work, sends>>

Receive(r) == Decide(r, "flying", {"accepted", "refused"})
Process(r) == Decide(r, "accepted", {"executed", "declined"})

Executed(p) == {r \in Reversals : PaymentOf[r] = p /\ provider[r] = "executed"}

(***************************************************************************)
(* receive_reversal_callback.  Results and time-outs of the request are    *)
(* matched by its conversation ids; answers to status queries by the       *)
(* receipt, among the rows that may be queried.  A callback for a terminal *)
(* row is filed and changes nothing, so it is no step here.                *)
(***************************************************************************)
MatchedById(r) == reversal[r].ids /\ reversal[r].status \notin Terminal
MatchedByReceipt(r) ==
    /\ reversal[r].status \in Queryable
    /\ \E q \in Reversals : PaymentOf[q] = PaymentOf[r] /\ reversal[q].queries > 0

TimeoutCallback(r) ==
    /\ MatchedById(r)
    /\ SetStatus(r, "timeout")
    /\ UNCHANGED <<payment, work, provider, sends>>

FailureCallback(r) ==
    /\ MatchedById(r)
    /\ provider[r] = "declined"
    /\ SetStatus(r, "failed")
    /\ UNCHANGED <<payment, work, provider, sends>>

\* A status time-out, an error code, or a transaction that is not reversed.
StatusInconclusive(r) ==
    /\ MatchedByReceipt(r)
    /\ SetStatus(r, "unknown")
    /\ UNCHANGED <<payment, work, provider, sends>>

StatusAnswered(r) == MatchedByReceipt(r)    \* mutant: code 0 counts without "reversed"
StatusConfirms(r) == MatchedByReceipt(r) /\ Executed(PaymentOf[r]) # {}

ConfirmedPaymentKept(r) == payment  \* mutant: the payment is left as it is
ConfirmedPayment(r) == [payment EXCEPT ![PaymentOf[r]] = "reversed"]

ConfirmCallback(r) ==
    /\ \/ MatchedById(r) /\ provider[r] = "executed"
       \/ StatusConfirms(r)
    /\ payment' = ConfirmedPayment(r)
    /\ SetStatus(r, "succeeded")
    /\ UNCHANGED <<work, provider, sends>>

Operate(r) ==
    \/ RequestReversal(r)
    \/ ApproveReversal(r)
    \/ CancelReversal(r)
    \/ QueryReversalStatus(r)

Callback(r) ==
    \/ TimeoutCallback(r)
    \/ FailureCallback(r)
    \/ StatusInconclusive(r)
    \/ ConfirmCallback(r)

\* submit_claimed_reversal runs to its end unless the worker dies.
Submit(w) == LeaseLost(w) \/ SubmitImpossible(w) \/ BeginSubmit(w) \/ FinishSubmit(w)

Next ==
    \/ \E r \in Reversals :
          Operate(r) \/ Callback(r) \/ Receive(r) \/ Process(r) \/ ExpireLease(r)
    \/ \E w \in Workers :
          SweepRead(w) \/ ClaimNothing(w) \/ Submit(w) \/ CrashWorker(w)
    \/ \E w \in Workers, r \in Reversals : Claim(w, r)

Spec == Init /\ [][Next]_vars

(***************************************************************************)
(* Fairness: leases run out by the clock, a worker's call to Daraja ends   *)
(* (it has a time-out) unless the worker dies, and a reliable worker polls *)
(* for ever: it does not always come just when others hold the leases, it  *)
(* takes the oldest row first and begins its submission right after the    *)
(* claim, so it does not lose every lease it takes.                        *)
(***************************************************************************)
FairSpec ==
    /\ Spec
    /\ \A r \in Reversals : WF_vars(ExpireLease(r))
    /\ \A w \in Reliable :
        /\ WF_vars(SweepRead(w))
        /\ SF_vars(SweepRead(w) /\ \E r \in Reversals : Claimable(r))
        /\ WF_vars(Submit(w))
        /\ WF_vars(ClaimNothing(w))
        /\ \A r \in Reversals : SF_vars(Claim(w, r))
        /\ SF_vars(SubmitImpossible(w) \/ BeginSubmit(w))

(***************************************************************************)
(* Properties.                                                             *)
(***************************************************************************)
\* A reversal is sent to Daraja at most once, whatever leases expire and
\* workers die around the call (docs/howitworks.md, section 18, step 3).
SubmittedOnce == \A r \in Reversals : sends[r] <= 1

\* A request that was cancelled was not sent and stays cancelled, although the
\* cancellation may come while a worker holds the lease.
CancellationHolds ==
    [][\A r \in Reversals : reversal[r].status = "cancelled" =>
          sends[r] = 0 /\ reversal'[r].status = "cancelled"]_vars

\* The customer gets the money back at most once: Daraja never executes two
\* reversals of one payment, though a second may be requested when the first
\* has failed, and abandoned or unanswered submissions may still be executed.
NoDoubleReversal == \A p \in Payments : Cardinality(Executed(p)) <= 1

\* A payment is called reversed only if Daraja executed a reversal of it.
ReversedMeansExecuted ==
    \A p \in Payments : payment[p] = "reversed" => Executed(p) # {}

\* A reversal that succeeded has reversed its payment.
SucceededMeansReversed ==
    \A r \in Reversals :
        reversal[r].status = "succeeded" => payment[PaymentOf[r]] = "reversed"

\* How far a request really is: by what Daraja did once it was sent, by the row
\* before; the later fate of the row does not matter.
StageOfSent(state) ==
    IF state = "executed" THEN "returned"
    ELSE IF state \in {"flying", "accepted"} THEN "sent" ELSE "lost"
StageOfUnsent(status) ==
    IF status = "pending_approval" THEN "asked"
    ELSE IF status \in {"absent", "approved"} THEN status ELSE "withdrawn"
Stage(r) ==
    IF sends[r] # 0 THEN StageOfSent(provider[r]) ELSE StageOfUnsent(reversal[r].status)

\* The workflow implements Payback: although endpoints and workers decide by the
\* statuses of rows that callbacks, sweeps and status queries overwrite, they
\* never ask, send or book what the money itself does not allow.
Payback == INSTANCE Payback WITH stage <- [r \in Reversals |-> Stage(r)], books <- payment
ImplementsPayback == Payback!Spec

\* An approved reversal is cancelled or its submission comes to an outcome:
\* it is not stranded by workers that die before, during or after the call.
ApprovedResolves ==
    \A r \in Reversals :
        reversal[r].status = "approved" ~>
            reversal[r].status \notin {"approved", "submitting"}

=============================================================================
