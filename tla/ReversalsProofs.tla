-------------------------- MODULE ReversalsProofs --------------------------
(***************************************************************************)
(* Theorems about Reversals, for any number of payments, reversals and     *)
(* workers.  The argument is that of the code: a request leaves "approved" *)
(* when it is sent and never comes back, so it is sent once; a new request *)
(* waits until its predecessors are settled, and a predecessor is settled  *)
(* as failed or cancelled only when Daraja can no longer execute it.       *)
(***************************************************************************)
EXTENDS Reversals, FiniteSetTheorems, TLAPS

Waiting(r) == reversal[r].status \in Cancellable
InFlight(r) == provider[r] \in {"flying", "accepted", "executed"}
Rivals(r, q) == r # q /\ PaymentOf[r] = PaymentOf[q]

\* A worker that has leased or sends names a reversal.
WorkNamesReversals ==
    \A w \in Workers : work[w].phase \in {"claimed", "sending"} => work[w].reversal \in Reversals

Unsent == {"absent", "pending_approval", "approved", "cancelled"}

\* What is sent has left "approved", and only what was sent is swept, answered,
\* queried or known to Daraja.
SendInv ==
    /\ \A r \in Reversals :
        /\ sends[r] <= 1
        /\ reversal[r].status \in Unsent => sends[r] = 0
        /\ reversal[r].status \in Queryable \cup {"submitting"} => sends[r] # 0
        /\ reversal[r].ids \/ InFlight(r) => sends[r] # 0
    /\ \A w \in Workers : \A r \in work[w].swept : sends[r] # 0

\* What Daraja may still execute is not settled as failed or cancelled.
FlightInv ==
    \A r \in Reversals :
        InFlight(r) => reversal[r].status \in Queryable \cup {"submitting", "succeeded"}

\* While a request waits, no other of its payment waits or may be executed.
RivalInv ==
    \A r, q \in Reversals : Rivals(r, q) =>
        /\ Waiting(q) => ~Waiting(r)
        /\ Waiting(q) /\ InFlight(r) => payment[PaymentOf[q]] = "reversed"
        /\ InFlight(q) => ~InFlight(r)

IInv ==
    /\ TypeOK
    /\ WorkNamesReversals
    /\ SendInv
    /\ FlightInv
    /\ RivalInv
    /\ ReversedMeansExecuted
    /\ SucceededMeansReversed

(***************************************************************************)
(* Types.                                                                  *)
(***************************************************************************)
LEMMA StatusType ==
    ASSUME NEW row \in ReversalRows, NEW s \in ReversalStates
    PROVE  [row EXCEPT !.status = s] \in ReversalRows
BY DEF ReversalRows

LEMMA ReleasedType ==
    ASSUME NEW row \in ReversalRows, NEW s \in ReversalStates
    PROVE  Released(row, s) \in ReversalRows
BY DEF ReversalRows, Released

LEMMA IdsType ==
    ASSUME NEW row \in ReversalRows, NEW b \in BOOLEAN
    PROVE  [row EXCEPT !.ids = b] \in ReversalRows
BY DEF ReversalRows

LEMMA NoWorkType == NoWork \in WorkRows
BY DEF NoWork, WorkRows

\* What FinishSubmit commits for one outcome of the call.
FinishesWith(w, outcome) ==
    LET r == work[w].reversal IN
    /\ outcome \in Outcomes(r)
    /\ provider' = [provider EXCEPT ![r] = Landed(r, outcome)]
    /\ reversal' = IF reversal[r].status = "submitting" /\ reversal[r].owner = w
                   THEN [reversal EXCEPT ![r] =
                            [Released(reversal[r], outcome) EXCEPT !.ids = (outcome = "submitted")]]
                   ELSE reversal

LEMMA FinishOutcome ==
    ASSUME NEW w \in Workers, FinishSubmit(w)
    PROVE  \E outcome \in {"submitted", "failed", "unknown"} : FinishesWith(w, outcome)
<1> DEFINE r == work[w].reversal
<1>1. PICK outcome \in Outcomes(r) :
        /\ provider' = [provider EXCEPT ![r] = Landed(r, outcome)]
        /\ reversal' = IF reversal[r].status = "submitting" /\ reversal[r].owner = w
                       THEN [reversal EXCEPT ![r] =
                                [Released(@, outcome) EXCEPT !.ids = (outcome = "submitted")]]
                       ELSE reversal
  BY Zenon DEF FinishSubmit
<1>2. Outcomes(r) \subseteq {"submitted", "failed", "unknown"}
  BY DEF Outcomes
<1> QED
  BY <1>1, <1>2, Zenon DEF FinishesWith

\* Setting a status keeps the rows well-typed.
LEMMA SetStatusType ==
    ASSUME TypeOK, NEW r \in Reversals, NEW s \in ReversalStates, SetStatus(r, s)
    PROVE  reversal' \in [Reversals -> ReversalRows]
<1>1. [reversal[r] EXCEPT !.status = s] \in ReversalRows
  BY StatusType DEF TypeOK
<1> QED
  BY <1>1 DEF SetStatus, TypeOK

LEMMA TypeInit == Init => TypeOK /\ WorkNamesReversals
BY MaxQueriesAssumption DEF Init, TypeOK, WorkNamesReversals, ReversalRows, ReversalStates,
   WorkRows, NoWork,
   NewReversal, ProviderStates

LEMMA TypeStep ==
    ASSUME TypeOK, WorkNamesReversals, [Next]_vars
    PROVE  TypeOK' /\ WorkNamesReversals'
<1> USE PaymentOfAssumption, MaxQueriesAssumption, WorkersAssumption
<1>1. ASSUME NEW r \in Reversals, RequestReversal(r) PROVE TypeOK' /\ WorkNamesReversals'
  <2>1. SetStatus(r, "pending_approval") /\ "pending_approval" \in ReversalStates
    BY <1>1 DEF RequestReversal, ReversalStates
  <2>2. reversal' \in [Reversals -> ReversalRows]
    BY <2>1, SetStatusType
  <2> QED
    BY <1>1, <2>2 DEF RequestReversal, TypeOK, WorkNamesReversals
<1>2. ASSUME NEW r \in Reversals, ApproveReversal(r) PROVE TypeOK' /\ WorkNamesReversals'
  <2>1. SetStatus(r, "approved") /\ "approved" \in ReversalStates
    BY <1>2 DEF ApproveReversal, ReversalStates
  <2>2. reversal' \in [Reversals -> ReversalRows]
    BY <2>1, SetStatusType
  <2> QED
    BY <1>2, <2>2 DEF ApproveReversal, TypeOK, WorkNamesReversals
<1>3. ASSUME NEW r \in Reversals, CancelReversal(r) PROVE TypeOK' /\ WorkNamesReversals'
  <2>1. SetStatus(r, "cancelled") /\ "cancelled" \in ReversalStates
    BY <1>3 DEF CancelReversal, ReversalStates
  <2>2. reversal' \in [Reversals -> ReversalRows]
    BY <2>1, SetStatusType
  <2> QED
    BY <1>3, <2>2 DEF CancelReversal, TypeOK, WorkNamesReversals
<1>4. ASSUME NEW r \in Reversals, QueryReversalStatus(r) PROVE TypeOK' /\ WorkNamesReversals'
  <2> DEFINE row == [reversal[r] EXCEPT !.queries = reversal[r].queries + 1]
  <2>1. reversal[r].queries + 1 \in 0..MaxQueries
    <3>1. reversal[r].queries \in 0..MaxQueries
      BY DEF TypeOK, ReversalRows
    <3> QED
      BY <1>4, <3>1 DEF QueryReversalStatus, MayQuery
  <2>2. row \in ReversalRows
    BY <2>1 DEF TypeOK, ReversalRows
  <2>3. reversal' = [reversal EXCEPT ![r] = row] /\ UNCHANGED <<payment, work, provider, sends>>
    BY <1>4, Zenon DEF QueryReversalStatus
  <2> HIDE DEF row
  <2> QED
    BY <2>2, <2>3 DEF TypeOK, WorkNamesReversals
<1>5. ASSUME NEW r \in Reversals, TimeoutCallback(r) PROVE TypeOK' /\ WorkNamesReversals'
  <2>1. SetStatus(r, "timeout") /\ "timeout" \in ReversalStates
    BY <1>5 DEF TimeoutCallback, ReversalStates
  <2>2. reversal' \in [Reversals -> ReversalRows]
    BY <2>1, SetStatusType
  <2> QED
    BY <1>5, <2>2 DEF TimeoutCallback, TypeOK, WorkNamesReversals
<1>6. ASSUME NEW r \in Reversals, FailureCallback(r) PROVE TypeOK' /\ WorkNamesReversals'
  <2>1. SetStatus(r, "failed") /\ "failed" \in ReversalStates
    BY <1>6 DEF FailureCallback, ReversalStates
  <2>2. reversal' \in [Reversals -> ReversalRows]
    BY <2>1, SetStatusType
  <2> QED
    BY <1>6, <2>2 DEF FailureCallback, TypeOK, WorkNamesReversals
<1>7. ASSUME NEW r \in Reversals, StatusInconclusive(r) PROVE TypeOK' /\ WorkNamesReversals'
  <2>1. SetStatus(r, "unknown") /\ "unknown" \in ReversalStates
    BY <1>7 DEF StatusInconclusive, ReversalStates
  <2>2. reversal' \in [Reversals -> ReversalRows]
    BY <2>1, SetStatusType
  <2> QED
    BY <1>7, <2>2 DEF StatusInconclusive, TypeOK, WorkNamesReversals
<1>8. ASSUME NEW r \in Reversals, ConfirmCallback(r) PROVE TypeOK' /\ WorkNamesReversals'
  <2>1. SetStatus(r, "succeeded") /\ "succeeded" \in ReversalStates
    BY <1>8 DEF ConfirmCallback, ReversalStates
  <2>2. reversal' \in [Reversals -> ReversalRows]
    BY <2>1, SetStatusType
  <2> QED
    BY <1>8, <2>2 DEF ConfirmCallback, ConfirmedPayment, TypeOK, WorkNamesReversals
<1>9. ASSUME NEW r \in Reversals, Receive(r) PROVE TypeOK' /\ WorkNamesReversals'
  BY <1>9 DEF Receive, Decide, TypeOK, ReversalRows, ReversalStates, WorkRows, ProviderStates,
     NewReversal, WorkNamesReversals
<1>10. ASSUME NEW r \in Reversals, Process(r) PROVE TypeOK' /\ WorkNamesReversals'
  BY <1>10 DEF Process, Decide, TypeOK, ReversalRows, ReversalStates, WorkRows, ProviderStates,
     NewReversal, WorkNamesReversals
<1>11. ASSUME NEW r \in Reversals, ExpireLease(r) PROVE TypeOK' /\ WorkNamesReversals'
  <2> DEFINE row == [reversal[r] EXCEPT !.lease_live = FALSE]
  <2>1. row \in ReversalRows
    BY ZenonT(40) DEF TypeOK, ReversalRows
  <2>2. reversal' = [reversal EXCEPT ![r] = row] /\ UNCHANGED <<payment, work, provider, sends>>
    BY <1>11, Zenon DEF ExpireLease
  <2> HIDE DEF row
  <2> QED
    BY <2>1, <2>2 DEF TypeOK, WorkNamesReversals
<1>12. ASSUME NEW w \in Workers, SweepRead(w) PROVE TypeOK' /\ WorkNamesReversals'
  BY <1>12 DEF SweepRead, NoWork, Stale, TypeOK, ReversalRows, ReversalStates, WorkRows,
     ProviderStates, NewReversal, WorkNamesReversals
<1>13. ASSUME NEW w \in Workers, ClaimNothing(w) PROVE TypeOK' /\ WorkNamesReversals'
  <2>1. reversal' \in [Reversals -> ReversalRows]
    BY <1>13, ReleasedType DEF ClaimNothing, Swept, TypeOK, ReversalStates
  <2>2. work' \in [Workers -> WorkRows] /\ WorkNamesReversals'
    BY <1>13, NoWorkType DEF ClaimNothing, TypeOK, WorkNamesReversals, NoWork
  <2> QED
    BY <1>13, <2>1, <2>2 DEF ClaimNothing, TypeOK
<1>14. ASSUME NEW w \in Workers, LeaseLost(w) PROVE TypeOK' /\ WorkNamesReversals'
  BY <1>14 DEF LeaseLost, NoWork, TypeOK, ReversalRows, ReversalStates, WorkRows, ProviderStates,
     NewReversal, WorkNamesReversals
<1>15. ASSUME NEW w \in Workers, SubmitImpossible(w) PROVE TypeOK' /\ WorkNamesReversals'
  <2>1. reversal' \in [Reversals -> ReversalRows]
    BY <1>15, ReleasedType DEF SubmitImpossible, Holds, TypeOK, ReversalStates
  <2>2. work' \in [Workers -> WorkRows] /\ WorkNamesReversals'
    BY <1>15, NoWorkType DEF SubmitImpossible, TypeOK, WorkNamesReversals, NoWork
  <2> QED
    BY <1>15, <2>1, <2>2 DEF SubmitImpossible, TypeOK
<1>16. ASSUME NEW w \in Workers, BeginSubmit(w) PROVE TypeOK' /\ WorkNamesReversals'
  <2> DEFINE q == work[w].reversal
             job == [work[w] EXCEPT !.phase = "sending"]
  <2>1. q \in Reversals
    BY <1>16 DEF BeginSubmit, Holds, WorkNamesReversals
  <2>2. reversal' \in [Reversals -> ReversalRows]
    BY <1>16, <2>1, SetStatusType DEF BeginSubmit, ReversalStates
  <2>3. job \in WorkRows /\ job.reversal = q
    BY DEF TypeOK, WorkRows
  <2>4. /\ work' = [work EXCEPT ![w] = job]
        /\ provider' = [provider EXCEPT ![q] = "flying"]
        /\ sends' = [sends EXCEPT ![q] = sends[q] + 1]
        /\ payment' = payment
    BY <1>16, Zenon DEF BeginSubmit
  <2> HIDE DEF job
  <2>5. /\ provider' \in [Reversals -> ProviderStates]
        /\ sends' \in [Reversals -> Nat]
    BY <2>1, <2>4 DEF TypeOK, ProviderStates
  <2>6. WorkNamesReversals'
    BY <2>1, <2>3, <2>4 DEF TypeOK, WorkNamesReversals
  <2> QED
    BY <2>2, <2>3, <2>4, <2>5, <2>6 DEF TypeOK
<1>17. ASSUME NEW w \in Workers, FinishSubmit(w) PROVE TypeOK' /\ WorkNamesReversals'
  <2> DEFINE q == work[w].reversal
  <2>1. q \in Reversals
    BY <1>17 DEF FinishSubmit, WorkNamesReversals
  <2>2. PICK outcome \in {"submitted", "failed", "unknown"} : FinishesWith(w, outcome)
    BY <1>17, FinishOutcome
  <2>3. [Released(reversal[q], outcome) EXCEPT !.ids = (outcome = "submitted")] \in ReversalRows
    <3>1. Released(reversal[q], outcome) \in ReversalRows
      BY <2>1, ReleasedType DEF TypeOK, ReversalStates
    <3> QED
      BY <3>1, IdsType
  <2>4. reversal' \in [Reversals -> ReversalRows]
    BY <2>1, <2>2, <2>3 DEF FinishesWith, TypeOK
  <2>5. work' \in [Workers -> WorkRows] /\ WorkNamesReversals'
    BY <1>17, NoWorkType DEF FinishSubmit, TypeOK, WorkNamesReversals, NoWork
  <2>6. provider' \in [Reversals -> ProviderStates]
    BY <2>1, <2>2 DEF FinishesWith, Landed, TypeOK, ProviderStates
  <2> QED
    BY <1>17, <2>4, <2>5, <2>6 DEF FinishSubmit, TypeOK
<1>18. ASSUME NEW w \in Workers, CrashWorker(w) PROVE TypeOK' /\ WorkNamesReversals'
  BY <1>18 DEF CrashWorker, NoWork, TypeOK, ReversalRows, ReversalStates, WorkRows, ProviderStates,
     NewReversal, WorkNamesReversals
<1>19. ASSUME NEW w \in Workers, NEW r \in Reversals, Claim(w, r)
       PROVE  TypeOK' /\ WorkNamesReversals'
  <2>1. [reversal[r] EXCEPT !.owner = w, !.lease_live = TRUE] \in ReversalRows
    BY ZenonT(40) DEF TypeOK, ReversalRows
  <2>2. reversal' \in [Reversals -> ReversalRows]
    BY <1>19, <2>1, ReleasedType DEF Claim, Swept, TypeOK, ReversalStates
  <2>3. work' \in [Workers -> WorkRows] /\ WorkNamesReversals'
    BY <1>19, NoWorkType DEF Claim, TypeOK, WorkNamesReversals, NoWork, WorkRows
  <2> QED
    BY <1>19, <2>2, <2>3 DEF Claim, TypeOK
<1>20. CASE UNCHANGED vars
  BY <1>20 DEF vars, TypeOK, ReversalRows, ReversalStates, WorkRows, ProviderStates, NewReversal,
     WorkNamesReversals
<1> QED
  BY <1>1, <1>2, <1>3, <1>4, <1>5, <1>6, <1>7, <1>8, <1>9, <1>10, <1>11, <1>12, <1>13, <1>14, <1>15,
     <1>16, <1>17, <1>18, <1>19, <1>20 DEF Next, Operate, Callback, Submit

(***************************************************************************)
(* The moves of one reversal: what any step may do to its status, to its   *)
(* request at Daraja and to the number of times it was sent.               *)
(***************************************************************************)
Progress(r) ==
    \/ provider'[r] = provider[r]
    \/ provider[r] = "flying" /\ provider'[r] \in {"accepted", "refused", "none"}
    \/ provider[r] = "accepted" /\ provider'[r] \in {"executed", "declined"}

Stays(r) ==
    Progress(r) /\ sends'[r] = sends[r] /\ reversal'[r].status = reversal[r].status

Requested(r) ==
    /\ reversal[r].status = "absent" /\ reversal'[r].status = "pending_approval"
    /\ payment[PaymentOf[r]] = "success"
    /\ \A q \in Reversals :
          Rivals(r, q) => reversal[q].status \notin Active /\ reversal'[q] = reversal[q]
    /\ provider'[r] = provider[r] /\ sends'[r] = sends[r]

Approved(r) ==
    /\ reversal[r].status = "pending_approval" /\ reversal'[r].status = "approved"
    /\ payment[PaymentOf[r]] = "success"
    /\ provider'[r] = provider[r] /\ sends'[r] = sends[r]

Withdrawn(r) ==
    /\ reversal[r].status \in Cancellable /\ reversal'[r].status \in {"cancelled", "failed"}
    /\ provider'[r] = provider[r] /\ sends'[r] = sends[r]

Sent(r) ==
    /\ reversal[r].status = "approved" /\ reversal'[r].status = "submitting"
    /\ payment[PaymentOf[r]] = "success"
    /\ provider'[r] = "flying" /\ sends'[r] = sends[r] + 1

Settles(r) ==
    /\ sends[r] # 0
    /\ reversal'[r].status \in {"submitted", "timeout", "unknown"}
    /\ Progress(r) /\ sends'[r] = sends[r]

Fails(r) ==
    /\ reversal[r].status \notin Terminal /\ reversal'[r].status = "failed"
    /\ ~InFlight(r)' /\ sends[r] # 0 /\ sends'[r] = sends[r] /\ Progress(r)

Confirmed(r) ==
    /\ reversal[r].status \notin Terminal /\ reversal'[r].status = "succeeded"
    /\ payment'[PaymentOf[r]] = "reversed" /\ Executed(PaymentOf[r]) # {}
    /\ provider'[r] = provider[r] /\ sends[r] # 0 /\ sends'[r] = sends[r]

Move(r) ==
    \/ Stays(r)
    \/ Requested(r)
    \/ Approved(r)
    \/ Withdrawn(r)
    \/ Sent(r)
    \/ Settles(r)
    \/ Fails(r)
    \/ Confirmed(r)

LEMMA StepMoves ==
    ASSUME TypeOK, WorkNamesReversals, SendInv, [Next]_vars
    PROVE  \A q \in Reversals : Move(q)
<1> USE PaymentOfAssumption
<1>1. ASSUME NEW r \in Reversals, RequestReversal(r) PROVE \A q \in Reversals : Move(q)
  BY <1>1 DEF RequestReversal, SetStatus, Move, Stays, Requested, Progress, Rivals, TypeOK,
     ReversalRows
<1>2. ASSUME NEW r \in Reversals, ApproveReversal(r) PROVE \A q \in Reversals : Move(q)
  BY <1>2 DEF ApproveReversal, SetStatus, Move, Stays, Approved, Progress, TypeOK, ReversalRows
<1>3. ASSUME NEW r \in Reversals, CancelReversal(r) PROVE \A q \in Reversals : Move(q)
  BY <1>3 DEF CancelReversal, SetStatus, Move, Stays, Withdrawn, Progress, TypeOK, ReversalRows
<1>4. ASSUME NEW r \in Reversals, QueryReversalStatus(r) PROVE \A q \in Reversals : Move(q)
  BY <1>4 DEF QueryReversalStatus, MayQuery, Move, Stays, Progress, TypeOK, ReversalRows
<1>5. ASSUME NEW r \in Reversals, TimeoutCallback(r) PROVE \A q \in Reversals : Move(q)
  BY <1>5 DEF SendInv, TimeoutCallback, SetStatus, MatchedById, Move, Stays, Settles, Progress,
     TypeOK, ReversalRows
<1>6. ASSUME NEW r \in Reversals, FailureCallback(r) PROVE \A q \in Reversals : Move(q)
  <2>1. reversal[r].status \notin Terminal /\ sends[r] # 0
    BY <1>6 DEF FailureCallback, MatchedById, SendInv
  <2> QED
    BY <1>6, <2>1 DEF FailureCallback, SetStatus, InFlight, Move, Stays, Fails, Progress, TypeOK,
       ReversalRows
<1>7. ASSUME NEW r \in Reversals, StatusInconclusive(r) PROVE \A q \in Reversals : Move(q)
  <2>1. sends[r] # 0
    BY <1>7 DEF StatusInconclusive, MatchedByReceipt, SendInv
  <2> QED
    BY <1>7, <2>1 DEF StatusInconclusive, SetStatus, Move, Stays, Settles, Progress, TypeOK,
       ReversalRows
<1>8. ASSUME NEW r \in Reversals, ConfirmCallback(r) PROVE \A q \in Reversals : Move(q)
  <2>1. Executed(PaymentOf[r]) # {}
    BY <1>8 DEF ConfirmCallback, StatusConfirms, Executed
  <2>2. reversal[r].status \notin Terminal /\ sends[r] # 0
    BY <1>8 DEF ConfirmCallback, StatusConfirms, MatchedById, MatchedByReceipt, Queryable, Terminal,
       SendInv
  <2>3. payment'[PaymentOf[r]] = "reversed"
    BY <1>8 DEF ConfirmCallback, ConfirmedPayment, TypeOK
  <2>4. reversal' = [reversal EXCEPT ![r].status = "succeeded"] /\ UNCHANGED <<provider, sends>>
    BY <1>8 DEF ConfirmCallback, SetStatus
  <2> QED
    BY <2>1, <2>2, <2>3, <2>4 DEF Move, Stays, Confirmed, Progress, TypeOK, ReversalRows
<1>9. ASSUME NEW r \in Reversals, Receive(r) PROVE \A q \in Reversals : Move(q)
  BY <1>9 DEF Receive, Decide, Move, Stays, Progress, TypeOK, ReversalRows
<1>10. ASSUME NEW r \in Reversals, Process(r) PROVE \A q \in Reversals : Move(q)
  BY <1>10 DEF Process, Decide, Move, Stays, Progress, TypeOK, ReversalRows
<1>11. ASSUME NEW r \in Reversals, ExpireLease(r) PROVE \A q \in Reversals : Move(q)
  BY <1>11 DEF ExpireLease, Move, Stays, Progress, TypeOK, ReversalRows
<1>12. ASSUME NEW w \in Workers, SweepRead(w) PROVE \A q \in Reversals : Move(q)
  BY <1>12 DEF SweepRead, NoWork, Stale, Move, Stays, Progress, TypeOK, ReversalRows
<1>13. ASSUME NEW w \in Workers, ClaimNothing(w) PROVE \A q \in Reversals : Move(q)
  <2>1. \A q \in work[w].swept : sends[q] # 0
    BY DEF SendInv
  <2> QED
    BY <1>13, <2>1 DEF ClaimNothing, Swept, Released, Move, Stays, Settles, Progress, TypeOK,
       ReversalRows
<1>14. ASSUME NEW w \in Workers, LeaseLost(w) PROVE \A q \in Reversals : Move(q)
  BY <1>14 DEF LeaseLost, NoWork, Move, Stays, Progress, TypeOK, ReversalRows
<1>15. ASSUME NEW w \in Workers, SubmitImpossible(w) PROVE \A q \in Reversals : Move(q)
  <2>1. work[w].reversal \in Reversals
    BY <1>15 DEF SubmitImpossible, Holds, WorkNamesReversals
  <2> QED
    BY <1>15, <2>1 DEF SubmitImpossible, Holds, Released, Cancellable, Move, Stays, Withdrawn,
       Progress, TypeOK, ReversalRows
<1>16. ASSUME NEW w \in Workers, BeginSubmit(w) PROVE \A q \in Reversals : Move(q)
  <2>1. work[w].reversal \in Reversals
    BY <1>16 DEF BeginSubmit, Holds, WorkNamesReversals
  <2> QED
    BY <1>16, <2>1 DEF BeginSubmit, Holds, SetStatus, Move, Stays, Sent, Progress, TypeOK,
       ReversalRows
<1>17. ASSUME NEW w \in Workers, FinishSubmit(w) PROVE \A q \in Reversals : Move(q)
  <2>1. PICK r \in Reversals : r = work[w].reversal
    BY <1>17 DEF FinishSubmit, WorkNamesReversals
  <2>2. PICK outcome \in {"submitted", "failed", "unknown"} : FinishesWith(w, outcome)
    BY <1>17, FinishOutcome
  <2>3. \A q \in Reversals : Progress(q)
    BY <2>1, <2>2 DEF FinishesWith, Landed, Progress, TypeOK, ProviderStates
  <2>4. sends' = sends
    BY <1>17 DEF FinishSubmit
  <2>5. \A q \in Reversals \ {r} : Move(q)
    BY <1>17, <2>1, <2>2, <2>3 DEF FinishesWith, FinishSubmit, Move, Stays, TypeOK
  <2>6. CASE reversal[r].status = "submitting" /\ reversal[r].owner = w
    <3>1. reversal'[r].status = outcome
      BY <2>1, <2>2, <2>6 DEF FinishesWith, Released, TypeOK, ReversalRows
    <3>2. outcome = "failed" => provider'[r] \in {"none", "refused"}
      BY <2>1, <2>2 DEF FinishesWith, Outcomes, Landed, TypeOK, ProviderStates
    <3>3. sends[r] # 0
      BY <2>6 DEF SendInv
    <3>4. outcome # "failed" => Settles(r)
      BY <2>1, <2>3, <2>4, <3>1, <3>3 DEF Settles
    <3>5. outcome = "failed" => Fails(r)
      BY <2>1, <2>3, <2>4, <2>6, <3>1, <3>2, <3>3 DEF Fails, Terminal, InFlight
    <3> QED
      BY <2>5, <3>4, <3>5 DEF Move
  <2>7. CASE ~(reversal[r].status = "submitting" /\ reversal[r].owner = w)
    <3>1. reversal' = reversal
      BY <2>1, <2>2, <2>7 DEF FinishesWith
    <3>2. Move(r)
      BY <1>17, <2>1, <2>3, <3>1 DEF FinishSubmit, Move, Stays
    <3> QED
      BY <2>5, <3>2
  <2> QED
    BY <2>6, <2>7
<1>18. ASSUME NEW w \in Workers, CrashWorker(w) PROVE \A q \in Reversals : Move(q)
  BY <1>18 DEF CrashWorker, NoWork, Move, Stays, Progress, TypeOK, ReversalRows
<1>19. ASSUME NEW w \in Workers, NEW r \in Reversals, Claim(w, r) PROVE \A q \in Reversals : Move(q)
  <2>1. \A q \in work[w].swept : sends[q] # 0
    BY DEF SendInv
  <2> QED
    BY <1>19, <2>1, ZenonT(40) DEF Claim, Swept, Released, Move, Stays, Settles, Progress, TypeOK, ReversalRows
<1>20. CASE UNCHANGED vars
  BY <1>20 DEF vars, Move, Stays, Progress, TypeOK, ReversalRows
<1> QED
  BY <1>1, <1>2, <1>3, <1>4, <1>5, <1>6, <1>7, <1>8, <1>9, <1>10, <1>11, <1>12, <1>13, <1>14, <1>15,
     <1>16, <1>17, <1>18, <1>19, <1>20 DEF Next, Operate, Callback, Submit

\* Only a confirmation touches the payments.
LEMMA PaymentKept ==
    ASSUME [Next]_vars, \A r \in Reversals : ~ConfirmCallback(r)
    PROVE  payment' = payment
BY DEF Next, Operate, Callback, Submit, vars, RequestReversal, ApproveReversal, CancelReversal,
   QueryReversalStatus, TimeoutCallback, FailureCallback, StatusInconclusive, Receive, Process,
   Decide, ExpireLease, SweepRead, ClaimNothing, LeaseLost, SubmitImpossible, BeginSubmit,
   FinishSubmit, CrashWorker, Claim

\* A payment changes only to "reversed", when Daraja has executed a reversal.
LEMMA PaymentMoves ==
    ASSUME TypeOK, [Next]_vars, NEW p \in Payments
    PROVE  \/ payment'[p] = payment[p]
           \/ payment'[p] = "reversed" /\ Executed(p) # {}
<1>1. ASSUME NEW r \in Reversals, ConfirmCallback(r)
      PROVE  payment'[p] = payment[p] \/ (payment'[p] = "reversed" /\ Executed(p) # {})
  <2>1. Executed(PaymentOf[r]) # {}
    BY <1>1 DEF ConfirmCallback, StatusConfirms, Executed
  <2>2. payment' = [payment EXCEPT ![PaymentOf[r]] = "reversed"]
    BY <1>1 DEF ConfirmCallback, ConfirmedPayment
  <2>3. CASE p = PaymentOf[r]
    <3>1. payment'[p] = "reversed"
      BY <2>2, <2>3 DEF TypeOK
    <3> QED
      BY <2>1, <2>3, <3>1
  <2>4. CASE p # PaymentOf[r]
    BY <2>2, <2>4 DEF TypeOK
  <2> QED
    BY <2>3, <2>4
<1> QED
  BY <1>1, PaymentKept

(***************************************************************************)
(* Each part of the invariant is kept by the moves.                        *)
(***************************************************************************)
\* A worker's sweep holds what it read itself when it was abandoned.
LEMMA SweepMoves ==
    ASSUME TypeOK, [Next]_vars, NEW w \in Workers
    PROVE  work'[w].swept \subseteq work[w].swept \cup {r \in Reversals : Stale(r)}
<1> DEFINE Kept == work'[w].swept \subseteq work[w].swept \cup {r \in Reversals : Stale(r)}
<1>1. ASSUME NEW v \in Workers, SweepRead(v) PROVE Kept
  BY <1>1 DEF SweepRead, NoWork, TypeOK, WorkRows
<1>2. ASSUME NEW v \in Workers, NEW r \in Reversals, Claim(v, r) PROVE Kept
  BY <1>2 DEF Claim, NoWork, TypeOK, WorkRows
<1>3. ASSUME NEW v \in Workers, ClaimNothing(v) \/ Submit(v) \/ CrashWorker(v) PROVE Kept
  <2>1. \/ work' = [work EXCEPT ![v] = NoWork]
        \/ work' = [work EXCEPT ![v].phase = "sending"]
    BY <1>3 DEF ClaimNothing, Submit, LeaseLost, SubmitImpossible, BeginSubmit, FinishSubmit,
       CrashWorker
  <2> QED
    BY <2>1 DEF NoWork, TypeOK, WorkRows
<1>4. ASSUME NEW r \in Reversals,
             Operate(r) \/ Callback(r) \/ Receive(r) \/ Process(r) \/ ExpireLease(r)
      PROVE  Kept
  BY <1>4 DEF Operate, Callback, RequestReversal, ApproveReversal, CancelReversal,
     QueryReversalStatus, TimeoutCallback, FailureCallback, StatusInconclusive, ConfirmCallback,
     Receive, Process, Decide, ExpireLease
<1>5. CASE UNCHANGED vars
  BY <1>5 DEF vars
<1> QED
  BY <1>1, <1>2, <1>3, <1>4, <1>5 DEF Next

\* Only the answer to a submission puts conversation ids on a row.
LEMMA IdsMove ==
    ASSUME TypeOK, WorkNamesReversals, SendInv, [Next]_vars, NEW q \in Reversals
    PROVE  reversal'[q].ids => reversal[q].ids \/ sends[q] # 0
<1> DEFINE Kept == reversal'[q].ids = reversal[q].ids
<1>1. ASSUME NEW r \in Reversals, NEW s, SetStatus(r, s) PROVE Kept
  BY <1>1 DEF SetStatus, TypeOK, ReversalRows
<1>2. ASSUME NEW row \in ReversalRows, NEW s PROVE Released(row, s).ids = row.ids
  BY DEF Released, ReversalRows
<1>3. ASSUME NEW r \in Reversals,
             Operate(r) \/ Callback(r) \/ Receive(r) \/ Process(r) \/ ExpireLease(r)
      PROVE  Kept
  <2>1. CASE QueryReversalStatus(r)
    BY <2>1 DEF QueryReversalStatus, TypeOK, ReversalRows
  <2>2. CASE ExpireLease(r)
    BY <2>2 DEF ExpireLease, TypeOK, ReversalRows
  <2>3. CASE Receive(r) \/ Process(r)
    BY <2>3 DEF Receive, Process, Decide
  <2> QED
    BY <1>1, <1>3, <2>1, <2>2, <2>3
       DEF Operate, Callback, RequestReversal, ApproveReversal, CancelReversal, TimeoutCallback,
           FailureCallback, StatusInconclusive, ConfirmCallback
<1>4. ASSUME NEW w \in Workers, SweepRead(w) \/ LeaseLost(w) \/ CrashWorker(w) PROVE Kept
  BY <1>4 DEF SweepRead, LeaseLost, CrashWorker
<1>5. ASSUME NEW w \in Workers, ClaimNothing(w) PROVE Kept
  BY <1>2, <1>5 DEF ClaimNothing, Swept, TypeOK
<1>6. ASSUME NEW w \in Workers, NEW r \in Reversals, Claim(w, r) PROVE Kept
  <2>1. [reversal[r] EXCEPT !.owner = w, !.lease_live = TRUE].ids = reversal[r].ids
    BY DEF TypeOK, ReversalRows
  <2> QED
    BY <1>2, <1>6, <2>1 DEF Claim, Swept, TypeOK
<1>7. ASSUME NEW w \in Workers, SubmitImpossible(w) PROVE Kept
  BY <1>2, <1>7 DEF SubmitImpossible, TypeOK
<1>8. ASSUME NEW w \in Workers, BeginSubmit(w) PROVE Kept
  <2>1. work[w].reversal \in Reversals /\ SetStatus(work[w].reversal, "submitting")
    BY <1>8 DEF BeginSubmit, Holds, WorkNamesReversals
  <2> QED
    BY <1>1, <2>1
<1>9. ASSUME NEW w \in Workers, FinishSubmit(w) PROVE Kept \/ sends[q] # 0
  <2>1. PICK outcome \in {"submitted", "failed", "unknown"} : FinishesWith(w, outcome)
    BY <1>9, FinishOutcome
  <2>2. reversal'[q] = reversal[q] \/ reversal[q].status = "submitting"
    BY <2>1 DEF FinishesWith, TypeOK
  <2> QED
    BY <2>2 DEF SendInv
<1>10. CASE UNCHANGED vars
  BY <1>10 DEF vars
<1> QED
  BY <1>3, <1>4, <1>5, <1>6, <1>7, <1>8, <1>9, <1>10 DEF Next, Submit

\* What Daraja may execute later, it may execute now, or it is being sent.
LEMMA FlightMoves ==
    ASSUME NEW r \in Reversals, Move(r), InFlight(r)'
    PROVE  InFlight(r) \/ Sent(r)
BY DEF Move, Stays, Requested, Approved, Withdrawn, Sent, Settles, Fails, Confirmed, InFlight,
   Progress

\* Only a reversal that was sent is swept, so what is swept stays sent.
LEMMA SendStep ==
    ASSUME TypeOK, WorkNamesReversals, SendInv, [Next]_vars
    PROVE  SendInv'
<1>1. \A r \in Reversals : Move(r)
  BY StepMoves
<1>2. ASSUME NEW r \in Reversals
      PROVE  /\ sends'[r] <= 1 /\ sends'[r] >= sends[r]
             /\ reversal'[r].status \in Unsent => sends'[r] = 0
             /\ reversal'[r].status \in Queryable \cup {"submitting"} => sends'[r] # 0
  BY <1>1, <1>2 DEF Move, Stays, Requested, Approved, Withdrawn, Sent, Settles, Fails, Confirmed,
     SendInv, Unsent, TypeOK, Cancellable, Queryable
<1>3. ASSUME NEW r \in Reversals, reversal'[r].ids \/ InFlight(r)'
      PROVE  sends'[r] # 0
  <2>1. sends[r] # 0 \/ Sent(r)
    BY <1>1, <1>3, FlightMoves, IdsMove DEF SendInv
  <2> QED
    BY <1>2, <2>1 DEF Sent, TypeOK
<1>4. ASSUME NEW w \in Workers, NEW r \in work'[w].swept
      PROVE  sends'[r] # 0
  <2>1. r \in work[w].swept \/ (r \in Reversals /\ Stale(r))
    BY <1>4, SweepMoves
  <2>2. r \in Reversals /\ sends[r] # 0
    BY <2>1 DEF SendInv, Stale, TypeOK, WorkRows
  <2> QED
    BY <1>2, <2>2 DEF TypeOK
<1> QED
  BY <1>2, <1>3, <1>4 DEF SendInv

LEMMA FlightStep ==
    ASSUME TypeOK, WorkNamesReversals, SendInv, FlightInv, [Next]_vars
    PROVE  FlightInv'
<1>1. \A r \in Reversals : Move(r)
  BY StepMoves
<1>2. ASSUME NEW r \in Reversals, InFlight(r)'
      PROVE  reversal'[r].status \in Queryable \cup {"submitting", "succeeded"}
  <2>1. InFlight(r) \/ Sent(r)
    BY <1>1, <1>2, FlightMoves
  <2>2. CASE Sent(r)
    BY <2>2 DEF Sent
  <2>3. CASE InFlight(r)
    BY <1>1, <1>2, <2>3 DEF Move, Stays, Requested, Approved, Withdrawn, Sent, Settles, Fails,
       Confirmed, FlightInv,
       Queryable, Cancellable
  <2> QED
    BY <2>1, <2>2, <2>3
<1> QED
  BY <1>2 DEF FlightInv

\* A reversal waits only if it waited before or is requested now.
LEMMA WaitMoves ==
    ASSUME NEW r \in Reversals, Move(r), Waiting(r)'
    PROVE  Waiting(r) \/ Requested(r)
BY DEF Move, Stays, Requested, Approved, Withdrawn, Sent, Settles, Fails, Confirmed, Waiting,
   Cancellable

\* No request is made while a rival waits or may still be executed.
LEMMA RequestedAlone ==
    ASSUME FlightInv, SucceededMeansReversed,
           NEW r \in Reversals, NEW q \in Reversals, Rivals(r, q), Requested(r)
    PROVE  ~Waiting(q) /\ ~Waiting(q)' /\ ~InFlight(q)
<1>1. reversal[q].status \notin Active /\ reversal'[q] = reversal[q]
  BY DEF Requested
<1>2. reversal[q].status # "succeeded"
  BY DEF Requested, Rivals, SucceededMeansReversed
<1> QED
  BY <1>1, <1>2 DEF FlightInv, Waiting, Cancellable, Queryable, Active

\* Nothing is sent while a rival waits or may still be executed.
LEMMA SentAlone ==
    ASSUME RivalInv,
           NEW r \in Reversals, NEW q \in Reversals, Rivals(r, q), Sent(r)
    PROVE  ~Waiting(q) /\ ~InFlight(q)
<1>1. Waiting(r) /\ payment[PaymentOf[r]] = "success"
  BY DEF Sent, Waiting, Cancellable
<1>2. Rivals(q, r)
  BY DEF Rivals
<1> QED
  BY <1>1, <1>2 DEF RivalInv

LEMMA RivalStep ==
    ASSUME IInv, [Next]_vars
    PROVE  RivalInv'
<1> USE DEF IInv
<1>1. \A r \in Reversals : Move(r)
  BY StepMoves
<1> SUFFICES ASSUME NEW r \in Reversals, NEW q \in Reversals, Rivals(r, q)
             PROVE  /\ Waiting(q)' => ~Waiting(r)'
                    /\ Waiting(q)' /\ InFlight(r)' => payment'[PaymentOf[q]] = "reversed"
                    /\ InFlight(q)' => ~InFlight(r)'
  BY DEF RivalInv, Rivals
<1>2. Rivals(q, r) /\ PaymentOf[q] = PaymentOf[r] /\ PaymentOf[q] \in Payments
  BY PaymentOfAssumption DEF Rivals
<1>3. ASSUME Waiting(q)', Waiting(r)' PROVE FALSE
  <2>1. ~Requested(q) /\ ~Requested(r)
    BY <1>2, <1>3, RequestedAlone
  <2> QED
    BY <1>1, <1>3, <2>1, WaitMoves DEF RivalInv
<1>4. ASSUME Sent(r)
      PROVE  ~Waiting(q) /\ ~InFlight(q) /\ ~Sent(q) /\ ~Requested(q)
  <2>1. ~Waiting(q) /\ ~InFlight(q)
    BY <1>4, SentAlone
  <2>2. reversal[r].status \in Active
    BY <1>4 DEF Sent, Active
  <2> QED
    BY <1>2, <2>1, <2>2 DEF Sent, Requested, Waiting, Cancellable
<1>5. ASSUME Sent(q)
      PROVE  ~InFlight(r) /\ ~Sent(r)
  <2>1. ~Waiting(r) /\ ~InFlight(r)
    BY <1>2, <1>5, SentAlone
  <2> QED
    BY <2>1 DEF Sent, Waiting, Cancellable
<1>6. ASSUME Waiting(q)', InFlight(r)' PROVE payment'[PaymentOf[q]] = "reversed"
  <2>1. Waiting(q) \/ Requested(q)
    BY <1>1, <1>6, WaitMoves
  <2>2. InFlight(r) \/ Sent(r)
    BY <1>1, <1>6, FlightMoves
  <2>3. ~Sent(r)
    BY <1>4, <2>1
  <2>4. ~Requested(q)
    BY <1>2, <2>2, <2>3, RequestedAlone
  <2>5. payment[PaymentOf[q]] = "reversed"
    BY <2>1, <2>2, <2>3, <2>4 DEF RivalInv
  <2> QED
    BY <1>2, <2>5, PaymentMoves
<1>7. ASSUME InFlight(q)', InFlight(r)' PROVE FALSE
  <2>1. (InFlight(q) \/ Sent(q)) /\ (InFlight(r) \/ Sent(r))
    BY <1>1, <1>7, FlightMoves
  <2>2. InFlight(q) /\ InFlight(r)
    BY <1>4, <1>5, <2>1
  <2> QED
    BY <2>2 DEF RivalInv
<1> QED
  BY <1>3, <1>6, <1>7

\* What Daraja has executed stays executed: only a waiting reversal is sent.
LEMMA ExecutedStays ==
    ASSUME IInv, [Next]_vars, NEW p \in Payments
    PROVE  Executed(p) \subseteq Executed(p)'
<1>1. \A r \in Reversals : Move(r)
  BY StepMoves DEF IInv
<1>2. ASSUME NEW r \in Reversals, provider[r] = "executed" PROVE provider'[r] = "executed"
  <2>1. ~Sent(r)
    BY <1>2 DEF Sent, IInv, FlightInv, InFlight, Queryable
  <2>2. CASE Fails(r)
    BY <1>2, <2>2 DEF Fails, InFlight, Progress
  <2> QED
    BY <1>1, <1>2, <2>1, <2>2 DEF Move, Stays, Requested, Approved, Withdrawn, Settles, Confirmed,
       Progress
<1> QED
  BY <1>2 DEF Executed

LEMMA ReversedStep ==
    ASSUME IInv, [Next]_vars
    PROVE  ReversedMeansExecuted'
<1> SUFFICES ASSUME NEW p \in Payments, payment'[p] = "reversed"
             PROVE  Executed(p)' # {}
  BY DEF ReversedMeansExecuted
<1>1. Executed(p) # {}
  BY PaymentMoves DEF IInv, ReversedMeansExecuted
<1> QED
  BY <1>1, ExecutedStays

LEMMA SucceededStep ==
    ASSUME IInv, [Next]_vars
    PROVE  SucceededMeansReversed'
<1> SUFFICES ASSUME NEW r \in Reversals, reversal'[r].status = "succeeded"
             PROVE  payment'[PaymentOf[r]] = "reversed"
  BY DEF SucceededMeansReversed
<1>1. Move(r)
  BY StepMoves DEF IInv
<1>2. CASE Confirmed(r)
  BY <1>2 DEF Confirmed
<1>3. CASE reversal[r].status = "succeeded"
  <2>1. payment[PaymentOf[r]] = "reversed" /\ PaymentOf[r] \in Payments
    BY <1>3, PaymentOfAssumption DEF IInv, SucceededMeansReversed
  <2> QED
    BY <2>1, PaymentMoves DEF IInv
<1> QED
  BY <1>1, <1>2, <1>3 DEF Move, Stays, Requested, Approved, Withdrawn, Sent, Settles, Fails

LEMMA Initially == Init => IInv
<1> SUFFICES ASSUME Init PROVE IInv
  OBVIOUS
<1>1. TypeOK /\ WorkNamesReversals
  BY TypeInit
<1>2. SendInv /\ FlightInv /\ SucceededMeansReversed
  BY PaymentOfAssumption DEF Init, SendInv, FlightInv, SucceededMeansReversed, InFlight,
     NewReversal, NoWork, Queryable
<1>3. RivalInv /\ ReversedMeansExecuted
  BY DEF Init, RivalInv, ReversedMeansExecuted, InFlight, Waiting, Cancellable, NewReversal
<1> QED
  BY <1>1, <1>2, <1>3 DEF IInv

LEMMA Inductive == IInv /\ [Next]_vars => IInv'
<1> SUFFICES ASSUME IInv, [Next]_vars PROVE IInv'
  OBVIOUS
<1>1. TypeOK' /\ WorkNamesReversals'
  BY TypeStep DEF IInv
<1>2. SendInv'
  BY SendStep DEF IInv
<1>3. FlightInv'
  BY FlightStep DEF IInv
<1> QED
  BY <1>1, <1>2, <1>3, RivalStep, ReversedStep, SucceededStep DEF IInv

LEMMA Invariance == Spec => []IInv
BY Initially, Inductive, PTL DEF Spec

(***************************************************************************)
(* Theorems.                                                               *)
(***************************************************************************)
\* Every reachable state has the declared types.
THEOREM TypeCorrect == Spec => []TypeOK
<1>1. IInv => TypeOK
  BY DEF IInv
<1> QED
  BY <1>1, Invariance, PTL

\* No worker crash, expired lease or unlocked sweep makes the workers send a
\* reversal to Daraja a second time.
THEOREM NeverSentTwice == Spec => []SubmittedOnce
<1>1. IInv => SubmittedOnce
  BY DEF IInv, SendInv, SubmittedOnce
<1> QED
  BY <1>1, Invariance, PTL

\* Daraja executes at most one reversal of a payment, however many are
\* requested for it one after the other.
THEOREM NeverReversedTwice == Spec => []NoDoubleReversal
<1>1. ASSUME IInv PROVE NoDoubleReversal
  <2> SUFFICES ASSUME NEW p \in Payments
               PROVE  Cardinality(Executed(p)) <= 1
    BY DEF NoDoubleReversal
  <2>1. ASSUME NEW r \in Executed(p), NEW q \in Executed(p) PROVE r = q
    BY <1>1, <2>1 DEF IInv, RivalInv, Executed, InFlight, Rivals
  <2>2. CASE Executed(p) = {}
    BY <2>2, FS_EmptySet
  <2>3. CASE Executed(p) # {}
    <3>1. PICK r : r \in Executed(p)
      BY <2>3
    <3>2. Executed(p) = {r}
      BY <2>1, <3>1
    <3> QED
      BY <3>2, FS_Singleton
  <2> QED
    BY <2>2, <2>3
<1> QED
  BY <1>1, Invariance, PTL

\* A payment is reversed only after Daraja executed a reversal of it.
THEOREM ReversalIsReal == Spec => []ReversedMeansExecuted
<1>1. IInv => ReversedMeansExecuted
  BY DEF IInv
<1> QED
  BY <1>1, Invariance, PTL

\* A reversal that succeeded has reversed its payment.
THEOREM SuccessReverses == Spec => []SucceededMeansReversed
<1>1. IInv => SucceededMeansReversed
  BY DEF IInv
<1> QED
  BY <1>1, Invariance, PTL

\* A cancelled request is never sent and stays cancelled.
THEOREM CancellationIsFinal == Spec => CancellationHolds
<1>1. ASSUME IInv, [Next]_vars, NEW r \in Reversals, reversal[r].status = "cancelled"
      PROVE  sends[r] = 0 /\ reversal'[r].status = "cancelled"
  <2>1. Move(r)
    BY <1>1, StepMoves DEF IInv
  <2>2. sends[r] = 0
    BY <1>1 DEF IInv, SendInv, Unsent
  <2> QED
    BY <1>1, <2>1, <2>2 DEF Move, Stays, Requested, Approved, Withdrawn, Sent, Settles, Fails,
       Confirmed, Terminal,
       Cancellable
<1>2. IInv /\ [Next]_vars =>
        [\A r \in Reversals : reversal[r].status = "cancelled" =>
            sends[r] = 0 /\ reversal'[r].status = "cancelled"]_vars
  BY <1>1
<1> QED
  BY <1>2, Invariance, PTL DEF Spec, CancellationHolds

(***************************************************************************)
(* The refinement.  A step changes the real stage of one request at most,  *)
(* and the books only when a request has been executed.                    *)
(***************************************************************************)
StageOf == [r \in Reversals |-> Stage(r)]

\* The stages a move leads between.
LEMMA StageMoves ==
    ASSUME IInv, NEW r \in Reversals, Move(r)
    PROVE  \/ Stage(r)' = Stage(r)
           \/ Requested(r) /\ Stage(r) = "absent" /\ Stage(r)' = "asked"
           \/ Approved(r) /\ Stage(r) = "asked" /\ Stage(r)' = "approved"
           \/ Stage(r) \in {"asked", "approved"} /\ Stage(r)' = "withdrawn"
           \/ Sent(r) /\ Stage(r) = "approved" /\ Stage(r)' = "sent"
           \/ Stage(r) = "sent" /\ Stage(r)' \in {"returned", "lost"}
<1> USE DEF IInv
<1>1. reversal[r].status \in Unsent => sends[r] = 0
  BY DEF SendInv
<1>2. sends[r] = 0 => ~InFlight(r)
  BY DEF SendInv
<1>3. sends[r] \in Nat
  BY DEF TypeOK
<1>4. CASE Stays(r) \/ Settles(r) \/ Fails(r) \/ Confirmed(r)
  BY <1>2, <1>4 DEF Stays, Settles, Fails, Confirmed, Progress, InFlight, Stage, StageOfSent,
     StageOfUnsent
<1>5. CASE Requested(r)
  BY <1>1, <1>5 DEF Requested, Unsent, Stage, StageOfUnsent
<1>6. CASE Approved(r)
  BY <1>1, <1>6 DEF Approved, Unsent, Stage, StageOfUnsent
<1>7. CASE Withdrawn(r)
  BY <1>1, <1>7 DEF Withdrawn, Cancellable, Unsent, Stage, StageOfUnsent
<1>8. CASE Sent(r)
  BY <1>1, <1>3, <1>8 DEF Sent, Unsent, Stage, StageOfSent, StageOfUnsent
<1> QED
  BY <1>4, <1>5, <1>6, <1>7, <1>8 DEF Move

\* What a step does not touch keeps its stage, and what it sweeps was sent.
Keeps(q) == Stage(q)' = Stage(q)

LEMMA KeepsRest ==
    ASSUME NEW q, reversal'[q].status = reversal[q].status,
           provider'[q] = provider[q], sends'[q] = sends[q]
    PROVE  Keeps(q)
BY DEF Keeps, Stage

LEMMA OneMoves ==
    ASSUME TypeOK, WorkNamesReversals, SendInv, [Next]_vars
    PROVE  \/ \A q \in Reversals : Keeps(q)
           \/ payment' = payment /\ \E r \in Reversals : \A q \in Reversals \ {r} : Keeps(q)
<1>1. ASSUME NEW r \in Reversals, NEW s, SetStatus(r, s), UNCHANGED <<provider, sends>>
      PROVE  \A q \in Reversals \ {r} : Keeps(q)
  BY <1>1, KeepsRest DEF SetStatus, TypeOK
<1>2. ASSUME NEW r \in Reversals, RequestReversal(r) \/ ApproveReversal(r) \/ CancelReversal(r)
                 \/ TimeoutCallback(r) \/ FailureCallback(r) \/ StatusInconclusive(r)
      PROVE  payment' = payment /\ \A q \in Reversals \ {r} : Keeps(q)
  BY <1>1, <1>2 DEF RequestReversal, ApproveReversal, CancelReversal, TimeoutCallback,
     FailureCallback, StatusInconclusive
<1>3. ASSUME NEW r \in Reversals, QueryReversalStatus(r) \/ ExpireLease(r)
      PROVE  \A q \in Reversals : Keeps(q)
  BY <1>3, KeepsRest DEF QueryReversalStatus, ExpireLease, TypeOK, ReversalRows
<1>4. ASSUME NEW r \in Reversals, ConfirmCallback(r) PROVE \A q \in Reversals : Keeps(q)
  <2>1. SetStatus(r, "succeeded") /\ UNCHANGED <<provider, sends>>
    BY <1>4 DEF ConfirmCallback
  <2>2. sends[r] # 0
    BY <1>4 DEF ConfirmCallback, StatusConfirms, MatchedById, MatchedByReceipt, SendInv
  <2>3. Keeps(r)
    BY <2>1, <2>2 DEF Keeps, Stage
  <2> QED
    BY <1>1, <2>1, <2>3
<1>5. ASSUME NEW r \in Reversals, Receive(r) \/ Process(r)
      PROVE  payment' = payment /\ \A q \in Reversals \ {r} : Keeps(q)
  BY <1>5, KeepsRest DEF Receive, Process, Decide, TypeOK
<1>6. ASSUME NEW w \in Workers, SweepRead(w) \/ LeaseLost(w) \/ CrashWorker(w)
      PROVE  \A q \in Reversals : Keeps(q)
  BY <1>6, KeepsRest DEF SweepRead, LeaseLost, CrashWorker
<1>7. ASSUME NEW w \in Workers, UNCHANGED <<provider, sends>>,
             \A q \in Reversals \ work[w].swept : reversal'[q].status = reversal[q].status
      PROVE  \A q \in Reversals : Keeps(q)
  <2>1. \A q \in work[w].swept : sends[q] # 0
    BY DEF SendInv
  <2>2. ASSUME NEW q \in Reversals, sends[q] # 0 PROVE Keeps(q)
    BY <1>7, <2>2 DEF Keeps, Stage
  <2> QED
    BY <1>7, <2>1, <2>2, KeepsRest
<1>8. ASSUME NEW w \in Workers, ClaimNothing(w) PROVE \A q \in Reversals : Keeps(q)
  <2>1. \A q \in Reversals \ work[w].swept : reversal'[q] = reversal[q]
    BY <1>8 DEF ClaimNothing
  <2> QED
    BY <1>7, <1>8, <2>1 DEF ClaimNothing
<1>9. ASSUME NEW w \in Workers, NEW r \in Reversals, Claim(w, r)
      PROVE  \A q \in Reversals : Keeps(q)
  <2>1. [reversal[r] EXCEPT !.owner = w, !.lease_live = TRUE].status = reversal[r].status
    BY DEF TypeOK, ReversalRows
  <2>2. \A q \in Reversals \ work[w].swept : reversal'[q].status = reversal[q].status
    BY <1>9, <2>1 DEF Claim
  <2> QED
    BY <1>7, <1>9, <2>2 DEF Claim
<1>10. ASSUME NEW w \in Workers, SubmitImpossible(w) \/ BeginSubmit(w) \/ FinishSubmit(w)
       PROVE  /\ payment' = payment
              /\ \E r \in Reversals : \A q \in Reversals \ {r} : Keeps(q)
  <2>1. PICK r \in Reversals : r = work[w].reversal
    BY <1>10 DEF SubmitImpossible, BeginSubmit, FinishSubmit, Holds, WorkNamesReversals
  <2>2. ASSUME NEW q \in Reversals \ {r}
        PROVE  reversal'[q] = reversal[q] /\ provider'[q] = provider[q] /\ sends'[q] = sends[q]
    <3>1. CASE SubmitImpossible(w) \/ BeginSubmit(w)
      BY <2>1, <3>1 DEF SubmitImpossible, BeginSubmit, SetStatus, TypeOK
    <3>2. CASE FinishSubmit(w)
      <4>1. PICK outcome \in {"submitted", "failed", "unknown"} : FinishesWith(w, outcome)
        BY <3>2, FinishOutcome
      <4> QED
        BY <2>1, <3>2, <4>1 DEF FinishesWith, FinishSubmit, TypeOK
    <3> QED
      BY <1>10, <3>1, <3>2
  <2>3. payment' = payment
    BY <1>10 DEF SubmitImpossible, BeginSubmit, FinishSubmit
  <2> QED
    BY <2>2, <2>3, KeepsRest
<1>11. CASE UNCHANGED vars
  BY <1>11, KeepsRest DEF vars
<1> QED
  BY <1>2, <1>3, <1>4, <1>5, <1>6, <1>8, <1>9, <1>10, <1>11 DEF Next, Operate, Callback, Submit

\* The rivals of a request that neither wait nor fly are out of its way.
LEMMA OutOfTheWay ==
    ASSUME IInv, NEW q \in Reversals, ~Waiting(q), ~InFlight(q)
    PROVE  Stage(q) \notin {"asked", "approved", "sent", "returned"}
BY DEF IInv, Waiting, InFlight, Cancellable, Stage, StageOfSent, StageOfUnsent

LEMMA StageStep ==
    ASSUME IInv, [Next]_vars, payment' = payment, NEW r \in Reversals,
           \A q \in Reversals \ {r} : Keeps(q)
    PROVE  Payback!Next \/ StageOf' = StageOf
<1>1. Move(r)
  BY StepMoves DEF IInv
<1>2. \A q \in Reversals : StageOf[q] = Stage(q)
  BY DEF StageOf
<1>3. StageOf' = [StageOf EXCEPT ![r] = Stage(r)']
  BY DEF StageOf, Keeps
<1>4. ASSUME Requested(r) \/ Sent(r), NEW q \in Reversals \ {r}, PaymentOf[q] = PaymentOf[r]
      PROVE  Stage(q) \notin {"asked", "approved", "sent", "returned"}
  <2>1. Rivals(r, q)
    BY <1>4 DEF Rivals
  <2>2. ~Waiting(q) /\ ~InFlight(q)
    BY <1>4, <2>1, RequestedAlone, SentAlone DEF IInv
  <2> QED
    BY <2>2, OutOfTheWay
<1>5. Requested(r) \/ Sent(r) =>
        \A q \in Reversals \ {r} : PaymentOf[q] = PaymentOf[r] =>
            StageOf[q] \notin {"asked", "approved", "sent", "returned"}
  BY <1>2, <1>4
<1>6. Stage(r)' = Stage(r) => StageOf' = StageOf
  BY <1>2, <1>3 DEF StageOf
<1>7. CASE Requested(r) /\ Stage(r) = "absent" /\ Stage(r)' = "asked"
  <2>1. Payback!Ask(r)
    BY <1>2, <1>3, <1>5, <1>7 DEF Payback!Ask, Payback!NoOther, Payback!Goes, Requested, StageOf
  <2> QED
    BY <2>1 DEF Payback!Next
<1>8. CASE Approved(r) /\ Stage(r) = "asked" /\ Stage(r)' = "approved"
  <2>1. Payback!Approve(r)
    BY <1>2, <1>3, <1>8 DEF Payback!Approve, Payback!Goes, Approved, StageOf
  <2> QED
    BY <2>1 DEF Payback!Next
<1>9. CASE Stage(r) \in {"asked", "approved"} /\ Stage(r)' = "withdrawn"
  <2>1. Payback!Withdraw(r)
    BY <1>2, <1>3, <1>9 DEF Payback!Withdraw, Payback!Goes, StageOf
  <2> QED
    BY <2>1 DEF Payback!Next
<1>10. CASE Sent(r) /\ Stage(r) = "approved" /\ Stage(r)' = "sent"
  <2>1. Payback!Send(r)
    BY <1>2, <1>3, <1>5, <1>10 DEF Payback!Send, Payback!NoOther, Payback!Goes, Sent, StageOf
  <2> QED
    BY <2>1 DEF Payback!Next
<1>11. CASE Stage(r) = "sent" /\ Stage(r)' \in {"returned", "lost"}
  <2>1. Payback!Settle(r)
    BY <1>2, <1>3, <1>11 DEF Payback!Settle, Payback!Goes, StageOf
  <2> QED
    BY <2>1 DEF Payback!Next
<1> QED
  BY <1>1, <1>6, <1>7, <1>8, <1>9, <1>10, <1>11, StageMoves

LEMMA BookStep ==
    ASSUME IInv, [Next]_vars, \A q \in Reversals : Keeps(q)
    PROVE  Payback!Next \/ (StageOf' = StageOf /\ payment' = payment)
<1>1. StageOf' = StageOf
  BY DEF StageOf, Keeps
<1>2. CASE payment' = payment
  BY <1>1, <1>2
<1>3. ASSUME NEW r \in Reversals, ConfirmCallback(r), payment' # payment
      PROVE  Payback!Next
  <2> DEFINE p == PaymentOf[r]
  <2>1. p \in Payments /\ payment' = [payment EXCEPT ![p] = "reversed"]
    BY <1>3, PaymentOfAssumption DEF ConfirmCallback, ConfirmedPayment
  <2>2. payment[p] = "success"
    BY <1>3, <2>1 DEF IInv, TypeOK
  <2>3. PICK q \in Reversals : PaymentOf[q] = p /\ provider[q] = "executed"
    BY <1>3 DEF ConfirmCallback, StatusConfirms, Executed
  <2>4. StageOf[q] = "returned"
    BY <2>3 DEF StageOf, Stage, StageOfSent, IInv, SendInv, InFlight
  <2> HIDE DEF p
  <2>5. Payback!Book(p)
    BY <1>1, <2>1, <2>2, <2>3, <2>4 DEF Payback!Book, StageOf
  <2> QED
    BY <2>1, <2>5 DEF Payback!Next
<1>4. (\A r \in Reversals : ~ConfirmCallback(r)) => payment' = payment
  BY PaymentKept
<1> QED
  BY <1>2, <1>3, <1>4

\* The reversal workflow implements Payback: leases, crashes, unlocked sweeps,
\* late callbacks and status queries only ever ask, send, withdraw and book as
\* the money itself allows.
THEOREM ReversalsImplementPayback == Spec => ImplementsPayback
<1>1. Init => Payback!Init
  BY DEF Init, Payback!Init, NewReversal, Stage, StageOfUnsent
<1>2. IInv /\ [Next]_vars => [Payback!Next]_<<StageOf, payment>>
  <2> SUFFICES ASSUME IInv, [Next]_vars
               PROVE  Payback!Next \/ (StageOf' = StageOf /\ payment' = payment)
    OBVIOUS
  <2>1. CASE \A q \in Reversals : Keeps(q)
    BY <2>1, BookStep
  <2>2. CASE payment' = payment /\ \E r \in Reversals : \A q \in Reversals \ {r} : Keeps(q)
    BY <2>2, StageStep
  <2> QED
    BY <2>1, <2>2, OneMoves DEF IInv
<1>3. ImplementsPayback <=> Payback!Init /\ [][Payback!Next]_<<StageOf, payment>>
  BY DEF ImplementsPayback, Payback!Spec, StageOf
<1> QED
  BY <1>1, <1>2, <1>3, Invariance, PTL DEF Spec

=============================================================================
