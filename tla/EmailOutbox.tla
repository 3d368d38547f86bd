----------------------------- MODULE EmailOutbox -----------------------------
(***************************************************************************)
(* The email outbox (app/email_delivery.py, drained by app/worker.py).  A  *)
(* worker claims one due row under a 60 s lease, loads it, talks SMTP and  *)
(* commits the outcome together with the attempt.  A worker that dies, or  *)
(* outlives its lease, leaves the row to be claimed again; one that wakes  *)
(* up late still writes its outcome, by primary key.                       *)
(***************************************************************************)
EXTENDS Naturals, Null

CONSTANTS
    Mails,          \* lynxpay_email_outbox rows
    Workers,        \* email workers
    MaxAttempts     \* EMAIL_MAX_ATTEMPTS

ASSUME OutboxAssumption == MaxAttempts \in Nat \ {0} /\ None \notin Workers

VARIABLES
    email,      \* the rows
    worker,     \* the delivery of each worker
    accepted,   \* how often the SMTP server took the mail, counted to 2
    refused,    \* how many deliveries ended in an exception, to MaxAttempts
    doubtful    \* mails whose acceptance nobody recorded before the next claim

outboxVars == <<email, worker, accepted, refused, doubtful>>

EmailStates ==
    {"absent", "queued", "sending", "sent", "retry_scheduled", "dead_letter"}
EmailRows ==
    [status : EmailStates, attempts : 0..MaxAttempts,
     lease_owner : Workers \cup {None}, lease_live : BOOLEAN]

\* "attempts" is the value loaded from the row.
WorkerRows ==
    [phase : {"idle", "claimed", "sending", "accepted", "refused"},
     email : Mails \cup {None}, attempts : 0..MaxAttempts]
NoDelivery == [phase |-> "idle", email |-> None, attempts |-> 0]

OutboxTypeOK ==
    /\ email \in [Mails -> EmailRows]
    /\ worker \in [Workers -> WorkerRows]
    /\ accepted \in [Mails -> 0..2]
    /\ refused \in [Mails -> 0..MaxAttempts]
    /\ doubtful \subseteq Mails

OutboxInit ==
    /\ email = [e \in Mails |->
          [status |-> "absent", attempts |-> 0, lease_owner |-> None, lease_live |-> FALSE]]
    /\ worker = [w \in Workers |-> NoDelivery]
    /\ accepted = [e \in Mails |-> 0]
    /\ refused = [e \in Mails |-> 0]
    /\ doubtful = {}

Counted(n, most) == IF n < most THEN n + 1 ELSE most

\* enqueue_email, in the transaction of the request that wants the mail
Enqueue(e) ==
    /\ email[e].status = "absent"
    /\ email' = [email EXCEPT ![e].status = "queued"]
    /\ UNCHANGED <<worker, accepted, refused, doubtful>>

\* next_attempt_at may have come, whenever it was set.
Claimable(e) ==
    \/ email[e].status \in {"queued", "retry_scheduled"}
    \/ email[e].status = "sending" /\ ~email[e].lease_live

Claim(w, e) ==
    /\ worker[w].phase = "idle"
    /\ Claimable(e)
    /\ email' = [email EXCEPT ![e].status = "sending", ![e].lease_owner = w,
                              ![e].lease_live = TRUE]
    /\ worker' = [worker EXCEPT ![w] = [NoDelivery EXCEPT !.phase = "claimed", !.email = e]]
    /\ UNCHANGED <<accepted, refused, doubtful>>

OwnedByAnyone(w, e) == email[e].status = "sending"      \* mutant: no lease_owner
Owned(w, e) == email[e].status = "sending" /\ email[e].lease_owner = w

\* deliver_claimed_email goes on only with a row this worker still owns; it
\* does not ask whether the lease has run out.
Load(w) ==
    LET e == worker[w].email IN
        /\ worker[w].phase = "claimed"
        /\ worker' = [worker EXCEPT ![w] =
              IF Owned(w, e)
              THEN [@ EXCEPT !.phase = "sending", !.attempts = email[e].attempts]
              ELSE NoDelivery]
        /\ doubtful' = IF Owned(w, e) /\ ~email[e].lease_live THEN doubtful \cup {e} ELSE doubtful
        /\ UNCHANGED <<email, accepted, refused>>

\* _smtp_send, on a thread: taken, refused, or taken with the answer lost.
Send(w, took, answer) ==
    LET e == worker[w].email IN
    /\ worker[w].phase = "sending"
    /\ answer = "accepted" => took
    /\ worker' = [worker EXCEPT ![w].phase = answer]
    /\ accepted' = IF took THEN [accepted EXCEPT ![e] = Counted(@, 2)] ELSE accepted
    /\ refused' = IF answer = "refused"
                  THEN [refused EXCEPT ![e] = Counted(@, MaxAttempts)] ELSE refused
    /\ doubtful' = IF took /\ answer = "refused" THEN doubtful \cup {e} ELSE doubtful
    /\ UNCHANGED email

ExhaustedEarly(attempts) == attempts >= MaxAttempts - 1  \* mutant: off by one
ExhaustedLate(attempts) == attempts > MaxAttempts        \* mutant
Exhausted(attempts) == attempts >= MaxAttempts

Outcome(w, attempts) ==
    IF worker[w].phase = "accepted" THEN "sent"
    ELSE IF Exhausted(attempts) THEN "dead_letter"
    ELSE "retry_scheduled"

\* The outcome, the attempt and the end of the lease, whatever the row is now.
Commit(w) ==
    LET e == worker[w].email
        attempts == worker[w].attempts + 1
    IN  /\ worker[w].phase \in {"accepted", "refused"}
        /\ email' = [email EXCEPT ![e] =
              [status |-> Outcome(w, attempts), attempts |-> attempts,
               lease_owner |-> None, lease_live |-> FALSE]]
        /\ worker' = [worker EXCEPT ![w] = NoDelivery]
        /\ UNCHANGED <<accepted, refused, doubtful>>

\* The worker dies; a mail it has just handed over is not recorded as sent.
Crash(w) ==
    /\ worker[w].phase # "idle"
    /\ worker' = [worker EXCEPT ![w] = NoDelivery]
    /\ doubtful' = IF worker[w].phase = "accepted"
                   THEN doubtful \cup {worker[w].email} ELSE doubtful
    /\ UNCHANGED <<email, accepted, refused>>

\* 60 s pass; a worker that has loaded the row goes on without the lease.
LeaseExpires(e) ==
    /\ email[e].lease_live
    /\ email' = [email EXCEPT ![e].lease_live = FALSE]
    /\ doubtful' = IF \E w \in Workers : worker[w].email = e /\ worker[w].phase # "claimed"
                   THEN doubtful \cup {e} ELSE doubtful
    /\ UNCHANGED <<worker, accepted, refused>>

WorkerStep(w) ==
    \/ \E e \in Mails : Claim(w, e)
    \/ Load(w) \/ Commit(w) \/ Crash(w)
    \/ \E took \in BOOLEAN, answer \in {"accepted", "refused"} : Send(w, took, answer)

OutboxNext ==
    \/ \E e \in Mails : Enqueue(e) \/ LeaseExpires(e)
    \/ \E w \in Workers : WorkerStep(w)

OutboxSpec == OutboxInit /\ [][OutboxNext]_outboxVars

-----------------------------------------------------------------------------
\* A mail is given up only after as many deliveries have really failed as the
\* setting allows: overlapping workers and lost attempts may add deliveries,
\* they never make the outbox give up early.
DeadLettersAreExhausted ==
    \A e \in Mails : email[e].status = "dead_letter" => refused[e] = MaxAttempts

\* A mail is handed to the SMTP server twice only if an earlier acceptance was
\* not recorded in time: its answer was lost, its worker died before the commit
\* or a worker outlived its lease.
OneMailUnlessDoubtful ==
    \A e \in Mails : accepted[e] > 1 => e \in doubtful

=============================================================================
