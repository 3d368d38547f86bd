-------------------------- MODULE WebhookDelivery --------------------------
(***************************************************************************)
(* The webhook queue of LynxPay: payment events become delivery rows, a    *)
(* polling worker leases a due row, commits the proof that an attempt      *)
(* begins, sends the request without a lock, and commits the outcome from  *)
(* the copies of the rows it read before it sent.  Several workers, the    *)
(* merchant and payment handlers share the tables.                         *)
(***************************************************************************)
EXTENDS Integers, Sequences, FiniteSets

CONSTANTS
    Endpoints,
    Deliveries,
    EndpointOf,     \* the endpoint a delivery row is queued for
    Workers,
    Reliable,       \* the workers that keep polling and do not die
    MaxAttempts,    \* WEBHOOK_MAX_ATTEMPTS
    PauseAfter,     \* WEBHOOK_AUTO_PAUSE_FAILURES
    Mishaps,        \* bound: the number of attempts of a delivery up to which
                    \* its leases are overrun and its workers die
    None            \* SQL NULL

ASSUME EndpointOfAssumption == EndpointOf \in [Deliveries -> Endpoints]
ASSUME LimitsAssumption == MaxAttempts \in Nat \ {0} /\ PauseAfter \in Nat \ {0}
ASSUME MishapsAssumption == Mishaps \in [Deliveries -> Nat]
ASSUME WorkersAssumption == Reliable \subseteq Workers /\ None \notin Workers /\ None \notin Deliveries

VARIABLES
    endpoint,   \* the lynxpay_webhook_endpoints rows
    delivery,   \* the lynxpay_webhook_deliveries rows
    history,    \* the lynxpay_webhook_delivery_attempts rows, by attempt number
    work        \* what each worker is doing

vars == <<endpoint, delivery, history, work>>

EndpointStates == {"active", "disabled", "paused", "archived"}
DeliveryStates ==
    {"absent", "queued", "delivering", "retry_scheduled", "delivered", "dead_letter"}
AttemptStates == {"started", "delivered", "failed"}

EndpointRows ==
    [status : EndpointStates, failures : Nat, auto_paused : BOOLEAN]
DeliveryRows ==
    [status : DeliveryStates, attempts : Nat, owner : Workers \cup {None},
     lease_live : BOOLEAN]

NewEndpoint == [status |-> "active", failures |-> 0, auto_paused |-> FALSE]
NewDelivery == [status |-> "absent", attempts |-> 0, owner |-> None, lease_live |-> FALSE]

\* "loaded": the row was read, "seen" attempts were on it; "sending": the
\* attempt has begun, and the worker holds a copy of both rows.
WorkRows ==
    [phase : {"idle", "claimed", "loaded", "sending"}, delivery : Deliveries \cup {None},
     seen : Nat, number : Nat, row : DeliveryRows, endpoint : EndpointRows]
NoWork ==
    [phase |-> "idle", delivery |-> None, seen |-> 0, number |-> 0,
     row |-> NewDelivery, endpoint |-> NewEndpoint]

TypeOK ==
    /\ endpoint \in [Endpoints -> EndpointRows]
    /\ delivery \in [Deliveries -> DeliveryRows]
    /\ history \in [Deliveries -> Seq(AttemptStates)]
    /\ work \in [Workers -> WorkRows]

Init ==
    /\ endpoint = [e \in Endpoints |-> NewEndpoint]
    /\ delivery = [d \in Deliveries |-> NewDelivery]
    /\ history = [d \in Deliveries |-> <<>>]
    /\ work = [w \in Workers |-> NoWork]

(***************************************************************************)
(* The merchant and the payment handlers.                                  *)
(***************************************************************************)
Add(d) ==
    /\ delivery[d].status = "absent"
    /\ delivery' = [delivery EXCEPT ![d].status = "queued"]
    /\ UNCHANGED <<endpoint, history, work>>

\* queue_webhooks and test_webhook_endpoint skip an endpoint that is not active.
Enqueue(d) == endpoint[EndpointOf[d]].status = "active" /\ Add(d)

\* replay_webhook_delivery queues a new row for whatever endpoint the old one had.
Replay(old, d) ==
    /\ delivery[old].status # "absent"
    /\ EndpointOf[old] = EndpointOf[d]
    /\ Add(d)

\* update_webhook_endpoint accepts any present status, an archived one too.
UpdateEndpoint(e, status) ==
    /\ endpoint' = [endpoint EXCEPT ![e] =
            IF status = "active" THEN NewEndpoint ELSE [@ EXCEPT !.status = status]]
    /\ UNCHANGED <<delivery, history, work>>

ArchiveEndpoint(e) ==
    /\ endpoint' = [endpoint EXCEPT ![e].status = "archived"]
    /\ UNCHANGED <<delivery, history, work>>

(***************************************************************************)
(* claim_deliveries: one transaction, row locks with SKIP LOCKED.  When a  *)
(* retry is due is left open.                                              *)
(***************************************************************************)
DueOnlyOnce(d) ==                   \* mutant: a delivery in flight is never taken over
    delivery[d].status \in {"queued", "retry_scheduled"}

Due(d) ==
    \/ delivery[d].status \in {"queued", "retry_scheduled"}
    \/ delivery[d].status = "delivering" /\ ~delivery[d].lease_live

Claim(w, d) ==
    /\ work[w].phase = "idle"
    /\ Due(d)
    /\ endpoint[EndpointOf[d]].status = "active"
    /\ delivery' = [delivery EXCEPT ![d] =
            [@ EXCEPT !.status = "delivering", !.owner = w, !.lease_live = TRUE]]
    /\ work' = [work EXCEPT ![w] = [NoWork EXCEPT !.phase = "claimed", !.delivery = d]]
    /\ UNCHANGED <<endpoint, history>>

(***************************************************************************)
(* deliver_claimed, up to its first commit: the row is read without a lock,*)
(* and the number of the new attempt row comes from that reading.          *)
(***************************************************************************)
StillClaimed(w) ==
    LET d == work[w].delivery IN
    work[w].phase = "claimed" /\ delivery[d].status = "delivering" /\ delivery[d].owner = w

Load(w) ==
    /\ StillClaimed(w)
    /\ work' = [work EXCEPT ![w].phase = "loaded",
                            ![w].seen = delivery[work[w].delivery].attempts]
    /\ UNCHANGED <<endpoint, delivery, history>>

LoadTooLate(w) ==
    /\ work[w].phase = "claimed" /\ ~StillClaimed(w)
    /\ work' = [work EXCEPT ![w] = NoWork]
    /\ UNCHANGED <<endpoint, delivery, history>>

\* The unique constraint on the number of an attempt.
NumberIsFreeUnchecked(d, n) == TRUE     \* mutant: the constraint is missing
NumberIsFree(d, n) == n > Len(history[d])

\* The first commit, and the reading of both rows that opens the next
\* transaction: what the worker knows while it sends.
BeginAttempt(w) ==
    LET d == work[w].delivery
        n == work[w].seen + 1
        row == [delivery[d] EXCEPT !.attempts = n]
    IN
    /\ work[w].phase = "loaded"
    /\ NumberIsFree(d, n)
    /\ delivery' = [delivery EXCEPT ![d] = row]
    /\ history' = [history EXCEPT ![d] = Append(@, "started")]
    /\ work' = [work EXCEPT ![w] =
            [@ EXCEPT !.phase = "sending", !.number = n, !.row = row,
                      !.endpoint = endpoint[EndpointOf[d]]]]
    /\ UNCHANGED endpoint

\* The constraint refuses the row; the exception ends the worker process,
\* which starts again.
AbortAttempt(w) ==
    /\ work[w].phase = "loaded"
    /\ ~NumberIsFree(work[w].delivery, work[w].seen + 1)
    /\ work' = [work EXCEPT ![w] = NoWork]
    /\ UNCHANGED <<endpoint, delivery, history>>

(***************************************************************************)
(* deliver_claimed after the request: outcome "delivered" is a 2xx answer, *)
(* "failed" any other answer, an exception, or an endpoint that was not    *)
(* active when the attempt began.  Only columns that differ from the copy  *)
(* are written, over whatever the rows hold by now.                        *)
(***************************************************************************)
CountsFailure(w, outcome) == outcome = "failed" /\ work[w].endpoint.status = "active"

PausesEarly(w, outcome) ==          \* mutant: pauses one failure too early
    CountsFailure(w, outcome) /\ work[w].endpoint.failures + 2 >= PauseAfter
Pauses(w, outcome) ==
    CountsFailure(w, outcome) /\ work[w].endpoint.failures + 1 >= PauseAfter

\* The state the worker decides on.
VerdictEarly(w, outcome) ==         \* mutant: the last attempt is never made
    IF outcome = "delivered" THEN "delivered"
    ELSE IF Pauses(w, outcome) THEN "dead_letter"
    ELSE IF work[w].row.status \in {"delivered", "dead_letter"} THEN work[w].row.status
    ELSE IF work[w].row.attempts + 1 >= MaxAttempts THEN "dead_letter"
    ELSE "retry_scheduled"

Verdict(w, outcome) ==
    IF outcome = "delivered" THEN "delivered"
    ELSE IF Pauses(w, outcome) THEN "dead_letter"
    ELSE IF work[w].row.status \in {"delivered", "dead_letter"} THEN work[w].row.status
    ELSE IF work[w].row.attempts >= MaxAttempts THEN "dead_letter"
    ELSE "retry_scheduled"

FailuresAfterOneBack(w, outcome) == \* mutant: a success takes one failure back
    IF outcome = "delivered" THEN work[w].endpoint.failures - 1
    ELSE work[w].endpoint.failures + (IF CountsFailure(w, outcome) THEN 1 ELSE 0)
FailuresAfter(w, outcome) ==
    IF outcome = "delivered" THEN 0
    ELSE work[w].endpoint.failures + (IF CountsFailure(w, outcome) THEN 1 ELSE 0)

\* What a column holds after the commit: v if it differs from the copy.
Written(v, copy, now) == IF v = copy THEN now ELSE v

FinishAttempt(w, outcome) ==
    LET d == work[w].delivery
        e == EndpointOf[d]
        copy == work[w].row
        was == work[w].endpoint
        status == IF Pauses(w, outcome) THEN "paused" ELSE was.status
        reason == CASE outcome = "delivered" -> FALSE
                    [] Pauses(w, outcome) -> TRUE
                    [] OTHER -> was.auto_paused
    IN
    /\ work[w].phase = "sending"
    /\ outcome = "delivered" => was.status = "active"
    /\ delivery' = [delivery EXCEPT ![d] =
            [status |-> Written(Verdict(w, outcome), copy.status, @.status),
             attempts |-> @.attempts,
             owner |-> Written(None, copy.owner, @.owner),
             lease_live |-> IF copy.owner = None THEN @.lease_live ELSE FALSE]]
    /\ history' = [history EXCEPT ![d][work[w].number] = outcome]
    /\ endpoint' = [endpoint EXCEPT ![e] =
            [status |-> Written(status, was.status, @.status),
             failures |-> Written(FailuresAfter(w, outcome), was.failures, @.failures),
             auto_paused |-> Written(reason, was.auto_paused, @.auto_paused)]]
    /\ work' = [work EXCEPT ![w] = NoWork]

(***************************************************************************)
(* A lease runs out while its worker is slow (each read of the response    *)
(* has a timeout, the whole of it has none), and a worker may die.         *)
(***************************************************************************)
ExpireLease(d) ==
    /\ delivery[d].lease_live
    /\ delivery[d].attempts < Mishaps[d]
    /\ delivery' = [delivery EXCEPT ![d].lease_live = FALSE]
    /\ UNCHANGED <<endpoint, history, work>>

CrashWorker(w) ==
    /\ w \notin Reliable
    /\ work[w].phase # "idle"
    /\ delivery[work[w].delivery].attempts < Mishaps[work[w].delivery]
    /\ work' = [work EXCEPT ![w] = NoWork]
    /\ UNCHANGED <<endpoint, delivery, history>>

Outcomes == {"delivered", "failed"}

Merchant ==
    \/ \E d \in Deliveries : Enqueue(d)
    \/ \E old, d \in Deliveries : Replay(old, d)
    \/ \E e \in Endpoints, status \in {"active", "disabled"} : UpdateEndpoint(e, status)
    \/ \E e \in Endpoints : ArchiveEndpoint(e)

\* deliver_claimed runs to its end unless the worker dies.
Deliver(w) ==
    \/ Load(w)
    \/ LoadTooLate(w)
    \/ BeginAttempt(w)
    \/ AbortAttempt(w)
    \/ \E outcome \in Outcomes : FinishAttempt(w, outcome)

Next ==
    \/ Merchant
    \/ \E w \in Workers, d \in Deliveries : Claim(w, d)
    \/ \E w \in Workers : Deliver(w) \/ CrashWorker(w)
    \/ \E d \in Deliveries : ExpireLease(d)

Spec == Init /\ [][Next]_vars

(***************************************************************************)
(* Fairness.  A request has timeouts, so a worker that lives finishes it;  *)
(* leases run out by the clock.  A reliable worker polls for ever and takes*)
(* the oldest rows first (strong fairness: other workers may have the row, *)
(* or the merchant may pause the endpoint, in between).  It begins a       *)
(* delivery right after its claim, long before the lease of 60 seconds     *)
(* ends, so it does not lose every lease it takes.                         *)
(***************************************************************************)
FairSpec ==
    /\ Spec
    /\ \A w \in Workers : WF_vars(Deliver(w))
    /\ \A d \in Deliveries : WF_vars(ExpireLease(d))
    /\ \A w \in Reliable :
        /\ \A d \in Deliveries : SF_vars(Claim(w, d))
        /\ SF_vars(Load(w))
        /\ SF_vars(BeginAttempt(w))

(***************************************************************************)
(* Properties.                                                             *)
(***************************************************************************)
\* The attempt history is complete: a delivery counts exactly the attempts
\* that have a row, no two workers send under one number, and a worker that
\* sends has its row, although rows are read without a lock and leases overrun.
AttemptHistory ==
    /\ \A d \in Deliveries : delivery[d].attempts = Len(history[d])
    /\ \A w \in Workers : work[w].phase = "sending" =>
          /\ work[w].number \in DOMAIN history[work[w].delivery]
          /\ history[work[w].delivery][work[w].number] = "started"
          /\ \A v \in Workers \ {w} :
                ~(/\ work[v].phase = "sending"
                  /\ work[v].delivery = work[w].delivery
                  /\ work[v].number = work[w].number)

DeliveriesOf(e) == {d \in Deliveries : EndpointOf[d] = e}
FailedAttempts(e) ==
    UNION {{<<d, n>> : n \in {i \in DOMAIN history[d] : history[d][i] = "failed"}} :
              d \in DeliveriesOf(e)}

\* An endpoint is paused automatically only after as many failed attempts as
\* the setting says, whoever else wrote the counter meanwhile.
PauseIsEarned ==
    \A e \in Endpoints : endpoint[e].auto_paused =>
        Cardinality(FailedAttempts(e)) >= PauseAfter

\* A delivery is called delivered only if an attempt of it was answered, and
\* given up only after all its attempts or for an endpoint that failed too often.
VerdictIsEarned ==
    \A d \in Deliveries :
        /\ delivery[d].status = "delivered" =>
              \E n \in DOMAIN history[d] : history[d][n] = "delivered"
        /\ delivery[d].status = "dead_letter" =>
              \/ Len(history[d]) >= MaxAttempts
              \/ Cardinality(FailedAttempts(EndpointOf[d])) >= PauseAfter

Settled(d) == delivery[d].status \in {"delivered", "dead_letter"}

\* A queued event is delivered or given up, unless its endpoint stops being
\* active: no lease, crash or lost race strands it.
DeliverySettles ==
    \A d \in Deliveries :
        delivery[d].status = "queued" ~>
            Settled(d) \/ endpoint[EndpointOf[d]].status # "active"

=============================================================================
