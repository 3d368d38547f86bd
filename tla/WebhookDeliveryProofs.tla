----------------------- MODULE WebhookDeliveryProofs -----------------------
(***************************************************************************)
(* Theorems about WebhookDelivery, for any number of endpoints, deliveries *)
(* and workers and for all limits.  Rows are read without locks and leases *)
(* overrun, so the argument follows the attempt rows, which are only ever  *)
(* added and then given their outcome once: the unique number keeps two    *)
(* workers apart, and every counter a worker copied is covered by attempts *)
(* that have failed by then.                                               *)
(***************************************************************************)
EXTENDS WebhookDelivery, SequenceTheorems, FiniteSetTheorems, TLAPS

\* What a worker knows: a reading of the attempts is never ahead of the row,
\* and the copies of a worker that sends are of rows that were so once.
WorkInv ==
    \A w \in Workers :
        /\ work[w].phase # "idle" => work[w].delivery \in Deliveries
        /\ work[w].phase = "loaded" => work[w].seen <= Len(history[work[w].delivery])
        /\ work[w].phase = "sending" =>
              /\ work[w].row.attempts = work[w].number
              /\ work[w].endpoint.failures
                    <= Cardinality(FailedAttempts(EndpointOf[work[w].delivery]))

\* No endpoint counts more failures than attempts failed, however many workers
\* write the counter from copies.
CountInv ==
    \A e \in Endpoints :
        /\ IsFiniteSet(FailedAttempts(e))
        /\ endpoint[e].failures <= Cardinality(FailedAttempts(e))

IInv ==
    /\ TypeOK
    /\ WorkInv
    /\ AttemptHistory
    /\ CountInv
    /\ PauseIsEarned
    /\ VerdictIsEarned

(***************************************************************************)
(* The rows that the actions write.                                        *)
(***************************************************************************)
LEMMA Rows ==
    /\ NewEndpoint \in EndpointRows /\ NewEndpoint.failures = 0
    /\ NewEndpoint.auto_paused = FALSE
    /\ NewDelivery \in DeliveryRows /\ NewDelivery.status = "absent" /\ NewDelivery.attempts = 0
    /\ NoWork \in WorkRows /\ NoWork.phase = "idle"
BY DEF NewEndpoint, EndpointRows, EndpointStates, NewDelivery, DeliveryRows, DeliveryStates, NoWork,
   WorkRows

(***************************************************************************)
(* Three kinds of steps: those that leave the attempt rows alone, the      *)
(* begin of an attempt, and its end.                                       *)
(***************************************************************************)
EndpointQuiet(e) ==
    /\ endpoint'[e] \in EndpointRows
    /\ endpoint'[e].failures \in {0, endpoint[e].failures}
    /\ endpoint'[e].auto_paused => endpoint[e].auto_paused

DeliveryQuiet(d) ==
    /\ delivery'[d] \in DeliveryRows
    /\ delivery'[d].attempts = delivery[d].attempts
    /\ delivery'[d].status \in {delivery[d].status, "queued", "delivering"}

WorkQuiet(w) ==
    /\ work'[w] \in WorkRows
    /\ \/ work'[w] = work[w]
       \/ work'[w].phase = "idle"
       \/ work'[w].phase = "claimed" /\ work'[w].delivery \in Deliveries
       \/ /\ work'[w].phase = "loaded" /\ work'[w].delivery \in Deliveries
          /\ work'[w].seen = delivery[work'[w].delivery].attempts

Quiet ==
    /\ history' = history
    /\ endpoint' = [e \in Endpoints |-> endpoint'[e]]
    /\ delivery' = [d \in Deliveries |-> delivery'[d]]
    /\ work' = [w \in Workers |-> work'[w]]
    /\ \A e \in Endpoints : EndpointQuiet(e)
    /\ \A d \in Deliveries : DeliveryQuiet(d)
    /\ \A w \in Workers : WorkQuiet(w)

LEMMA SameIsQuiet ==
    ASSUME TypeOK
    PROVE  /\ endpoint' = endpoint => \A e \in Endpoints : EndpointQuiet(e)
           /\ delivery' = delivery => \A d \in Deliveries : DeliveryQuiet(d)
           /\ work' = work => \A w \in Workers : WorkQuiet(w)
BY DEF TypeOK, EndpointQuiet, DeliveryQuiet, WorkQuiet

\* Setting columns of one row.
LEMMA StatusRow ==
    ASSUME NEW row \in DeliveryRows, NEW s \in DeliveryStates, NEW new,
           new = [row EXCEPT !.status = s]
    PROVE  new \in DeliveryRows /\ new.status = s /\ new.attempts = row.attempts
BY DEF DeliveryRows

LEMMA LeaseRow ==
    ASSUME NEW row \in DeliveryRows, NEW new, new = [row EXCEPT !.lease_live = FALSE]
    PROVE  new \in DeliveryRows /\ new.status = row.status /\ new.attempts = row.attempts
BY DEF DeliveryRows

LEMMA EndpointRow ==
    ASSUME NEW row \in EndpointRows, NEW s \in EndpointStates, NEW new,
           new = [row EXCEPT !.status = s]
    PROVE  new \in EndpointRows /\ new.failures = row.failures /\ new.auto_paused = row.auto_paused
BY DEF EndpointRows

LEMMA AddIsQuiet ==
    ASSUME TypeOK, NEW d \in Deliveries, Add(d)
    PROVE  Quiet
<1>1. PICK new : new = [delivery[d] EXCEPT !.status = "queued"]
  OBVIOUS
<1>2. new \in DeliveryRows /\ new.status = "queued" /\ new.attempts = delivery[d].attempts
  BY <1>1, StatusRow DEF TypeOK, DeliveryStates
<1>3. delivery' = [delivery EXCEPT ![d] = new]
  BY <1>1 DEF Add, TypeOK
<1>4. UNCHANGED <<endpoint, history, work>>
  BY DEF Add
<1> QED
  BY <1>2, <1>3, <1>4, SameIsQuiet DEF TypeOK, Quiet, DeliveryQuiet

LEMMA EndpointIsQuiet ==
    ASSUME TypeOK, NEW e \in Endpoints, NEW s \in EndpointStates,
           UNCHANGED <<delivery, history, work>>,
           \/ endpoint' = [endpoint EXCEPT ![e] = NewEndpoint]
           \/ endpoint' = [endpoint EXCEPT ![e].status = s]
    PROVE  Quiet
<1>1. PICK new : new = [endpoint[e] EXCEPT !.status = s]
  OBVIOUS
<1>2. /\ new \in EndpointRows /\ new.failures = endpoint[e].failures
      /\ new.auto_paused = endpoint[e].auto_paused
  BY <1>1, EndpointRow DEF TypeOK
<1>3. \/ endpoint' = [endpoint EXCEPT ![e] = NewEndpoint]
      \/ endpoint' = [endpoint EXCEPT ![e] = new]
  BY <1>1 DEF TypeOK
<1> QED
  BY <1>2, <1>3, Rows, SameIsQuiet DEF TypeOK, Quiet, EndpointQuiet

LEMMA ClaimIsQuiet ==
    ASSUME TypeOK, NEW w \in Workers, NEW d \in Deliveries, Claim(w, d)
    PROVE  Quiet
<1>1. PICK new : new = [delivery[d] EXCEPT !.status = "delivering", !.owner = w, !.lease_live = TRUE]
  OBVIOUS
<1>2. new \in DeliveryRows /\ new.status = "delivering" /\ new.attempts = delivery[d].attempts
  BY <1>1 DEF TypeOK, DeliveryRows, DeliveryStates
<1>3. PICK claim : claim = [NoWork EXCEPT !.phase = "claimed", !.delivery = d]
  OBVIOUS
<1>4. claim \in WorkRows /\ claim.phase = "claimed" /\ claim.delivery = d
  BY <1>3, Rows DEF WorkRows
<1>5. /\ delivery' = [delivery EXCEPT ![d] = new]
      /\ work' = [work EXCEPT ![w] = claim]
      /\ UNCHANGED <<endpoint, history>>
  BY <1>1, <1>3 DEF Claim
<1> QED
  BY <1>2, <1>4, <1>5, SameIsQuiet DEF TypeOK, Quiet, DeliveryQuiet, WorkQuiet

LEMMA LoadIsQuiet ==
    ASSUME TypeOK, WorkInv, NEW w \in Workers, Load(w)
    PROVE  Quiet
<1>1. PICK d \in Deliveries : d = work[w].delivery
  BY DEF Load, StillClaimed, WorkInv
<1>2. PICK n \in Nat : n = delivery[d].attempts
  BY DEF TypeOK, DeliveryRows
<1>3. PICK load : load = [work[w] EXCEPT !.phase = "loaded", !.seen = n]
  OBVIOUS
<1>4. load \in WorkRows /\ load.phase = "loaded" /\ load.delivery = d /\ load.seen = n
  BY <1>1, <1>3 DEF TypeOK, WorkRows
<1>5. work' = [work EXCEPT ![w] = load] /\ UNCHANGED <<endpoint, delivery, history>>
  BY <1>1, <1>2, <1>3 DEF Load, TypeOK
<1> QED
  BY <1>1, <1>2, <1>4, <1>5, SameIsQuiet DEF TypeOK, Quiet, WorkQuiet

LEMMA StopIsQuiet ==
    ASSUME TypeOK, NEW w \in Workers, work' = [work EXCEPT ![w] = NoWork],
           UNCHANGED <<endpoint, delivery, history>>
    PROVE  Quiet
BY Rows, SameIsQuiet DEF TypeOK, Quiet, WorkQuiet

LEMMA ExpireIsQuiet ==
    ASSUME TypeOK, NEW d \in Deliveries, ExpireLease(d)
    PROVE  Quiet
<1>1. PICK new : new = [delivery[d] EXCEPT !.lease_live = FALSE]
  OBVIOUS
<1>2. new \in DeliveryRows /\ new.status = delivery[d].status /\ new.attempts = delivery[d].attempts
  BY <1>1, LeaseRow DEF TypeOK
<1>3. delivery' = [delivery EXCEPT ![d] = new] /\ UNCHANGED <<endpoint, history, work>>
  BY <1>1 DEF ExpireLease, TypeOK
<1> QED
  BY <1>2, <1>3, SameIsQuiet DEF TypeOK, Quiet, DeliveryQuiet

LEMMA Kinds ==
    ASSUME TypeOK, WorkInv, [Next]_vars
    PROVE  \/ Quiet
           \/ \E w \in Workers : BeginAttempt(w)
           \/ \E w \in Workers, outcome \in Outcomes : FinishAttempt(w, outcome)
<1>1. CASE Merchant
  <2>1. ASSUME NEW e \in Endpoints, NEW s \in {"active", "disabled"}, UpdateEndpoint(e, s)
        PROVE  Quiet
    BY <2>1, EndpointIsQuiet DEF UpdateEndpoint, EndpointStates
  <2>2. ASSUME NEW e \in Endpoints, ArchiveEndpoint(e) PROVE Quiet
    BY <2>2, EndpointIsQuiet DEF ArchiveEndpoint, EndpointStates
  <2> QED
    BY <1>1, <2>1, <2>2, AddIsQuiet DEF Merchant, Enqueue, Replay
<1>2. ASSUME NEW w \in Workers, Deliver(w)
      PROVE  Quiet \/ BeginAttempt(w) \/ \E outcome \in Outcomes : FinishAttempt(w, outcome)
  BY <1>2, LoadIsQuiet, StopIsQuiet DEF Deliver, LoadTooLate, AbortAttempt
<1>3. ASSUME NEW w \in Workers, CrashWorker(w) PROVE Quiet
  BY <1>3, StopIsQuiet DEF CrashWorker
<1>4. CASE UNCHANGED vars
  BY <1>4, SameIsQuiet DEF vars, Quiet, TypeOK
<1> QED
  BY <1>1, <1>2, <1>3, <1>4, ClaimIsQuiet, ExpireIsQuiet DEF Next

(***************************************************************************)
(* A quiet step keeps the invariant.                                       *)
(***************************************************************************)
LEMMA QuietKeeps ==
    ASSUME IInv, Quiet
    PROVE  IInv'
<1>1. /\ history' = history
      /\ \A e \in Endpoints : EndpointQuiet(e)
      /\ \A d \in Deliveries : DeliveryQuiet(d)
      /\ \A w \in Workers : WorkQuiet(w)
  BY DEF Quiet
<1>2. TypeOK'
  BY DEF IInv, TypeOK, Quiet, EndpointQuiet, DeliveryQuiet, WorkQuiet
<1>3. \A e : FailedAttempts(e)' = FailedAttempts(e)
  BY <1>1 DEF FailedAttempts
<1>4. WorkInv'
  <2> SUFFICES ASSUME NEW w \in Workers
               PROVE  /\ work'[w].phase # "idle" => work'[w].delivery \in Deliveries
                      /\ work'[w].phase = "loaded" => work'[w].seen <= Len(history[work'[w].delivery])
                      /\ work'[w].phase = "sending" =>
                            /\ work'[w].row.attempts = work'[w].number
                            /\ work'[w].endpoint.failures
                                  <= Cardinality(FailedAttempts(EndpointOf[work'[w].delivery]))
    BY <1>1, <1>3 DEF WorkInv
  <2>1. CASE work'[w] = work[w]
    BY <2>1 DEF IInv, WorkInv
  <2>2. CASE work'[w].phase = "idle"
    BY <2>2
  <2>3. CASE work'[w].phase = "claimed" /\ work'[w].delivery \in Deliveries
    BY <2>3
  <2>4. CASE /\ work'[w].phase = "loaded" /\ work'[w].delivery \in Deliveries
             /\ work'[w].seen = delivery[work'[w].delivery].attempts
    <3>1. delivery[work'[w].delivery].attempts = Len(history[work'[w].delivery])
      BY <2>4 DEF IInv, AttemptHistory
    <3>2. Len(history[work'[w].delivery]) \in Nat
      BY <2>4, LenProperties DEF IInv, TypeOK
    <3> QED
      BY <2>4, <3>1, <3>2
  <2> QED
    BY <1>1, <2>1, <2>2, <2>3, <2>4 DEF WorkQuiet
<1>5. AttemptHistory'
  <2>1. \A w \in Workers : work'[w].phase = "sending" => work'[w] = work[w]
    BY <1>1 DEF WorkQuiet
  <2>2. \A d \in Deliveries : delivery'[d].attempts = delivery[d].attempts
    BY <1>1 DEF DeliveryQuiet
  <2> QED
    BY <1>1, <2>1, <2>2 DEF IInv, AttemptHistory
<1>6. CountInv' /\ PauseIsEarned'
  <2> SUFFICES ASSUME NEW e \in Endpoints
               PROVE  /\ IsFiniteSet(FailedAttempts(e))
                      /\ endpoint'[e].failures <= Cardinality(FailedAttempts(e))
                      /\ endpoint'[e].auto_paused => Cardinality(FailedAttempts(e)) >= PauseAfter
    BY <1>3 DEF CountInv, PauseIsEarned
  <2>1. /\ IsFiniteSet(FailedAttempts(e))
        /\ endpoint[e].failures <= Cardinality(FailedAttempts(e))
        /\ endpoint[e].auto_paused => Cardinality(FailedAttempts(e)) >= PauseAfter
    BY DEF IInv, CountInv, PauseIsEarned
  <2>2. Cardinality(FailedAttempts(e)) \in Nat
    BY <2>1, FS_CardinalityType
  <2> QED
    BY <1>1, <2>1, <2>2 DEF EndpointQuiet
<1>7. VerdictIsEarned'
  <2>1. \A d \in Deliveries : delivery'[d].status \in {"delivered", "dead_letter"} =>
            delivery'[d].status = delivery[d].status
    BY <1>1 DEF DeliveryQuiet
  <2> QED
    BY <1>1, <1>3, <2>1 DEF IInv, VerdictIsEarned
<1> QED
  BY <1>2, <1>4, <1>5, <1>6, <1>7 DEF IInv

(***************************************************************************)
(* The begin of an attempt: it gets the next number, because the reading   *)
(* of the counter was not ahead and the number is free.                    *)
(***************************************************************************)
FailedOf(h, d) == {i \in DOMAIN h[d] : h[d][i] = "failed"}

LEMMA FailedByDelivery ==
    ASSUME \A d \in Deliveries : FailedOf(history', d) = FailedOf(history, d)
    PROVE  \A e : FailedAttempts(e)' = FailedAttempts(e)
<1>1. \A e : FailedAttempts(e) = UNION {{<<d, n>> : n \in FailedOf(history, d)} : d \in DeliveriesOf(e)}
  BY DEF FailedAttempts, FailedOf
<1>2. \A e : FailedAttempts(e)' = UNION {{<<d, n>> : n \in FailedOf(history', d)} : d \in DeliveriesOf(e)}
  BY DEF FailedAttempts, FailedOf, DeliveriesOf
<1>3. \A e : \A d \in DeliveriesOf(e) : d \in Deliveries
  BY DEF DeliveriesOf
<1> QED
  BY <1>1, <1>2, <1>3

LEMMA BeginChange ==
    ASSUME IInv, NEW w \in Workers, BeginAttempt(w)
    PROVE  \E d \in Deliveries : \E n \in Nat \ {0} :
              /\ work[w].phase = "loaded" /\ work[w].delivery = d
              /\ n = Len(history[d]) + 1
              /\ endpoint' = endpoint
              /\ history' \in [Deliveries -> Seq(AttemptStates)]
              /\ \A c \in Deliveries \ {d} : history'[c] = history[c]
              /\ Len(history'[d]) = n /\ DOMAIN history'[d] = 1 .. n
              /\ \A i \in DOMAIN history[d] : history'[d][i] = history[d][i]
              /\ history'[d][n] = "started"
              /\ delivery' \in [Deliveries -> DeliveryRows]
              /\ \A c \in Deliveries \ {d} : delivery'[c] = delivery[c]
              /\ delivery'[d].attempts = n /\ delivery'[d].status = delivery[d].status
              /\ work' \in [Workers -> WorkRows]
              /\ \A v \in Workers \ {w} : work'[v] = work[v]
              /\ work'[w].phase = "sending" /\ work'[w].delivery = d /\ work'[w].number = n
              /\ work'[w].row.attempts = n
              /\ work'[w].endpoint = endpoint[EndpointOf[d]]
<1>1. PICK d \in Deliveries : d = work[w].delivery
  BY DEF BeginAttempt, IInv, WorkInv
<1>2. PICK n : n = work[w].seen + 1
  OBVIOUS
<1>3. PICK h : h = history[d]
  OBVIOUS
<1>4. h \in Seq(AttemptStates) /\ "started" \in AttemptStates
  BY <1>3 DEF IInv, TypeOK, AttemptStates
<1>5. Len(h) \in Nat /\ DOMAIN h = 1 .. Len(h)
  BY <1>4, LenProperties
<1>6. n = Len(h) + 1 /\ n \in Nat \ {0}
  <2>1. work[w].seen \in Nat /\ work[w].phase = "loaded"
    BY DEF IInv, TypeOK, WorkRows, BeginAttempt
  <2>2. work[w].seen <= Len(h) /\ n > Len(h)
    BY <1>1, <1>2, <1>3, <2>1 DEF IInv, WorkInv, BeginAttempt, NumberIsFree
  <2> QED
    BY <1>2, <1>5, <2>1, <2>2
<1>7. PICK g : g = Append(h, "started")
  OBVIOUS
<1>8. g \in Seq(AttemptStates) /\ Len(g) = n /\ DOMAIN g = 1 .. n
      /\ (\A i \in DOMAIN h : g[i] = h[i]) /\ g[n] = "started"
  BY <1>4, <1>5, <1>6, <1>7, AppendProperties, LenProperties
<1>9. PICK row : row = [delivery[d] EXCEPT !.attempts = n]
  OBVIOUS
<1>10. row \in DeliveryRows /\ row.attempts = n /\ row.status = delivery[d].status
  BY <1>6, <1>9 DEF IInv, TypeOK, DeliveryRows
<1>11. PICK end : end = endpoint[EndpointOf[d]]
  OBVIOUS
<1>12. end \in EndpointRows
  BY <1>11, EndpointOfAssumption DEF IInv, TypeOK
<1>13. PICK job : job = [work[w] EXCEPT !.phase = "sending", !.number = n, !.row = row, !.endpoint = end]
  OBVIOUS
<1>14. /\ job \in WorkRows /\ job.phase = "sending" /\ job.delivery = d /\ job.number = n
       /\ job.row = row /\ job.endpoint = end
  BY <1>1, <1>6, <1>10, <1>12, <1>13 DEF IInv, TypeOK, WorkRows
<1>15. /\ work[w].phase = "loaded"
       /\ delivery' = [delivery EXCEPT ![d] = row]
       /\ history' = [history EXCEPT ![d] = g]
       /\ work' = [work EXCEPT ![w] = job]
       /\ endpoint' = endpoint
  BY <1>1, <1>2, <1>3, <1>7, <1>9, <1>11, <1>13 DEF BeginAttempt, IInv, TypeOK
<1>16. /\ history' \in [Deliveries -> Seq(AttemptStates)]
       /\ (\A c \in Deliveries \ {d} : history'[c] = history[c]) /\ history'[d] = g
  BY <1>8, <1>15 DEF IInv, TypeOK
<1>17. /\ delivery' \in [Deliveries -> DeliveryRows]
       /\ (\A c \in Deliveries \ {d} : delivery'[c] = delivery[c]) /\ delivery'[d] = row
  BY <1>10, <1>15 DEF IInv, TypeOK
<1>18. /\ work' \in [Workers -> WorkRows]
       /\ (\A v \in Workers \ {w} : work'[v] = work[v]) /\ work'[w] = job
  BY <1>14, <1>15 DEF IInv, TypeOK
<1> QED
  BY <1>1, <1>3, <1>6, <1>8, <1>10, <1>11, <1>14, <1>15, <1>16, <1>17, <1>18, ZenonT(40)

LEMMA BeginKeeps ==
    ASSUME IInv, NEW w \in Workers, BeginAttempt(w)
    PROVE  IInv'
<1>1. PICK d \in Deliveries, n \in Nat \ {0} :
              /\ work[w].phase = "loaded" /\ work[w].delivery = d
              /\ n = Len(history[d]) + 1
              /\ endpoint' = endpoint
              /\ history' \in [Deliveries -> Seq(AttemptStates)]
              /\ \A c \in Deliveries \ {d} : history'[c] = history[c]
              /\ Len(history'[d]) = n /\ DOMAIN history'[d] = 1 .. n
              /\ \A i \in DOMAIN history[d] : history'[d][i] = history[d][i]
              /\ history'[d][n] = "started"
              /\ delivery' \in [Deliveries -> DeliveryRows]
              /\ \A c \in Deliveries \ {d} : delivery'[c] = delivery[c]
              /\ delivery'[d].attempts = n /\ delivery'[d].status = delivery[d].status
              /\ work' \in [Workers -> WorkRows]
              /\ \A v \in Workers \ {w} : work'[v] = work[v]
              /\ work'[w].phase = "sending" /\ work'[w].delivery = d /\ work'[w].number = n
              /\ work'[w].row.attempts = n
              /\ work'[w].endpoint = endpoint[EndpointOf[d]]
  BY BeginChange
<1>2. TypeOK'
  BY <1>1 DEF IInv, TypeOK
<1>3. \A c \in Deliveries : /\ Len(history[c]) \in Nat /\ DOMAIN history[c] = 1 .. Len(history[c])
                            /\ Len(history[c]) <= Len(history'[c])
                            /\ \A i \in DOMAIN history[c] :
                                  i \in DOMAIN history'[c] /\ history'[c][i] = history[c][i]
  <2>1. \A c \in Deliveries : Len(history[c]) \in Nat /\ DOMAIN history[c] = 1 .. Len(history[c])
    BY LenProperties DEF IInv, TypeOK
  <2>2. /\ Len(history[d]) <= Len(history'[d])
        /\ \A i \in DOMAIN history[d] : i \in DOMAIN history'[d] /\ history'[d][i] = history[d][i]
    BY <1>1, <2>1
  <2> SUFFICES ASSUME NEW c \in Deliveries
               PROVE  /\ Len(history[c]) \in Nat /\ DOMAIN history[c] = 1 .. Len(history[c])
                      /\ Len(history[c]) <= Len(history'[c])
                      /\ \A i \in DOMAIN history[c] :
                            i \in DOMAIN history'[c] /\ history'[c][i] = history[c][i]
    OBVIOUS
  <2>3. CASE c = d
    BY <2>1, <2>2, <2>3
  <2>4. CASE c # d
    <3>1. history'[c] = history[c]
      BY <1>1, <2>4
    <3> QED
      BY <2>1, <3>1
  <2> QED
    BY <2>3, <2>4
<1>4. \A e : FailedAttempts(e)' = FailedAttempts(e)
  <2>1. FailedOf(history', d) = FailedOf(history, d)
    <3>1. \A i \in DOMAIN history'[d] : i \in DOMAIN history[d] \/ i = n
      BY <1>1, <1>3
    <3> QED
      BY <1>1, <1>3, <3>1 DEF FailedOf
  <2>2. \A c \in Deliveries : FailedOf(history', c) = FailedOf(history, c)
    <3>1. \A c \in Deliveries \ {d} : history'[c] = history[c]
      BY <1>1
    <3> QED
      BY <2>1, <3>1 DEF FailedOf
  <2> QED
    BY <2>2, FailedByDelivery
<1>5. WorkInv'
  <2>1. EndpointOf[d] \in Endpoints
    BY EndpointOfAssumption
  <2>2. endpoint[EndpointOf[d]].failures <= Cardinality(FailedAttempts(EndpointOf[d]))
    BY <2>1 DEF IInv, CountInv
  <2> SUFFICES ASSUME NEW v \in Workers
               PROVE  /\ work'[v].phase # "idle" => work'[v].delivery \in Deliveries
                      /\ work'[v].phase = "loaded" => work'[v].seen <= Len(history'[work'[v].delivery])
                      /\ work'[v].phase = "sending" =>
                            /\ work'[v].row.attempts = work'[v].number
                            /\ work'[v].endpoint.failures
                                  <= Cardinality(FailedAttempts(EndpointOf[work'[v].delivery]))
    BY <1>4 DEF WorkInv
  <2>3. CASE v = w
    BY <1>1, <2>2, <2>3
  <2>4. CASE v # w
    <3>1. work'[v] = work[v] /\ work[v].seen \in Nat
      BY <1>1, <2>4 DEF IInv, TypeOK, WorkRows
    <3> QED
      BY <1>3, <3>1 DEF IInv, WorkInv
  <2> QED
    BY <2>3, <2>4
<1>6. AttemptHistory'
  <2>1. ASSUME NEW c \in Deliveries PROVE delivery'[c].attempts = Len(history'[c])
    <3>1. CASE c = d
      BY <1>1, <3>1
    <3>2. CASE c # d
      <4>1. delivery'[c] = delivery[c] /\ history'[c] = history[c]
        BY <1>1, <3>2
      <4> QED
        BY <4>1 DEF IInv, AttemptHistory
    <3> QED
      BY <3>1, <3>2
  <2>2. ASSUME NEW v \in Workers \ {w}, work[v].phase = "sending"
        PROVE  /\ work[v].delivery \in Deliveries
               /\ work[v].number \in DOMAIN history[work[v].delivery]
               /\ history[work[v].delivery][work[v].number] = "started"
               /\ work[v].delivery = d => work[v].number # n
    <3>1. work[v].delivery \in Deliveries
      BY <2>2 DEF IInv, WorkInv
    <3>2. /\ work[v].number \in DOMAIN history[work[v].delivery]
          /\ history[work[v].delivery][work[v].number] = "started"
      BY <2>2 DEF IInv, AttemptHistory
    <3> QED
      BY <1>1, <1>3, <3>1, <3>2
  <2>3. ASSUME NEW v \in Workers, work'[v].phase = "sending"
        PROVE  /\ work'[v].number \in DOMAIN history'[work'[v].delivery]
               /\ history'[work'[v].delivery][work'[v].number] = "started"
    <3>1. CASE v = w
      <4>1. work'[v].delivery = d /\ work'[v].number = n /\ n \in 1 .. n
        BY <1>1, <3>1
      <4> QED
        BY <1>1, <4>1
    <3>2. CASE v # w
      <4>1. work'[v] = work[v]
        BY <1>1, <3>2
      <4>2. /\ work[v].delivery \in Deliveries
            /\ work[v].number \in DOMAIN history[work[v].delivery]
            /\ history[work[v].delivery][work[v].number] = "started"
        BY <2>2, <2>3, <3>2, <4>1
      <4> QED
        BY <1>3, <4>1, <4>2
    <3> QED
      BY <3>1, <3>2
  <2>4. ASSUME NEW v \in Workers, NEW u \in Workers \ {v}, work'[v].phase = "sending",
               work'[u].phase = "sending", work'[u].delivery = work'[v].delivery,
               work'[u].number = work'[v].number
        PROVE  FALSE
    <3>1. CASE v = w
      BY <1>1, <2>2, <2>4, <3>1
    <3>2. CASE u = w
      BY <1>1, <2>2, <2>4, <3>2
    <3>3. CASE v # w /\ u # w
      BY <1>1, <2>4, <3>3 DEF IInv, AttemptHistory
    <3> QED
      BY <3>1, <3>2, <3>3
  <2> QED
    BY <2>1, <2>3, <2>4 DEF AttemptHistory
<1>7. CountInv' /\ PauseIsEarned'
  BY <1>1, <1>4 DEF IInv, CountInv, PauseIsEarned
<1>8. VerdictIsEarned'
  <2>1. \A c \in Deliveries : delivery'[c].status = delivery[c].status
    BY <1>1
  <2>2. \A c \in Deliveries : Len(history[c]) >= MaxAttempts => Len(history'[c]) >= MaxAttempts
    <3>1. MaxAttempts \in Nat
      BY LimitsAssumption
    <3> QED
      BY <1>1, <1>3, <3>1
  <2> QED
    BY <1>3, <1>4, <2>1, <2>2 DEF IInv, VerdictIsEarned
<1> QED
  BY <1>2, <1>5, <1>6, <1>7, <1>8 DEF IInv

(***************************************************************************)
(* The end of an attempt: its row goes from started to the outcome, and    *)
(* the counters and verdicts that the worker derives from its copies are   *)
(* covered by the attempts that have failed, this one included.            *)
(***************************************************************************)
LEMMA FinishHistory ==
    ASSUME IInv, NEW w \in Workers, NEW outcome \in Outcomes, FinishAttempt(w, outcome)
    PROVE  \E d \in Deliveries : \E n \in Nat :
              /\ work[w].phase = "sending" /\ work[w].delivery = d /\ work[w].number = n
              /\ n \in DOMAIN history[d] /\ history[d][n] = "started"
              /\ history' \in [Deliveries -> Seq(AttemptStates)]
              /\ \A c \in Deliveries \ {d} : history'[c] = history[c]
              /\ Len(history'[d]) = Len(history[d]) /\ DOMAIN history'[d] = DOMAIN history[d]
              /\ \A i \in DOMAIN history[d] \ {n} : history'[d][i] = history[d][i]
              /\ history'[d][n] = outcome
<1>1. PICK d \in Deliveries : d = work[w].delivery
  BY DEF FinishAttempt, IInv, WorkInv
<1>2. PICK n \in Nat : n = work[w].number
  BY DEF IInv, TypeOK, WorkRows
<1>3. PICK h : h = history[d]
  OBVIOUS
<1>4. h \in Seq(AttemptStates) /\ outcome \in AttemptStates
  BY <1>3 DEF IInv, TypeOK, AttemptStates, Outcomes
<1>5. work[w].phase = "sending" /\ n \in DOMAIN h /\ h[n] = "started"
  BY <1>1, <1>2, <1>3 DEF FinishAttempt, IInv, AttemptHistory
<1>6. DOMAIN h = 1 .. Len(h)
  BY <1>4, LenProperties
<1>7. PICK g : g = [h EXCEPT ![n] = outcome]
  OBVIOUS
<1>8. g \in Seq(AttemptStates) /\ Len(g) = Len(h)
      /\ \A j \in 1 .. Len(h) : g[j] = IF j = n THEN outcome ELSE h[j]
  BY <1>4, <1>5, <1>6, <1>7, ExceptSeq
<1>9. DOMAIN g = DOMAIN h
  BY <1>7
<1>10. g[n] = outcome /\ \A i \in DOMAIN h \ {n} : g[i] = h[i]
  BY <1>5, <1>6, <1>8
<1>11. history' = [history EXCEPT ![d] = g]
  BY <1>1, <1>2, <1>3, <1>7 DEF FinishAttempt, IInv, TypeOK
<1>12. /\ history' \in [Deliveries -> Seq(AttemptStates)]
       /\ (\A c \in Deliveries \ {d} : history'[c] = history[c]) /\ history'[d] = g
  BY <1>8, <1>11 DEF IInv, TypeOK
<1> QED
  BY <1>1, <1>2, <1>3, <1>5, <1>8, <1>9, <1>10, <1>12

LEMMA FinishRows ==
    ASSUME IInv, NEW w \in Workers, NEW outcome \in Outcomes, FinishAttempt(w, outcome),
           NEW d \in Deliveries, d = work[w].delivery, NEW e \in Endpoints, e = EndpointOf[d]
    PROVE  /\ delivery' \in [Deliveries -> DeliveryRows]
           /\ \A c \in Deliveries \ {d} : delivery'[c] = delivery[c]
           /\ delivery'[d].attempts = delivery[d].attempts
           /\ delivery'[d].status = Written(Verdict(w, outcome), work[w].row.status, delivery[d].status)
           /\ endpoint' \in [Endpoints -> EndpointRows]
           /\ \A c \in Endpoints \ {e} : endpoint'[c] = endpoint[c]
           /\ endpoint'[e].failures \in {0, endpoint[e].failures,
                 work[w].endpoint.failures + (IF CountsFailure(w, outcome) THEN 1 ELSE 0)}
           /\ endpoint'[e].failures \in {0, endpoint[e].failures} \/ CountsFailure(w, outcome)
           /\ endpoint'[e].auto_paused => endpoint[e].auto_paused \/ Pauses(w, outcome)
           /\ work' \in [Workers -> WorkRows]
           /\ \A v \in Workers \ {w} : work'[v] = work[v]
           /\ work'[w].phase = "idle"
<1>1. /\ work[w].row \in DeliveryRows /\ work[w].endpoint \in EndpointRows
      /\ delivery[d] \in DeliveryRows /\ endpoint[e] \in EndpointRows
  BY DEF IInv, TypeOK, WorkRows
<1>2. Verdict(w, outcome) \in DeliveryStates
  BY DEF Verdict, DeliveryStates
<1>3. FailuresAfter(w, outcome) \in Nat
  BY <1>1 DEF FailuresAfter, EndpointRows
<1>4. PICK row : row =
            [status |-> Written(Verdict(w, outcome), work[w].row.status, delivery[d].status),
             attempts |-> delivery[d].attempts,
             owner |-> Written(None, work[w].row.owner, delivery[d].owner),
             lease_live |-> IF work[w].row.owner = None THEN delivery[d].lease_live ELSE FALSE]
  OBVIOUS
<1>5. /\ row \in DeliveryRows /\ row.attempts = delivery[d].attempts
      /\ row.status = Written(Verdict(w, outcome), work[w].row.status, delivery[d].status)
  BY <1>1, <1>2, <1>4 DEF DeliveryRows, Written
<1>6. PICK s : s = IF Pauses(w, outcome) THEN "paused" ELSE work[w].endpoint.status
  OBVIOUS
<1>7. PICK r : r = CASE outcome = "delivered" -> FALSE
                    [] Pauses(w, outcome) -> TRUE
                    [] OTHER -> work[w].endpoint.auto_paused
  OBVIOUS
<1>8. s \in EndpointStates /\ r \in BOOLEAN /\ (r => Pauses(w, outcome) \/ work[w].endpoint.auto_paused)
  BY <1>1, <1>6, <1>7 DEF EndpointRows, EndpointStates, Outcomes
<1>9. PICK end : end =
            [status |-> Written(s, work[w].endpoint.status, endpoint[e].status),
             failures |-> Written(FailuresAfter(w, outcome), work[w].endpoint.failures,
                                  endpoint[e].failures),
             auto_paused |-> Written(r, work[w].endpoint.auto_paused, endpoint[e].auto_paused)]
  OBVIOUS
<1>10. end \in EndpointRows
  BY <1>1, <1>3, <1>8, <1>9 DEF EndpointRows, Written
<1>11. /\ end.failures \in {0, endpoint[e].failures,
                work[w].endpoint.failures + (IF CountsFailure(w, outcome) THEN 1 ELSE 0)}
       /\ end.failures \in {0, endpoint[e].failures} \/ CountsFailure(w, outcome)
  BY <1>1, <1>9 DEF Written, FailuresAfter, EndpointRows
<1>12. end.auto_paused => endpoint[e].auto_paused \/ Pauses(w, outcome)
  BY <1>1, <1>8, <1>9 DEF Written, EndpointRows
<1>13. /\ delivery' = [delivery EXCEPT ![d] = row]
       /\ endpoint' = [endpoint EXCEPT ![e] = end]
       /\ work' = [work EXCEPT ![w] = NoWork]
  BY <1>4, <1>6, <1>7, <1>9 DEF FinishAttempt, IInv, TypeOK
<1>14. /\ delivery' \in [Deliveries -> DeliveryRows]
       /\ (\A c \in Deliveries \ {d} : delivery'[c] = delivery[c]) /\ delivery'[d] = row
  BY <1>5, <1>13 DEF IInv, TypeOK
<1>15. /\ endpoint' \in [Endpoints -> EndpointRows]
       /\ (\A c \in Endpoints \ {e} : endpoint'[c] = endpoint[c]) /\ endpoint'[e] = end
  BY <1>10, <1>13 DEF IInv, TypeOK
<1>16. /\ work' \in [Workers -> WorkRows]
       /\ (\A v \in Workers \ {w} : work'[v] = work[v]) /\ work'[w] = NoWork
  BY <1>13, Rows DEF IInv, TypeOK
<1> QED
  BY <1>5, <1>11, <1>12, <1>14, <1>15, <1>16, Rows

\* The failed attempts of an endpoint only grow, and by one when one fails.
LEMMA FinishFailed ==
    ASSUME IInv, NEW d \in Deliveries, NEW n \in Nat, NEW outcome,
           n \in DOMAIN history[d], history[d][n] = "started",
           \A c \in Deliveries \ {d} : history'[c] = history[c],
           DOMAIN history'[d] = DOMAIN history[d],
           \A i \in DOMAIN history[d] \ {n} : history'[d][i] = history[d][i],
           history'[d][n] = outcome
    PROVE  \A e \in Endpoints :
              /\ IsFiniteSet(FailedAttempts(e)) /\ IsFiniteSet(FailedAttempts(e)')
              /\ Cardinality(FailedAttempts(e)) \in Nat /\ Cardinality(FailedAttempts(e)') \in Nat
              /\ Cardinality(FailedAttempts(e)) <= Cardinality(FailedAttempts(e)')
              /\ outcome = "failed" /\ e = EndpointOf[d] =>
                    Cardinality(FailedAttempts(e)') = Cardinality(FailedAttempts(e)) + 1
<1> SUFFICES ASSUME NEW e \in Endpoints
             PROVE  /\ IsFiniteSet(FailedAttempts(e)) /\ IsFiniteSet(FailedAttempts(e)')
                    /\ Cardinality(FailedAttempts(e)) \in Nat
                    /\ Cardinality(FailedAttempts(e)') \in Nat
                    /\ Cardinality(FailedAttempts(e)) <= Cardinality(FailedAttempts(e)')
                    /\ outcome = "failed" /\ e = EndpointOf[d] =>
                          Cardinality(FailedAttempts(e)') = Cardinality(FailedAttempts(e)) + 1
  OBVIOUS
<1>1. IsFiniteSet(FailedAttempts(e)) /\ Cardinality(FailedAttempts(e)) \in Nat
  BY FS_CardinalityType DEF IInv, CountInv
<1>2. \A x : x \in FailedAttempts(e) <=>
        \E c \in DeliveriesOf(e) : \E i \in DOMAIN history[c] : history[c][i] = "failed" /\ x = <<c, i>>
  BY DEF FailedAttempts
<1>3. \A x : x \in FailedAttempts(e)' <=>
        \E c \in DeliveriesOf(e) : \E i \in DOMAIN history'[c] : history'[c][i] = "failed" /\ x = <<c, i>>
  BY DEF FailedAttempts, DeliveriesOf
<1>4. \A c \in DeliveriesOf(e) : c \in Deliveries /\ EndpointOf[c] = e
  BY DEF DeliveriesOf
<1>5. CASE outcome = "failed" /\ e = EndpointOf[d]
  <2>1. d \in DeliveriesOf(e)
    BY <1>5 DEF DeliveriesOf
  <2>2. <<d, n>> \notin FailedAttempts(e)
    BY <1>2
  <2>3. \A x : x \in FailedAttempts(e)' <=> x \in FailedAttempts(e) \cup {<<d, n>>}
    <3>1. ASSUME NEW x, x \in FailedAttempts(e)' PROVE x \in FailedAttempts(e) \cup {<<d, n>>}
      <4>1. PICK c \in DeliveriesOf(e) : \E i \in DOMAIN history'[c] :
                history'[c][i] = "failed" /\ x = <<c, i>>
        BY <1>3, <3>1
      <4>2. PICK i \in DOMAIN history'[c] : history'[c][i] = "failed" /\ x = <<c, i>>
        BY <4>1
      <4>3. CASE c = d /\ i = n
        BY <4>2, <4>3
      <4>4. CASE c # d \/ i # n
        <5>1. i \in DOMAIN history[c] /\ history[c][i] = "failed"
          BY <1>4, <4>2, <4>4
        <5> QED
          BY <1>2, <4>2, <5>1
      <4> QED
        BY <4>3, <4>4
    <3>2. ASSUME NEW x, x \in FailedAttempts(e) PROVE x \in FailedAttempts(e)'
      <4>1. PICK c \in DeliveriesOf(e) : \E i \in DOMAIN history[c] :
                history[c][i] = "failed" /\ x = <<c, i>>
        BY <1>2, <3>2
      <4>2. PICK i \in DOMAIN history[c] : history[c][i] = "failed" /\ x = <<c, i>>
        BY <4>1
      <4>3. i \in DOMAIN history'[c] /\ history'[c][i] = "failed"
        BY <1>4, <4>2
      <4> QED
        BY <1>3, <4>2, <4>3
    <3>3. <<d, n>> \in FailedAttempts(e)'
      BY <1>3, <1>5, <2>1
    <3> QED
      BY <3>1, <3>2, <3>3
  <2>4. FailedAttempts(e)' = FailedAttempts(e) \cup {<<d, n>>}
    BY <2>3
  <2>5. /\ IsFiniteSet(FailedAttempts(e) \cup {<<d, n>>})
        /\ Cardinality(FailedAttempts(e) \cup {<<d, n>>}) = Cardinality(FailedAttempts(e)) + 1
    BY <1>1, <2>2, FS_AddElement
  <2> QED
    BY <1>1, <2>4, <2>5
<1>6. CASE ~(outcome = "failed" /\ e = EndpointOf[d])
  <2>1. \A c \in DeliveriesOf(e) : \A i :
            i \in DOMAIN history'[c] /\ history'[c][i] = "failed" <=>
            i \in DOMAIN history[c] /\ history[c][i] = "failed"
    <3>1. ASSUME NEW c \in DeliveriesOf(e), NEW i
          PROVE  i \in DOMAIN history'[c] /\ history'[c][i] = "failed" <=>
                 i \in DOMAIN history[c] /\ history[c][i] = "failed"
      <4>1. CASE c # d
        <5>1. history'[c] = history[c]
          BY <1>4, <4>1
        <5> QED
          BY <5>1
      <4>2. CASE c = d
        <5>1. outcome # "failed"
          BY <1>4, <1>6, <4>2
        <5> QED
          BY <4>2, <5>1
      <4> QED
        BY <4>1, <4>2
    <3> QED
      BY <3>1
  <2>2. \A x : x \in FailedAttempts(e)' <=> x \in FailedAttempts(e)
    BY <1>2, <1>3, <2>1
  <2>3. FailedAttempts(e)' = FailedAttempts(e)
    BY <2>2
  <2> QED
    BY <1>1, <1>6, <2>3
<1> QED
  BY <1>5, <1>6

LEMMA FinishKeeps ==
    ASSUME IInv, NEW w \in Workers, NEW outcome \in Outcomes, FinishAttempt(w, outcome)
    PROVE  IInv'
<1>1. PICK d \in Deliveries, n \in Nat :
              /\ work[w].phase = "sending" /\ work[w].delivery = d /\ work[w].number = n
              /\ n \in DOMAIN history[d] /\ history[d][n] = "started"
              /\ history' \in [Deliveries -> Seq(AttemptStates)]
              /\ \A c \in Deliveries \ {d} : history'[c] = history[c]
              /\ Len(history'[d]) = Len(history[d]) /\ DOMAIN history'[d] = DOMAIN history[d]
              /\ \A i \in DOMAIN history[d] \ {n} : history'[d][i] = history[d][i]
              /\ history'[d][n] = outcome
  BY FinishHistory, ZenonT(40)
<1>2. PICK e \in Endpoints : e = EndpointOf[d]
  BY EndpointOfAssumption
<1>3. /\ delivery' \in [Deliveries -> DeliveryRows]
      /\ \A c \in Deliveries \ {d} : delivery'[c] = delivery[c]
      /\ delivery'[d].attempts = delivery[d].attempts
      /\ delivery'[d].status = Written(Verdict(w, outcome), work[w].row.status, delivery[d].status)
      /\ endpoint' \in [Endpoints -> EndpointRows]
      /\ \A c \in Endpoints \ {e} : endpoint'[c] = endpoint[c]
      /\ endpoint'[e].failures \in {0, endpoint[e].failures,
            work[w].endpoint.failures + (IF CountsFailure(w, outcome) THEN 1 ELSE 0)}
      /\ endpoint'[e].failures \in {0, endpoint[e].failures} \/ CountsFailure(w, outcome)
      /\ endpoint'[e].auto_paused => endpoint[e].auto_paused \/ Pauses(w, outcome)
      /\ work' \in [Workers -> WorkRows]
      /\ \A v \in Workers \ {w} : work'[v] = work[v]
      /\ work'[w].phase = "idle"
  BY <1>1, <1>2, FinishRows
<1>4. TypeOK'
  BY <1>1, <1>3 DEF TypeOK
<1>5. \A x \in Endpoints :
          /\ IsFiniteSet(FailedAttempts(x)) /\ IsFiniteSet(FailedAttempts(x)')
          /\ Cardinality(FailedAttempts(x)) \in Nat /\ Cardinality(FailedAttempts(x)') \in Nat
          /\ Cardinality(FailedAttempts(x)) <= Cardinality(FailedAttempts(x)')
          /\ outcome = "failed" /\ x = EndpointOf[d] =>
                Cardinality(FailedAttempts(x)') = Cardinality(FailedAttempts(x)) + 1
  BY <1>1, FinishFailed
<1>6. \A c \in Deliveries : Len(history'[c]) = Len(history[c]) /\ DOMAIN history'[c] = DOMAIN history[c]
  BY <1>1
<1>7. /\ work[w].endpoint.failures \in Nat
      /\ work[w].endpoint.failures <= Cardinality(FailedAttempts(e))
      /\ work[w].row.attempts = n
  BY <1>1, <1>2 DEF IInv, TypeOK, WorkRows, EndpointRows, WorkInv
<1>8. CountsFailure(w, outcome) => work[w].endpoint.failures + 1 <= Cardinality(FailedAttempts(e)')
  BY <1>2, <1>5, <1>7 DEF CountsFailure
<1>9. Pauses(w, outcome) => Cardinality(FailedAttempts(e)') >= PauseAfter
  BY <1>5, <1>7, <1>8, LimitsAssumption DEF Pauses
<1>10. WorkInv'
  <2> SUFFICES ASSUME NEW v \in Workers
               PROVE  /\ work'[v].phase # "idle" => work'[v].delivery \in Deliveries
                      /\ work'[v].phase = "loaded" => work'[v].seen <= Len(history'[work'[v].delivery])
                      /\ work'[v].phase = "sending" =>
                            /\ work'[v].row.attempts = work'[v].number
                            /\ \A c \in Deliveries : c = work'[v].delivery =>
                                  work'[v].endpoint.failures
                                     <= Cardinality(FailedAttempts(EndpointOf[c])')
    BY DEF WorkInv, FailedAttempts, DeliveriesOf
  <2>1. CASE v = w
    BY <1>3, <2>1
  <2>2. CASE v # w
    <3>1. work'[v] = work[v] /\ work[v].endpoint.failures \in Nat
      BY <1>3, <2>2 DEF IInv, TypeOK, WorkRows, EndpointRows
    <3>2. work[v].phase # "idle" =>
             work[v].delivery \in Deliveries /\ EndpointOf[work[v].delivery] \in Endpoints
      BY EndpointOfAssumption DEF IInv, WorkInv
    <3>3. work[v].phase = "loaded" => work[v].seen <= Len(history'[work[v].delivery])
      BY <1>6, <3>2 DEF IInv, WorkInv
    <3>4. work[v].phase = "sending" =>
            /\ work[v].row.attempts = work[v].number
            /\ work[v].endpoint.failures <= Cardinality(FailedAttempts(EndpointOf[work[v].delivery]))
      BY DEF IInv, WorkInv
    <3>5. ASSUME NEW c \in Deliveries, c = work[v].delivery, work[v].phase = "sending"
          PROVE  work[v].endpoint.failures <= Cardinality(FailedAttempts(EndpointOf[c])')
      BY <1>5, <3>1, <3>2, <3>4, <3>5
    <3> QED
      BY <3>1, <3>2, <3>3, <3>4, <3>5
  <2> QED
    BY <2>1, <2>2
<1>11. AttemptHistory'
  <2>1. \A c \in Deliveries : delivery'[c].attempts = Len(history'[c])
    BY <1>1, <1>3, <1>6 DEF IInv, AttemptHistory
  <2>2. \A v \in Workers : work'[v].phase = "sending" => v # w /\ work'[v] = work[v]
    BY <1>3
  <2>3. ASSUME NEW v \in Workers, work'[v].phase = "sending"
        PROVE  /\ work'[v].number \in DOMAIN history'[work'[v].delivery]
               /\ history'[work'[v].delivery][work'[v].number] = "started"
    <3>1. v # w /\ work'[v] = work[v] /\ work[v].phase = "sending"
      BY <2>2, <2>3
    <3>2. /\ work[v].delivery \in Deliveries
          /\ work[v].number \in DOMAIN history[work[v].delivery]
          /\ history[work[v].delivery][work[v].number] = "started"
          /\ ~(work[v].delivery = d /\ work[v].number = n)
      BY <1>1, <3>1 DEF IInv, AttemptHistory, WorkInv
    <3> QED
      BY <1>1, <3>1, <3>2
  <2>4. ASSUME NEW v \in Workers, NEW u \in Workers \ {v}, work'[v].phase = "sending",
               work'[u].phase = "sending", work'[u].delivery = work'[v].delivery,
               work'[u].number = work'[v].number
        PROVE  FALSE
    BY <2>2, <2>4 DEF IInv, AttemptHistory
  <2> QED
    BY <2>1, <2>3, <2>4 DEF AttemptHistory
<1>12. CountInv'
  <2> SUFFICES ASSUME NEW x \in Endpoints
               PROVE  endpoint'[x].failures <= Cardinality(FailedAttempts(x)')
    BY <1>5 DEF CountInv, FailedAttempts, DeliveriesOf
  <2>1. endpoint[x].failures \in Nat /\ endpoint[x].failures <= Cardinality(FailedAttempts(x))
    BY DEF IInv, TypeOK, EndpointRows, CountInv
  <2>2. endpoint[x].failures <= Cardinality(FailedAttempts(x)')
    BY <1>5, <2>1
  <2>3. CASE x = e
    <3>1. CASE endpoint'[e].failures \in {0, endpoint[e].failures}
      BY <1>5, <2>2, <2>3, <3>1
    <3>2. CASE CountsFailure(w, outcome)
      BY <1>3, <1>5, <1>8, <2>2, <2>3, <3>2
    <3> QED
      BY <1>3, <3>1, <3>2
  <2>4. CASE x # e
    BY <1>3, <2>2, <2>4
  <2> QED
    BY <2>3, <2>4
<1>13. PauseIsEarned'
  <2> SUFFICES ASSUME NEW x \in Endpoints, endpoint'[x].auto_paused
               PROVE  Cardinality(FailedAttempts(x)') >= PauseAfter
    BY DEF PauseIsEarned, FailedAttempts, DeliveriesOf
  <2>1. CASE endpoint[x].auto_paused
    BY <1>5, <2>1, LimitsAssumption DEF IInv, PauseIsEarned
  <2>2. CASE x = e /\ Pauses(w, outcome)
    BY <1>9, <2>2
  <2> QED
    BY <1>3, <2>1, <2>2
<1>14. VerdictIsEarned'
  <2> SUFFICES ASSUME NEW c \in Deliveries
               PROVE  /\ delivery'[c].status = "delivered" =>
                           \E i \in DOMAIN history'[c] : history'[c][i] = "delivered"
                      /\ delivery'[c].status = "dead_letter" =>
                           \/ Len(history'[c]) >= MaxAttempts
                           \/ Cardinality(FailedAttempts(EndpointOf[c])') >= PauseAfter
    BY DEF VerdictIsEarned, FailedAttempts, DeliveriesOf
  <2>1. CASE delivery'[c].status = delivery[c].status
    <3>1. delivery[c].status = "delivered" => \E i \in DOMAIN history[c] : history[c][i] = "delivered"
      BY DEF IInv, VerdictIsEarned
    <3>2. \A i \in DOMAIN history[c] :
            history[c][i] = "delivered" => i \in DOMAIN history'[c] /\ history'[c][i] = "delivered"
      BY <1>1
    <3>3. EndpointOf[c] \in Endpoints
      BY EndpointOfAssumption
    <3>4. delivery[c].status = "dead_letter" =>
              \/ Len(history[c]) >= MaxAttempts
              \/ Cardinality(FailedAttempts(EndpointOf[c])) >= PauseAfter
      BY DEF IInv, VerdictIsEarned
    <3> QED
      BY <1>5, <1>6, <2>1, <3>1, <3>2, <3>3, <3>4, LimitsAssumption
  <2>2. CASE c = d /\ delivery'[d].status = Verdict(w, outcome)
                   /\ Verdict(w, outcome) # work[w].row.status
    <3>1. Verdict(w, outcome) = "delivered" => outcome = "delivered"
      BY <2>2 DEF Verdict
    <3>2. Verdict(w, outcome) = "dead_letter" => Pauses(w, outcome) \/ work[w].row.attempts >= MaxAttempts
      BY <2>2 DEF Verdict
    <3>3. n <= Len(history'[d])
      BY <1>1, <1>6, LenProperties DEF IInv, TypeOK
    <3>4. Len(history'[d]) \in Nat
      BY <1>1, LenProperties
    <3> QED
      BY <1>1, <1>2, <1>7, <1>9, <2>2, <3>1, <3>2, <3>3, <3>4, LimitsAssumption
  <2> QED
    BY <1>3, <2>1, <2>2 DEF Written
<1> QED
  BY <1>4, <1>10, <1>11, <1>12, <1>13, <1>14 DEF IInv

(***************************************************************************)
(* The invariant, and what it says of every reachable state.               *)
(***************************************************************************)
LEMMA Start == Init => IInv
<1> SUFFICES ASSUME Init PROVE IInv
  OBVIOUS
<1>1. TypeOK
  BY Rows DEF Init, TypeOK
<1>2. \A e : FailedAttempts(e) = {}
  BY DEF Init, FailedAttempts, DeliveriesOf
<1>3. IsFiniteSet({}) /\ Cardinality({}) = 0
  BY FS_EmptySet
<1>4. WorkInv /\ VerdictIsEarned
  BY Rows DEF Init, WorkInv, VerdictIsEarned
<1>5. AttemptHistory
  BY Rows, EmptySeq DEF Init, AttemptHistory
<1>6. \A e \in Endpoints : endpoint[e].failures = 0 /\ ~endpoint[e].auto_paused
  BY Rows DEF Init
<1>7. CountInv
  <2>1. \A e : IsFiniteSet(FailedAttempts(e)) /\ Cardinality(FailedAttempts(e)) = 0
    BY <1>2, <1>3
  <2> QED
    BY <1>6, <2>1 DEF CountInv
<1>8. PauseIsEarned
  BY <1>6 DEF PauseIsEarned
<1> QED
  BY <1>1, <1>4, <1>5, <1>7, <1>8 DEF IInv

LEMMA Invariance == Spec => []IInv
<1>1. IInv /\ [Next]_vars => IInv'
  BY Kinds, QuietKeeps, BeginKeeps, FinishKeeps DEF IInv
<1> QED
  BY <1>1, Start, PTL DEF Spec

\* The rows stay within their columns, the counters natural numbers.
THEOREM TypeCorrect == Spec => []TypeOK
<1>1. IInv => TypeOK
  BY DEF IInv
<1> QED
  BY <1>1, Invariance, PTL

\* The attempt history is complete and no two workers send under one number,
\* although rows are read without a lock and leases overrun.
THEOREM HistoryIsComplete == Spec => []AttemptHistory
<1>1. IInv => AttemptHistory
  BY DEF IInv
<1> QED
  BY <1>1, Invariance, PTL

\* An endpoint is paused automatically only after as many failed attempts as
\* the setting says, however the copies of its counter were overwritten.
THEOREM PausesAreEarned == Spec => []PauseIsEarned
<1>1. IInv => PauseIsEarned
  BY DEF IInv
<1> QED
  BY <1>1, Invariance, PTL

\* A delivery is delivered only after an answered attempt, and given up only
\* after its last attempt or for an endpoint that failed too often.
THEOREM VerdictsAreEarned == Spec => []VerdictIsEarned
<1>1. IInv => VerdictIsEarned
  BY DEF IInv
<1> QED
  BY <1>1, Invariance, PTL
=============================================================================
