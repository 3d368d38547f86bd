---------------------------- MODULE AuthProofs ------------------------------
(***************************************************************************)
(* Theorems about app/auth.py and the dashboard in front of it: Sessions,  *)
(* DashboardSessions and AccountTokens, each for any number of rows and    *)
(* requests.  The arguments are told where each begins.                    *)
(***************************************************************************)
EXTENDS DashboardSessions, AccountTokens, TLAPS

-----------------------------------------------------------------------------
(***************************************************************************)
(* Theorems about Sessions, for any number of sessions, requests and       *)
(* resets.  Two arguments: a refresh keeps its session active by the row   *)
(* lock until it replaces it, so a family keeps one head; and a reset      *)
(* lists the active sessions when it begins, so what it does not close was *)
(* issued by a login or a refresh that overlapped it.                      *)
(***************************************************************************)

\* A family is named after its first session.
FamilyInv ==
    \A s \in Sessions : Exists(s) =>
        session[s].family \in Sessions /\ Exists(session[s].family)

\* The row lock: the session a refresh replaces stays active, and is its own.
SessionLockInv ==
    /\ \A r \in Requests : request[r].op = "refresh" =>
          request[r].session \in Sessions /\ Active(request[r].session)
    /\ \A r, q \in Requests :
          request[r].session = request[q].session /\ request[r].session # None => r = q

\* One reset at a time; every request that issues sessions meanwhile knows it
\* overlaps it, and the active sessions it has not listed are such requests'.
ResetInv ==
    \A r \in Requests : request[r].op = "reset" =>
        /\ password < MaxResets
        /\ \A q \in Requests : request[q].op = "reset" => q = r
        /\ \A q \in Requests : request[q].op \in Issuing => request[q].overlap = TRUE
        /\ \A s \in Sessions : Active(s) => s \in request[r].sees \/ s \in survivor

\* A login that verified a password since replaced overlapped the reset.
LoginInv ==
    \A r \in Requests :
        request[r].op = "login" /\ request[r].secret < password => request[r].overlap = TRUE

SessionIInv ==
    /\ ServerTypeOK
    /\ FamilyInv
    /\ SessionLockInv
    /\ OneHeadPerFamily
    /\ ResetInv
    /\ LoginInv
    /\ ResetEndsSessions

(***************************************************************************)
(* The rows that the actions write.                                        *)
(***************************************************************************)
LEMMA ResetNumbers == MaxResets \in Nat /\ 0 \in 0..MaxResets
BY SessionsAssumption

LEMMA ResettingIsBoolean == Resetting \in BOOLEAN
BY DEF Resetting

LEMMA IdleRow ==
    NoRequest \in RequestRows /\ NoRequest.op = "idle" /\ NoRequest.session = None
BY ResetNumbers DEF NoRequest, RequestRows

LEMMA OverlapRow ==
    ASSUME NEW row \in RequestRows, NEW new, new = [row EXCEPT !.overlap = TRUE]
    PROVE  /\ new \in RequestRows
           /\ new.op = row.op /\ new.session = row.session /\ new.secret = row.secret
           /\ new.overlap = TRUE
BY DEF RequestRows

LEMMA StatusRow ==
    ASSUME NEW row \in SessionRows, NEW st \in SessionStates, NEW new,
           new = [row EXCEPT !.status = st]
    PROVE  /\ new \in SessionRows
           /\ new.status = st /\ new.family = row.family /\ new.secret = row.secret
BY DEF SessionRows

(***************************************************************************)
(* What a step does to a request and to a session.                         *)
(***************************************************************************)
RequestChange(q) ==
    \/ request'[q] = request[q] /\ (Resetting' => Resetting \/ request[q].op \notin Issuing)
    \/ request'[q].op = "idle" /\ request'[q].session = None
    \/ /\ request'[q].op = "login" /\ request'[q].session = None
       /\ request'[q].secret = password /\ request'[q].overlap = Resetting
       /\ password' = password /\ (Resetting' => Resetting)
    \/ \E s \in Sessions :
       /\ ~Locked(s) /\ Active(s) /\ session' = session
       /\ request'[q].op = "refresh" /\ request'[q].session = s
       /\ request'[q].overlap = Resetting /\ (Resetting' => Resetting)
       /\ \A r \in Requests : r # q => request'[r] = request[r]
    \/ \E s \in Sessions :
       /\ ~Locked(s)
       /\ request'[q].op = "reuse" /\ request'[q].session = s
       /\ \A r \in Requests : r # q => request'[r] = request[r]
    \/ /\ request'[q].op = "all" /\ request'[q].session = None
    \/ /\ request'[q].op = "reset" /\ request'[q].session = None
       /\ ~Resetting /\ password < MaxResets /\ session' = session /\ password' = password
       /\ \A s \in Sessions : Active(s) => s \in request'[q].sees
       /\ \A r \in Requests : r # q => request'[r].op = request[r].op
    \/ /\ request[q].op \in Issuing
       /\ request'[q].op = request[q].op /\ request'[q].session = request[q].session
       /\ request'[q].secret = request[q].secret /\ request'[q].overlap = TRUE
       /\ UNCHANGED <<session, password>>

LEMMA RequestChanges ==
    ASSUME ServerTypeOK, [ServerNext]_serverVars, NEW q \in Requests
    PROVE  RequestChange(q) /\ request'[q] \in RequestRows
<1> USE DEF ServerTypeOK
<1>1. CASE request' = request
  BY <1>1 DEF RequestChange, Resetting
<1>2. ASSUME NEW r \in Requests, Done(r) PROVE RequestChange(q) /\ request'[q] \in RequestRows
  <2>1. \A x \in Requests : request'[x] = IF x = r THEN NoRequest ELSE request[x]
    BY <1>2 DEF Done
  <2>2. Resetting' => Resetting
    BY <2>1, IdleRow DEF Resetting
  <2> QED
    BY <2>1, <2>2, IdleRow DEF RequestChange
<1>3. ASSUME NEW r \in Requests, BeginLogin(r) PROVE RequestChange(q) /\ request'[q] \in RequestRows
  <2>1. PICK new : new = [NoRequest EXCEPT !.op = "login", !.secret = password, !.overlap = Resetting]
    OBVIOUS
  <2>2. /\ new \in RequestRows
        /\ new.op = "login" /\ new.session = None /\ new.secret = password /\ new.overlap = Resetting
    BY <2>1, ResetNumbers, ResettingIsBoolean DEF NoRequest, RequestRows, Issuing
  <2>3. request' = [request EXCEPT ![r] = new] /\ password' = password
    BY <1>3, <2>1 DEF BeginLogin
  <2>4. \A x \in Requests : request'[x] = IF x = r THEN new ELSE request[x]
    BY <2>3
  <2>5. Resetting' => Resetting
    BY <2>2, <2>4 DEF Resetting
  <2> QED
    BY <2>2, <2>3, <2>4, <2>5 DEF RequestChange
<1>4. ASSUME NEW r \in Requests, NEW s \in Sessions, BeginRefresh(r, s), Active(s)
      PROVE  RequestChange(q) /\ request'[q] \in RequestRows
  <2>1. PICK new : new = [NoRequest EXCEPT !.op = "refresh", !.session = s, !.overlap = Resetting]
    OBVIOUS
  <2>2. new \in RequestRows /\ new.op = "refresh" /\ new.session = s /\ new.overlap = Resetting
    BY <2>1, ResetNumbers, ResettingIsBoolean DEF NoRequest, RequestRows, Issuing
  <2>3. request' = [request EXCEPT ![r] = new] /\ ~Locked(s) /\ session' = session
    BY <1>4, <2>1 DEF BeginRefresh
  <2>4. \A x \in Requests : request'[x] = IF x = r THEN new ELSE request[x]
    BY <2>3
  <2>5. Resetting' => Resetting
    BY <2>2, <2>4 DEF Resetting
  <2> QED
    BY <1>4, <2>2, <2>3, <2>4, <2>5 DEF RequestChange
<1>5. ASSUME NEW r \in Requests, NEW s \in Sessions, BeginRefresh(r, s), ~Active(s)
      PROVE  RequestChange(q) /\ request'[q] \in RequestRows
  <2>1. PICK sees \in SUBSET Sessions :
           request' = [request EXCEPT ![r] =
                         [NoRequest EXCEPT !.op = "reuse", !.session = s, !.sees = sees]]
    <3>1. {x \in {y \in Sessions : session[y].family = session[s].family} : Active(x)} \subseteq Sessions
      OBVIOUS
    <3> QED
      BY <1>5, <3>1 DEF BeginRefresh
  <2>2. PICK new : new = [NoRequest EXCEPT !.op = "reuse", !.session = s, !.sees = sees]
    OBVIOUS
  <2>3. new \in RequestRows /\ new.op = "reuse" /\ new.session = s
    BY <2>2, ResetNumbers DEF NoRequest, RequestRows, Revoking
  <2>4. \A x \in Requests : request'[x] = IF x = r THEN new ELSE request[x]
    BY <2>1, <2>2
  <2>5. Resetting' => Resetting
    BY <2>3, <2>4 DEF Resetting
  <2>6. ~Locked(s)
    BY <1>5 DEF BeginRefresh
  <2> QED
    BY <2>3, <2>4, <2>5, <2>6 DEF RequestChange
<1>6. ASSUME NEW r \in Requests, NEW op \in {"all", "reset"}, BeginRevocation(r, op)
      PROVE  RequestChange(q) /\ request'[q] \in RequestRows
  <2>1. PICK new : new = [NoRequest EXCEPT !.op = op, !.sees = Seen(op)]
    OBVIOUS
  <2>2. Seen(op) \in SUBSET Sessions /\ \A s \in Sessions : Active(s) => s \in Seen(op)
    BY DEF Seen
  <2>3. new \in RequestRows /\ new.op = op /\ new.session = None /\ new.sees = Seen(op)
    BY <2>1, <2>2, ResetNumbers DEF NoRequest, RequestRows, Revoking
  <2>4. /\ request' = [x \in Requests |->
              IF x = r THEN new
              ELSE IF op = "reset" /\ request[x].op \in Issuing
              THEN [request[x] EXCEPT !.overlap = TRUE]
              ELSE request[x]]
        /\ UNCHANGED <<session, password>>
        /\ op = "reset" => ~Resetting /\ password < MaxResets
    BY <1>6, <2>1 DEF BeginRevocation
  <2>5. \A x \in Requests : request[x].op \in Issuing =>
           LET late == [request[x] EXCEPT !.overlap = TRUE] IN
           /\ late \in RequestRows
           /\ late.op = request[x].op /\ late.session = request[x].session
           /\ late.secret = request[x].secret /\ late.overlap = TRUE
    BY OverlapRow
  <2>6. \A x \in Requests : x # r => request'[x].op = request[x].op
    BY <2>4, <2>5
  <2>7. CASE q = r
    BY <2>2, <2>3, <2>4, <2>6, <2>7 DEF RequestChange
  <2>8. CASE q # r /\ op = "reset" /\ request[q].op \in Issuing
    BY <2>4, <2>5, <2>8 DEF RequestChange
  <2>9. CASE q # r /\ ~(op = "reset" /\ request[q].op \in Issuing)
    <3>1. request'[q] = request[q]
      BY <2>4, <2>9
    <3>2. op = "all" => (Resetting' => Resetting)
      BY <2>3, <2>4, <2>6 DEF Resetting
    <3> QED
      BY <2>9, <3>1, <3>2 DEF RequestChange
  <2> QED
    BY <2>7, <2>8, <2>9
<1>7. ASSUME NEW r \in Requests, BeginRevocation(r, "reuse") PROVE FALSE
  BY <1>7 DEF BeginRevocation
<1> QED
  BY <1>1, <1>2, <1>3, <1>4, <1>5, <1>6, <1>7
  DEF ServerNext, SessionStep, ServerStep, serverVars, ExpireSession, RevokeOne, CommitLogin,
      CommitRefresh, CommitRevocation, Abort, Revoking

\* A login adds one session ...
Adds(r, n) ==
    /\ request[r].op = "login" /\ ~Exists(n)
    /\ session'[n].status = "active" /\ session'[n].family = n
    /\ session'[n].secret = request[r].secret
    /\ \A x \in Sessions \ {n} : session'[x] = session[x]
    /\ \A x \in Sessions : session'[x] \in SessionRows
    /\ password' = password
    /\ survivor \subseteq survivor' /\ survivor' \subseteq survivor \cup {n}
    /\ request[r].overlap = TRUE => n \in survivor'

LEMMA Logins ==
    ASSUME ServerTypeOK, NEW r \in Requests, NEW n \in Sessions, CommitLogin(r, n)
    PROVE  Adds(r, n)
<1>1. [status |-> "active", family |-> n, secret |-> request[r].secret] \in SessionRows
  BY DEF ServerTypeOK, RequestRows, SessionRows, SessionStates
<1>2. session' = [session EXCEPT ![n] =
                    [status |-> "active", family |-> n, secret |-> request[r].secret]]
  BY DEF CommitLogin
<1>3. /\ request[r].op = "login" /\ ~Exists(n) /\ password' = password
      /\ survivor' = IF request[r].overlap \/ request[r].session \in survivor
                     THEN survivor \cup {n} ELSE survivor
  BY DEF CommitLogin, Issue
<1>4. request[r].overlap = TRUE => n \in survivor'
  BY <1>3
<1>5. survivor \subseteq survivor' /\ survivor' \subseteq survivor \cup {n}
  BY <1>3
<1> QED
  BY <1>1, <1>2, <1>3, <1>4, <1>5 DEF ServerTypeOK, Adds

\* ... a refresh adds one in the place of another ...
Replaces(r, n, s) ==
    /\ s = request[r].session /\ s # n /\ Active(s) /\ ~Exists(n)
    /\ session'[n].status = "active" /\ session'[n].family = session[s].family
    /\ session'[n].secret = session[s].secret
    /\ session'[s].status = "rotated" /\ session'[s].family = session[s].family
    /\ session'[s].secret = session[s].secret
    /\ \A x \in Sessions \ {n, s} : session'[x] = session[x]
    /\ \A x \in Sessions : session'[x] \in SessionRows
    /\ password' = password
    /\ survivor \subseteq survivor' /\ survivor' \subseteq survivor \cup {n}
    /\ request[r].overlap = TRUE \/ s \in survivor => n \in survivor'

LEMMA Refreshes ==
    ASSUME ServerTypeOK, SessionLockInv, NEW r \in Requests, NEW n \in Sessions, CommitRefresh(r, n)
    PROVE  \E s \in Sessions : Replaces(r, n, s)
<1>1. PICK s \in Sessions : s = request[r].session /\ Active(s)
  BY DEF CommitRefresh, SessionLockInv
<1>2. /\ ~Exists(n) /\ password' = password
      /\ survivor' = IF request[r].overlap \/ s \in survivor THEN survivor \cup {n} ELSE survivor
  BY <1>1 DEF CommitRefresh, Issue
<1>3. s # n
  BY <1>1, <1>2 DEF Exists, Active
<1>4. session' = [session EXCEPT ![s].status = "rotated", ![n] = [session[s] EXCEPT !.status = "active"]]
  BY <1>1 DEF CommitRefresh
<1>5. PICK old : old = [session[s] EXCEPT !.status = "rotated"]
  OBVIOUS
<1>6. PICK new : new = [session[s] EXCEPT !.status = "active"]
  OBVIOUS
<1>7. session' = [[session EXCEPT ![s] = old] EXCEPT ![n] = new]
  BY <1>4, <1>5, <1>6 DEF ServerTypeOK
<1>8. \A x \in Sessions : session'[x] = IF x = n THEN new ELSE IF x = s THEN old ELSE session[x]
  BY <1>7 DEF ServerTypeOK
<1>9. "rotated" \in SessionStates /\ "active" \in SessionStates /\ session[s] \in SessionRows
  BY DEF SessionStates, ServerTypeOK
<1>10. /\ old \in SessionRows /\ old.status = "rotated"
       /\ old.family = session[s].family /\ old.secret = session[s].secret
  BY <1>5, <1>9, StatusRow
<1>11. /\ new \in SessionRows /\ new.status = "active"
       /\ new.family = session[s].family /\ new.secret = session[s].secret
  BY <1>6, <1>9, StatusRow
<1>12. \A x \in Sessions : session'[x] \in SessionRows
  BY <1>8, <1>10, <1>11 DEF ServerTypeOK
<1>13. request[r].overlap = TRUE \/ s \in survivor => n \in survivor'
  BY <1>2
<1>14. survivor \subseteq survivor' /\ survivor' \subseteq survivor \cup {n}
  BY <1>2
<1> QED
  BY <1>1, <1>2, <1>3, <1>8, <1>10, <1>11, <1>12, <1>13, <1>14 DEF Replaces

\* ... and every other step at most closes sessions that no refresh has locked.
Closing ==
    \A x \in Sessions :
        /\ session'[x] \in SessionRows
        /\ session'[x].family = session[x].family /\ session'[x].secret = session[x].secret
        /\ Exists(x)' <=> Exists(x)
        /\ Active(x)' => Active(x)
        /\ session'[x].status = "rotated" => session[x].status = "rotated"
        /\ (\E r \in Requests : request[r].op = "refresh" /\ request[r].session = x) =>
              session'[x] = session[x]

LEMMA SameCloses == ASSUME ServerTypeOK, session' = session PROVE Closing
BY DEF Closing, ServerTypeOK, Exists, Active

LEMMA OneCloses ==
    ASSUME ServerTypeOK, NEW s \in Sessions, NEW st \in {"expired", "revoked"}, Exists(s), ~Locked(s),
           session' = [session EXCEPT ![s].status = st]
    PROVE  Closing
<1>1. PICK new : new = [session[s] EXCEPT !.status = st]
  OBVIOUS
<1>2. st \in SessionStates /\ session[s] \in SessionRows
  BY DEF SessionStates, ServerTypeOK
<1>3. /\ new \in SessionRows /\ new.status = st
      /\ new.family = session[s].family /\ new.secret = session[s].secret
  BY <1>1, <1>2, StatusRow
<1>4. \A x \in Sessions : session'[x] = IF x = s THEN new ELSE session[x]
  BY <1>1 DEF ServerTypeOK
<1> QED
  BY <1>3, <1>4 DEF Closing, Exists, Active, Locked, ServerTypeOK

LEMMA RevocationCloses ==
    ASSUME ServerTypeOK, NEW r \in Requests, CommitRevocation(r)
    PROVE  Closing /\ \A x \in request[r].sees : x \in Sessions => ~Active(x)'
<1>1. "revoked" \in SessionStates /\ \A x \in Sessions : session[x] \in SessionRows
  BY DEF SessionStates, ServerTypeOK
<1>2. \A x \in Sessions : session'[x] = IF x \in request[r].sees /\ Active(x)
                                        THEN [session[x] EXCEPT !.status = "revoked"]
                                        ELSE session[x]
  BY DEF CommitRevocation
<1>3. \A q \in Requests : request[q].op = "refresh" => request[q].session \notin request[r].sees
  BY DEF CommitRevocation, Revoking
<1>4. ASSUME NEW x \in Sessions, x \in request[r].sees, Active(x)
      PROVE  /\ session'[x] \in SessionRows /\ session'[x].status = "revoked"
             /\ session'[x].family = session[x].family /\ session'[x].secret = session[x].secret
  <2>1. PICK new : new = [session[x] EXCEPT !.status = "revoked"]
    OBVIOUS
  <2>2. session'[x] = new
    BY <1>2, <1>4, <2>1
  <2>3. /\ new \in SessionRows /\ new.status = "revoked"
        /\ new.family = session[x].family /\ new.secret = session[x].secret
    BY <1>1, <2>1, StatusRow
  <2> QED
    BY <2>2, <2>3
<1> QED
  BY <1>1, <1>2, <1>3, <1>4 DEF Closing, Exists, Active

LEMMA Closings ==
    ASSUME ServerTypeOK, [ServerNext]_serverVars
    PROVE  \/ Closing
           \/ \E r \in Requests, n \in Sessions : CommitLogin(r, n) \/ CommitRefresh(r, n)
<1>1. CASE session' = session
  BY <1>1, SameCloses
<1>2. ASSUME NEW s \in Sessions, ExpireSession(s) PROVE Closing
  BY <1>2, OneCloses DEF ExpireSession, Active, Exists
<1>3. ASSUME NEW s \in Sessions, RevokeOne(s) PROVE Closing
  BY <1>3, OneCloses DEF RevokeOne
<1>4. ASSUME NEW r \in Requests, CommitRevocation(r) PROVE Closing
  BY <1>4, RevocationCloses
<1> QED
  BY <1>1, <1>2, <1>3, <1>4
  DEF ServerNext, SessionStep, ServerStep, serverVars, BeginLogin, BeginRefresh, BeginRevocation,
      Abort

(***************************************************************************)
(* The parts of the inductive invariant.                                   *)
(***************************************************************************)
LEMMA FamilyStep ==
    ASSUME ServerTypeOK, SessionLockInv, FamilyInv, [ServerNext]_serverVars PROVE FamilyInv'
<1>1. CASE Closing
  BY <1>1 DEF Closing, FamilyInv
<1>2. ASSUME NEW r \in Requests, NEW n \in Sessions, Adds(r, n) PROVE FamilyInv'
  <2>1. /\ session'[n].status = "active" /\ session'[n].family = n
        /\ \A x \in Sessions : x # n => session'[x] = session[x]
    BY <1>2 DEF Adds
  <2>2. \A x \in Sessions : Exists(x) => Exists(x)'
    BY <2>1 DEF Exists
  <2>3. ASSUME NEW x \in Sessions, Exists(x)'
        PROVE  session'[x].family \in Sessions /\ Exists(session[x].family)'
    <3>1. CASE x = n
      BY <2>1, <3>1 DEF Exists
    <3>2. CASE x # n
      <4>1. session'[x] = session[x] /\ Exists(x)
        BY <2>1, <2>3, <3>2 DEF Exists
      <4>2. PICK f \in Sessions : f = session[x].family /\ Exists(f)
        BY <4>1 DEF FamilyInv
      <4> QED
        BY <2>2, <4>1, <4>2 DEF Exists
    <3> QED
      BY <3>1, <3>2
  <2> QED
    BY <2>3 DEF FamilyInv
<1>3. ASSUME NEW r \in Requests, NEW n \in Sessions, NEW s \in Sessions, Replaces(r, n, s)
      PROVE  FamilyInv'
  <2>1. /\ s # n /\ Active(s)
        /\ session'[n].status = "active" /\ session'[n].family = session[s].family
        /\ session'[s].status = "rotated" /\ session'[s].family = session[s].family
        /\ \A x \in Sessions \ {n, s} : session'[x] = session[x]
    BY <1>3 DEF Replaces
  <2>2. \A x \in Sessions : Exists(x) => Exists(x)'
    BY <2>1 DEF Exists
  <2>3. Exists(s)
    BY <2>1 DEF Exists, Active
  <2>4. ASSUME NEW x \in Sessions, Exists(x)'
        PROVE  session'[x].family \in Sessions /\ Exists(session[x].family)'
    <3>1. PICK y \in Sessions : Exists(y) /\ session'[x].family = session[y].family
      BY <2>1, <2>3, <2>4 DEF Exists
    <3>2. PICK f \in Sessions : f = session[y].family /\ Exists(f)
      BY <3>1 DEF FamilyInv
    <3> QED
      BY <2>2, <3>1, <3>2 DEF Exists
  <2> QED
    BY <2>4 DEF FamilyInv
<1> QED
  BY <1>1, <1>2, <1>3, Closings, Logins, Refreshes

LEMMA HeadStep ==
    ASSUME ServerTypeOK, SessionLockInv, FamilyInv, OneHeadPerFamily, [ServerNext]_serverVars
    PROVE  OneHeadPerFamily'
<1>1. CASE Closing
  BY <1>1 DEF Closing, OneHeadPerFamily
<1>2. ASSUME NEW r \in Requests, NEW n \in Sessions, Adds(r, n) PROVE OneHeadPerFamily'
  <2>1. ASSUME NEW x \in Sessions, x # n, Active(x)' PROVE session'[x].family # n
    <3>1. ~Exists(n) /\ session'[x] = session[x]
      BY <1>2, <2>1 DEF Adds
    <3>2. Exists(x)
      BY <2>1, <3>1 DEF Active, Exists
    <3> QED
      BY <3>1, <3>2 DEF FamilyInv
  <2>2. session'[n].family = n /\ \A x \in Sessions \ {n} : session'[x] = session[x]
    BY <1>2 DEF Adds
  <2> QED
    BY <2>1, <2>2 DEF OneHeadPerFamily, Active
<1>3. ASSUME NEW r \in Requests, NEW n \in Sessions, NEW s \in Sessions, Replaces(r, n, s)
      PROVE  OneHeadPerFamily'
  <2>1. /\ s # n /\ Active(s)
        /\ session'[n].status = "active" /\ session'[n].family = session[s].family
        /\ session'[s].status = "rotated" /\ session'[s].family = session[s].family
        /\ \A x \in Sessions \ {n, s} : session'[x] = session[x]
    BY <1>3 DEF Replaces
  <2>2. ASSUME NEW x \in Sessions, x # n, Active(x)' PROVE session'[x].family # session'[n].family
    <3>1. x # s /\ Active(x) /\ session'[x] = session[x]
      BY <2>1, <2>2 DEF Active
    <3> QED
      BY <2>1, <3>1 DEF OneHeadPerFamily
  <2> QED
    BY <2>1, <2>2 DEF OneHeadPerFamily, Active
<1> QED
  BY <1>1, <1>2, <1>3, Closings, Logins, Refreshes

LEMMA SessionLockStep ==
    ASSUME ServerTypeOK, SessionLockInv, [ServerNext]_serverVars PROVE SessionLockInv'
<1>1. ASSUME NEW r \in Requests, request'[r].op = "refresh"
      PROVE  request'[r].session \in Sessions /\ Active(request[r].session)'
  <2>1. CASE request'[r] = request[r]
    <3>1. PICK s \in Sessions : request[r].session = s /\ Active(s) /\ request[r].op = "refresh"
      BY <1>1, <2>1 DEF SessionLockInv
    <3>2. CASE Closing
      BY <2>1, <3>1, <3>2 DEF Closing, Active
    <3>3. ASSUME NEW q \in Requests, NEW n \in Sessions, Adds(q, n) PROVE Active(s)'
      BY <3>1, <3>3 DEF Adds, Active, Exists
    <3>4. ASSUME NEW q \in Requests, NEW n \in Sessions, CommitRefresh(q, n) PROVE Active(s)'
      <4>1. q # r
        BY <2>1, <3>1, <3>4, IdleRow DEF CommitRefresh, Done, ServerTypeOK
      <4>2. PICK z \in Sessions : Replaces(q, n, z)
        BY <3>4, Refreshes
      <4>3. /\ z = request[q].session /\ Active(z) /\ ~Exists(n)
            /\ \A x \in Sessions \ {n, z} : session'[x] = session[x]
        BY <4>2 DEF Replaces
      <4>4. s # z
        BY <3>1, <4>1, <4>3, SessionsAssumption DEF SessionLockInv
      <4>5. s # n
        BY <3>1, <4>3 DEF Active, Exists
      <4> QED
        BY <3>1, <4>3, <4>4, <4>5 DEF Active
    <3>5. Active(s)'
      BY <3>1, <3>2, <3>3, <3>4, Closings, Logins DEF Closing, Active
    <3> QED
      BY <2>1, <3>1, <3>5 DEF Active
  <2>2. CASE session' = session /\ request'[r].session \in Sessions /\ Active(request'[r].session)
    BY <2>2 DEF Active
  <2>3. CASE /\ request'[r].op = request[r].op /\ request'[r].session = request[r].session
             /\ session' = session
    BY <1>1, <2>3 DEF SessionLockInv, Active
  <2> QED
    BY <1>1, <2>1, <2>2, <2>3, RequestChanges DEF RequestChange
<1>2. ASSUME NEW r \in Requests, NEW q \in Requests, r # q,
             request'[r].session = request'[q].session
      PROVE  request'[r].session = None
  <2>1. ASSUME NEW x \in Requests
        PROVE  \/ request'[x].session = request[x].session
               \/ request'[x].session = None
               \/ /\ \A y \in Requests : request[y].session # request'[x].session
                  /\ \A y \in Requests : y # x => request'[y] = request[y]
    BY RequestChanges DEF RequestChange, Locked
  <2> QED
    BY <1>2, <2>1 DEF SessionLockInv
<1> QED
  BY <1>1, <1>2 DEF SessionLockInv

\* The password changes and sessions leave "survivor" only when a reset commits.
Resets(r) ==
    /\ CommitRevocation(r) /\ request[r].op = "reset"
    /\ password' = password + 1
    /\ survivor' = survivor \ request[r].sees
    /\ request'[r].op = "idle"

LEMMA PasswordChanges ==
    ASSUME ServerTypeOK, SessionLockInv, [ServerNext]_serverVars
    PROVE  \/ password' = password /\ survivor \subseteq survivor' /\ survivor' \subseteq Sessions
           \/ \E r \in Requests : Resets(r)
<1>1. CASE UNCHANGED <<password, survivor>>
  BY <1>1 DEF ServerTypeOK
<1>2. ASSUME NEW r \in Requests, CommitRevocation(r), request[r].op = "reset" PROVE Resets(r)
  BY <1>2, IdleRow DEF CommitRevocation, Resets, Done, ServerTypeOK
<1>3. ASSUME NEW r \in Requests, CommitRevocation(r), request[r].op # "reset"
      PROVE  UNCHANGED <<password, survivor>>
  BY <1>3 DEF CommitRevocation
<1>4. ASSUME NEW r \in Requests, NEW n \in Sessions, Adds(r, n)
      PROVE  password' = password /\ survivor \subseteq survivor' /\ survivor' \subseteq Sessions
  BY <1>4 DEF Adds, ServerTypeOK
<1>5. ASSUME NEW r \in Requests, NEW n \in Sessions, CommitRefresh(r, n)
      PROVE  password' = password /\ survivor \subseteq survivor' /\ survivor' \subseteq Sessions
  <2>1. PICK s \in Sessions : Replaces(r, n, s)
    BY <1>5, Refreshes
  <2> QED
    BY <2>1 DEF Replaces, ServerTypeOK
<1> QED
  BY <1>1, <1>2, <1>3, <1>4, <1>5, Logins
  DEF ServerNext, SessionStep, ServerStep, serverVars, ExpireSession, RevokeOne, BeginLogin,
      BeginRefresh, BeginRevocation, Abort

LEMMA SessionTypeStep ==
    ASSUME ServerTypeOK, SessionLockInv, ResetInv, [ServerNext]_serverVars PROVE ServerTypeOK'
<1>1. session' \in [Sessions -> SessionRows]
  <2>1. session' = [x \in Sessions |-> session'[x]]
    BY DEF ServerTypeOK, ServerNext, SessionStep, ServerStep, serverVars, ExpireSession, RevokeOne,
       BeginLogin, BeginRefresh, CommitLogin, CommitRefresh, BeginRevocation, CommitRevocation, Abort
  <2>2. \A x \in Sessions : session'[x] \in SessionRows
    <3>1. CASE Closing
      BY <3>1 DEF Closing
    <3>2. ASSUME NEW r \in Requests, NEW n \in Sessions, Adds(r, n)
          PROVE  \A x \in Sessions : session'[x] \in SessionRows
      BY <3>2 DEF Adds
    <3>3. ASSUME NEW r \in Requests, NEW n \in Sessions, NEW s \in Sessions, Replaces(r, n, s)
          PROVE  \A x \in Sessions : session'[x] \in SessionRows
      BY <3>3 DEF Replaces
    <3> QED
      BY <3>1, <3>2, <3>3, Closings, Logins, Refreshes
  <2> QED
    BY <2>1, <2>2
<1>2. request' \in [Requests -> RequestRows]
  <2>1. request' = [x \in Requests |-> request'[x]]
    BY DEF ServerTypeOK, ServerNext, SessionStep, ServerStep, serverVars, ExpireSession, RevokeOne,
       BeginLogin, BeginRefresh, CommitLogin, CommitRefresh, BeginRevocation, CommitRevocation, Abort,
       Done
  <2> QED
    BY <2>1, RequestChanges
<1>3. password' \in 0..MaxResets /\ survivor' \subseteq Sessions
  <2>1. ASSUME NEW r \in Requests, Resets(r)
        PROVE  password' \in 0..MaxResets /\ survivor' \subseteq Sessions
    <3>1. password < MaxResets /\ password \in 0..MaxResets
      BY <2>1 DEF Resets, ResetInv, ServerTypeOK
    <3> QED
      BY <2>1, <3>1, ResetNumbers DEF Resets, ServerTypeOK
  <2> QED
    BY <2>1, PasswordChanges DEF ServerTypeOK
<1> QED
  BY <1>1, <1>2, <1>3 DEF ServerTypeOK

LEMMA ResetStep ==
    ASSUME ServerTypeOK, SessionLockInv, ResetInv, [ServerNext]_serverVars PROVE ResetInv'
<1> SUFFICES ASSUME NEW r \in Requests, request'[r].op = "reset"
             PROVE  /\ password' < MaxResets
                    /\ \A q \in Requests : request'[q].op = "reset" => q = r
                    /\ \A q \in Requests : request'[q].op \in Issuing => request'[q].overlap = TRUE
                    /\ \A s \in Sessions : Active(s)' => s \in request'[r].sees \/ s \in survivor'
  BY DEF ResetInv
<1>1. Resetting'
  BY DEF Resetting
<1>2. "reset" \notin Issuing
  BY DEF Issuing
<1>3. CASE request'[r] = request[r]
  <2>1. /\ Resetting /\ password < MaxResets
        /\ \A q \in Requests : request[q].op = "reset" => q = r
        /\ \A q \in Requests : request[q].op \in Issuing => request[q].overlap = TRUE
        /\ \A s \in Sessions : Active(s) => s \in request[r].sees \/ s \in survivor
    BY <1>3 DEF ResetInv, Resetting
  <2>2. password' = password /\ survivor \subseteq survivor'
    <3>1. ASSUME NEW q \in Requests, Resets(q) PROVE FALSE
      BY <1>3, <2>1, <3>1 DEF Resets
    <3> QED
      BY <3>1, PasswordChanges
  <2>3. ASSUME NEW q \in Requests, request'[q].op = "reset" PROVE q = r
    BY <1>2, <2>1, <2>3, RequestChanges DEF RequestChange
  <2>4. ASSUME NEW q \in Requests, request'[q].op \in Issuing PROVE request'[q].overlap = TRUE
    <3>1. RequestChange(q)
      BY RequestChanges
    <3>2. request'[q].overlap = Resetting => request'[q].overlap = TRUE
      BY <2>1
    <3>3. request'[q] = request[q] => request'[q].overlap = TRUE
      BY <2>1, <2>4
    <3> QED
      BY <2>4, <3>1, <3>2, <3>3 DEF RequestChange, Issuing
  <2>5. ASSUME NEW s \in Sessions, Active(s)' PROVE s \in request'[r].sees \/ s \in survivor'
    <3>1. CASE Active(s)
      BY <1>3, <2>1, <2>2, <3>1
    <3>2. ASSUME NEW q \in Requests, NEW n \in Sessions, CommitRefresh(q, n), ~Active(s)
          PROVE  s \in survivor'
      <4>1. PICK z \in Sessions : Replaces(q, n, z)
        BY <3>2, Refreshes
      <4>2. s = n
        BY <2>5, <3>2, <4>1 DEF Replaces, Active
      <4>3. request[q].overlap = TRUE
        BY <2>1, <3>2 DEF CommitRefresh, Issuing
      <4> QED
        BY <4>1, <4>2, <4>3 DEF Replaces
    <3>3. ASSUME NEW q \in Requests, NEW n \in Sessions, CommitLogin(q, n), ~Active(s)
          PROVE  s \in survivor'
      <4>1. Adds(q, n)
        BY <3>3, Logins
      <4>2. s = n
        BY <2>5, <3>3, <4>1 DEF Adds, Active
      <4>3. request[q].overlap = TRUE
        BY <2>1, <4>1 DEF Adds, Issuing
      <4> QED
        BY <4>1, <4>2, <4>3 DEF Adds
    <3> QED
      BY <2>5, <3>1, <3>2, <3>3, Closings DEF Closing
  <2> QED
    BY <2>1, <2>2, <2>3, <2>4, <2>5
<1>4. CASE /\ ~Resetting /\ password < MaxResets /\ session' = session /\ password' = password
           /\ \A s \in Sessions : Active(s) => s \in request'[r].sees
           /\ \A q \in Requests : q # r => request'[q].op = request[q].op
  <2>1. \A q \in Requests : request[q].op # "reset"
    BY <1>4 DEF Resetting
  <2>2. ASSUME NEW q \in Requests, request'[q].op \in Issuing PROVE request'[q].overlap = TRUE
    <3>1. RequestChange(q)
      BY RequestChanges
    <3> QED
      BY <1>1, <1>4, <2>2, <3>1 DEF RequestChange, Issuing
  <2> QED
    BY <1>4, <2>1, <2>2 DEF Active
<1> QED
  BY <1>2, <1>3, <1>4, RequestChanges DEF RequestChange

LEMMA LoginStep ==
    ASSUME ServerTypeOK, SessionLockInv, ResetInv, LoginInv, [ServerNext]_serverVars PROVE LoginInv'
<1> SUFFICES ASSUME NEW r \in Requests, request'[r].op = "login", request'[r].secret < password'
             PROVE  request'[r].overlap = TRUE
  BY DEF LoginInv
<1>1. CASE request'[r] = request[r]
  <2>1. CASE password' = password
    BY <1>1, <2>1 DEF LoginInv
  <2>2. ASSUME NEW q \in Requests, Resets(q) PROVE request[r].overlap = TRUE
    BY <1>1, <2>2 DEF Resets, ResetInv, Issuing
  <2> QED
    BY <1>1, <2>1, <2>2, PasswordChanges
<1>2. CASE request'[r].secret = password /\ password' = password
  <2>1. password \in Nat
    BY ResetNumbers DEF ServerTypeOK
  <2> QED
    BY <1>2, <2>1
<1> QED
  BY <1>1, <1>2, RequestChanges DEF RequestChange

LEMMA EndsStep ==
    ASSUME ServerTypeOK, SessionLockInv, ResetInv, LoginInv, ResetEndsSessions, [ServerNext]_serverVars
    PROVE  ResetEndsSessions'
<1> SUFFICES ASSUME NEW s \in Sessions, Active(s)', session'[s].secret < password'
             PROVE  s \in survivor'
  BY DEF ResetEndsSessions
<1>1. ASSUME NEW r \in Requests, Resets(r) PROVE s \in survivor'
  <2>1. Active(s) /\ s \notin request[r].sees
    BY <1>1, RevocationCloses DEF Resets, Closing
  <2> QED
    BY <1>1, <2>1 DEF Resets, ResetInv
<1>2. CASE password' = password /\ survivor \subseteq survivor'
  <2>1. CASE Active(s) /\ session'[s].secret = session[s].secret
    BY <1>2, <2>1 DEF ResetEndsSessions
  <2>2. ASSUME NEW r \in Requests, NEW n \in Sessions, Adds(r, n) PROVE s \in survivor'
    <3>1. CASE s = n
      BY <1>2, <2>2, <3>1 DEF Adds, LoginInv
    <3>2. CASE s # n
      BY <2>1, <2>2, <3>2 DEF Adds, Active
    <3> QED
      BY <3>1, <3>2
  <2>3. ASSUME NEW r \in Requests, NEW n \in Sessions, NEW z \in Sessions, Replaces(r, n, z)
        PROVE  s \in survivor'
    <3>1. CASE s = n
      BY <1>2, <2>3, <3>1 DEF Replaces, ResetEndsSessions
    <3>2. CASE s # n
      BY <2>1, <2>3, <3>2 DEF Replaces, Active
    <3> QED
      BY <3>1, <3>2
  <2> QED
    BY <2>1, <2>2, <2>3, Closings, Logins, Refreshes DEF Closing
<1> QED
  BY <1>1, <1>2, PasswordChanges

LEMMA SessionsBegin == ServerInit => SessionIInv
<1> SUFFICES ASSUME ServerInit PROVE SessionIInv
  OBVIOUS
<1>1. [status |-> "absent", family |-> None, secret |-> 0] \in SessionRows
  BY ResetNumbers DEF SessionRows, SessionStates
<1>2. ServerTypeOK
  BY <1>1, IdleRow, ResetNumbers DEF ServerInit, ServerTypeOK
<1>3. \A s \in Sessions : ~Exists(s) /\ ~Active(s)
  BY DEF ServerInit, Exists, Active
<1>4. \A r \in Requests : request[r].op = "idle" /\ request[r].session = None
  BY IdleRow DEF ServerInit
<1> QED
  BY <1>2, <1>3, <1>4 DEF SessionIInv, FamilyInv, SessionLockInv, OneHeadPerFamily, ResetInv, LoginInv,
     ResetEndsSessions

LEMMA SessionStepHolds == SessionIInv /\ [ServerNext]_serverVars => SessionIInv'
BY SessionTypeStep, FamilyStep, SessionLockStep, HeadStep, ResetStep, LoginStep, EndsStep
   DEF SessionIInv

LEMMA SessionInvariance == ServerSpec => []SessionIInv
BY SessionsBegin, SessionStepHolds, PTL DEF ServerSpec

(***************************************************************************)
(* The theorems.                                                           *)
(***************************************************************************)
\* The rows keep their types.
THEOREM SessionTypeCorrect == ServerSpec => []ServerTypeOK
<1>1. SessionIInv => ServerTypeOK
  BY DEF SessionIInv
<1> QED
  BY <1>1, SessionInvariance, PTL

\* A refresh-token family has one active session at most, however refreshes,
\* reuse detections and revocations interleave.
THEOREM FamiliesHaveOneHead == ServerSpec => []OneHeadPerFamily
<1>1. SessionIInv => OneHeadPerFamily
  BY DEF SessionIInv
<1> QED
  BY <1>1, SessionInvariance, PTL

\* A session opened with an old password outlives the reset only as the issue,
\* or a successor of the issue, of a request that overlapped the reset.
THEOREM ResetsEndSessions == ServerSpec => []ResetEndsSessions
<1>1. SessionIInv => ResetEndsSessions
  BY DEF SessionIInv
<1> QED
  BY <1>1, SessionInvariance, PTL

-----------------------------------------------------------------------------
(***************************************************************************)
(* DashboardSessions.  The entry of a token stands for its one rotation:   *)
(* the leader's while it runs, its outcome once the token is rotated.  So  *)
(* nobody starts to lead on a rotated token unless its entry has lapsed.   *)
(***************************************************************************)
\* A session the browser was given, of a family it signed in to.
Mine(s) == s \in Sessions /\ Exists(s) /\ session[s].family \in families

SignedIn == \A f \in families : Exists(f)

TokensAreMine ==
    /\ cookie # None => Mine(cookie)
    /\ \A q \in Requests :
          /\ Phase(q) # "idle" => Mine(call[q].token)
          /\ call[q].got # None => Mine(call[q].got)
    /\ \A s \in Sessions : entry[s].got # None => Mine(entry[s].got)

\* The browser's calls have no request but their leader's refresh; the other
\* clients' requests lock sessions of other families.
RequestsApart ==
    \A q \in Requests :
        /\ Idle(q) => request[q].session = None
        /\ Phase(q) \notin {"idle", "leading"} => Idle(q)
        /\ Phase(q) = "leading" =>
              Idle(q) \/ request[q].session = call[q].token
        /\ Phase(q) = "idle" /\ request[q].session # None =>
              /\ Exists(request[q].session)
              /\ session[request[q].session].family \notin families

\* One rotation of a token at a time, until its entry lapses.
OneFlight ==
    \A q \in Requests :
        Phase(q) = "leading" /\ call[q].token \notin lapsed =>
            entry[call[q].token] = [leader |-> q, got |-> None]

\* A token of the browser that was rotated has its outcome in its entry.
OutcomeIsKept ==
    \A s \in Sessions \ lapsed :
        session[s].status = "rotated" /\ session[s].family \in families =>
            entry[s].got # None

BrowserInv ==
    /\ SignedIn
    /\ TokensAreMine
    /\ RequestsApart
    /\ OneFlight
    /\ OutcomeIsKept

BrowserIInv == DashboardTypeOK /\ BrowserInv

(***************************************************************************)
(* What the server's steps keep.                                           *)
(***************************************************************************)
\* A session, once issued, stays and keeps its family.
Kept ==
    \A s \in Sessions : Exists(s) => Exists(s)' /\ session'[s].family = session[s].family

LEMMA SessionsAreKept ==
    ASSUME SessionIInv, [ServerNext]_serverVars PROVE Kept
<1> USE DEF SessionIInv
<1>1. CASE Closing
  BY <1>1 DEF Closing, Kept
<1>2. ASSUME NEW r \in Requests, NEW n \in Sessions, Adds(r, n) PROVE Kept
  BY <1>2 DEF Adds, Kept, Exists
<1>3. ASSUME NEW r \in Requests, NEW n \in Sessions, NEW s \in Sessions, Replaces(r, n, s)
      PROVE  Kept
  BY <1>3 DEF Replaces, Kept, Exists
<1> QED
  BY <1>1, <1>2, <1>3, Closings, Logins, Refreshes

LEMMA MineIsKept ==
    ASSUME Kept, families \subseteq families'
    PROVE  /\ \A s : Mine(s) => Mine(s)'
           /\ (\A f \in families : f \in Sessions /\ Exists(f)) =>
                 \A f \in families : Exists(f)'
BY DEF Kept, Mine

\* Closing sessions, the outcomes stay complete.
LEMMA ClosingKeepsOutcomes ==
    ASSUME OutcomeIsKept, Closing, UNCHANGED families, lapsed \subseteq lapsed',
           \A s \in Sessions \ lapsed' : entry'[s] = entry[s]
    PROVE  OutcomeIsKept'
BY DEF OutcomeIsKept, Closing

\* A step of one request leaves the sessions of the others alone ...
LEMMA OtherRequests ==
    ASSUME ServerTypeOK, NEW r \in Requests, ServerStep(r), NEW q \in Requests \ {r}
    PROVE  request'[q].op = request[q].op /\ request'[q].session = request[q].session
<1>1. ASSUME NEW op \in Revoking, BeginRevocation(r, op)
      PROVE  request'[q].op = request[q].op /\ request'[q].session = request[q].session
  <2>1. request'[q] = IF op = "reset" /\ request[q].op \in Issuing
                      THEN [request[q] EXCEPT !.overlap = TRUE] ELSE request[q]
    BY <1>1 DEF BeginRevocation
  <2>2. request[q] \in RequestRows
    BY DEF ServerTypeOK
  <2> QED
    BY <2>1, <2>2, OverlapRow
<1>2. CASE \E new : request' = [request EXCEPT ![r] = new]
  BY <1>2 DEF ServerTypeOK
<1> QED
  BY <1>1, <1>2 DEF ServerStep, BeginLogin, BeginRefresh, CommitLogin, CommitRefresh,
     CommitRevocation, Abort, Done

\* ... and it comes to hold one only by reading it.
LEMMA OwnRequest ==
    ASSUME ServerTypeOK, NEW r \in Requests, ServerStep(r)
    PROVE  \/ request'[r].session = None
           \/ /\ ~Idle(r)' /\ session' = session
              /\ request'[r].session \in Sessions /\ Exists(request'[r].session)
<1>1. CASE Done(r)
  BY <1>1, IdleRow DEF Done, ServerTypeOK
<1>2. CASE BeginLogin(r)
  BY <1>2 DEF BeginLogin, NoRequest, ServerTypeOK
<1>3. ASSUME NEW s \in Sessions, BeginRefresh(r, s)
      PROVE  /\ ~Idle(r)' /\ session' = session
             /\ request'[r].session = s /\ Exists(s)
  BY <1>3 DEF BeginRefresh, NoRequest, Idle, ServerTypeOK
<1>4. ASSUME NEW op \in Revoking, BeginRevocation(r, op) PROVE request'[r].session = None
  BY <1>4 DEF BeginRevocation, NoRequest
<1> QED
  BY <1>1, <1>2, <1>3, <1>4 DEF ServerStep, CommitLogin, CommitRefresh, CommitRevocation, Abort

(***************************************************************************)
(* Steps of the browser and the proxy alone.                               *)
(***************************************************************************)
LEMMA CallRows ==
    /\ NoCall \in Calls /\ NoCall.phase = "idle" /\ NoCall.got = None
    /\ NoEntry \in Entries /\ NoEntry.leader = None /\ NoEntry.got = None
BY DEF NoCall, Calls, Phases, NoEntry, Entries

LEMMA CallStep ==
    ASSUME SessionIInv, BrowserIInv, NEW q \in Requests, NEW new \in Calls,
           call' = [call EXCEPT ![q] = new],
           UNCHANGED <<session, password, request, survivor, entry, lapsed, families>>,
           cookie' = None \/ Mine(cookie'),
           Phase(q) # "leading", new.phase # "leading",
           new.phase = "idle" \/ Mine(new.token),
           new.got = None \/ Mine(new.got),
           Idle(q)
    PROVE  BrowserIInv'
<1> USE DEF BrowserIInv, BrowserInv
<1>1. /\ call' \in [Requests -> Calls] /\ call'[q] = new
      /\ \A c \in Requests : c # q => call'[c] = call[c]
  BY DEF DashboardTypeOK
<1>2. DashboardTypeOK'
  <2>1. cookie' \in Sessions \cup {None}
    BY DEF Mine
  <2> QED
    BY <1>1, <2>1 DEF DashboardTypeOK, ServerTypeOK, SessionIInv
<1>3. SignedIn'
  BY DEF SignedIn, Exists
<1>4. \A s : Mine(s)' <=> Mine(s)
  BY DEF Mine, Exists
<1>5. TokensAreMine'
  <2>1. cookie' # None => Mine(cookie)'
    BY DEF Mine, Exists
  <2>2. ASSUME NEW c \in Requests
        PROVE  /\ call'[c].phase # "idle" => Mine(call'[c].token)
               /\ call'[c].got # None => Mine(call'[c].got)
    BY <1>1 DEF TokensAreMine, Phase
  <2>3. \A s \in Sessions : entry[s].got # None => Mine(entry[s].got)
    BY DEF TokensAreMine
  <2>4. \A s \in Sessions : (entry[s].got # None => Mine(entry[s].got))'
    BY <2>3 DEF Mine, Exists
  <2>5. \A c \in Requests : /\ (Phase(c) # "idle" => Mine(call[c].token))'
                            /\ (call[c].got # None => Mine(call[c].got))'
    BY <2>2 DEF Mine, Exists, Phase
  <2> QED
    BY <2>1, <2>4, <2>5 DEF TokensAreMine
<1>6. RequestsApart'
  BY <1>1 DEF RequestsApart, Phase, Idle, Exists
<1>7. OneFlight'
  BY <1>1 DEF OneFlight, Phase
<1>8. OutcomeIsKept'
  BY DEF OutcomeIsKept
<1> QED
  BY <1>2, <1>3, <1>5, <1>6, <1>7, <1>8

LEMMA TokensStep ==
    ASSUME Kept, TokensAreMine, families \subseteq families',
           cookie' = cookie \/ cookie' = None \/ Mine(cookie)',
           \A c \in Requests :
              /\ \/ call'[c].phase = "idle"
                 \/ (Phase(c) # "idle" /\ call'[c].token = call[c].token)
                 \/ Mine(call[c].token)'
              /\ \/ call'[c].got = None
                 \/ call'[c].got = call[c].got
                 \/ Mine(call[c].got)',
           \A s \in Sessions :
              entry'[s].got = None \/ entry'[s].got = entry[s].got \/ Mine(entry[s].got)'
    PROVE  TokensAreMine'
<1>1. \A s : Mine(s) => s \in Sessions /\ session'[s].status # "absent" /\ session'[s].family \in families'
  BY DEF Mine, Kept, Exists
<1>2. (cookie # None => Mine(cookie))'
  BY <1>1 DEF TokensAreMine, Mine, Exists
<1>3. \A c \in Requests : (Phase(c) # "idle" => Mine(call[c].token))'
  BY <1>1 DEF TokensAreMine, Mine, Exists, Phase
<1>4. \A c \in Requests : (call[c].got # None => Mine(call[c].got))'
  BY <1>1 DEF TokensAreMine, Mine, Exists
<1>5. \A s \in Sessions : (entry[s].got # None => Mine(entry[s].got))'
  BY <1>1 DEF TokensAreMine, Mine, Exists
<1> QED
  BY <1>2, <1>3, <1>4, <1>5 DEF TokensAreMine

\* A call starts the rotation of a token that has no entry, so none is under
\* way and none has ended.
LEMMA LeadStep ==
    ASSUME SessionIInv, BrowserIInv, NEW q \in Requests, Phase(q) = "sent",
           call' = [call EXCEPT ![q].phase = "leading"],
           entry[call[q].token] = NoEntry,
           entry' = [entry EXCEPT ![call[q].token] = [leader |-> q, got |-> None]],
           UNCHANGED <<session, password, request, survivor, cookie, lapsed, families>>
    PROVE  BrowserIInv'
<1> USE DEF BrowserIInv, BrowserInv
<1> DEFINE s == call[q].token
<1>1. s \in Sessions
  BY DEF TokensAreMine, Mine
<1>2. PICK mark : mark = [leader |-> q, got |-> None]
  OBVIOUS
<1>3. mark \in Entries /\ mark.leader = q /\ mark.got = None
  BY <1>2 DEF Entries
<1>4. /\ entry' \in [Sessions -> Entries] /\ entry'[s] = mark
      /\ \A t \in Sessions : t # s => entry'[t] = entry[t]
  BY <1>1, <1>2, <1>3 DEF DashboardTypeOK
<1>5. /\ call' \in [Requests -> Calls] /\ call'[q].phase = "leading"
      /\ call'[q].token = s /\ call'[q].got = call[q].got
      /\ \A c \in Requests : c # q => call'[c] = call[c]
  BY DEF DashboardTypeOK, Calls, Phases
<1>6. entry[s] = NoEntry
  OBVIOUS
<1> HIDE DEF s
<1>7. DashboardTypeOK'
  BY <1>4, <1>5 DEF DashboardTypeOK, ServerTypeOK, SessionIInv
<1>8. SignedIn' /\ Kept
  BY DEF SignedIn, Exists, Kept
<1>9. \A t \in Sessions : entry'[t].got = None \/ entry'[t].got = entry[t].got
  BY <1>3, <1>4
<1>10. TokensAreMine'
  BY <1>5, <1>8, <1>9, TokensStep DEF Phase
<1>11. RequestsApart'
  BY <1>5 DEF RequestsApart, Phase, Idle, Exists
<1>12. OneFlight'
  <2> SUFFICES ASSUME NEW c \in Requests, call'[c].phase = "leading", call'[c].token \notin lapsed
               PROVE  entry'[call'[c].token] = [leader |-> c, got |-> None]
    BY DEF OneFlight, Phase
  <2>1. CASE c = q
    BY <1>2, <1>4, <1>5, <2>1
  <2>2. CASE c # q
    <3>1. call[c] = call'[c] /\ call[c].token \in Sessions
      BY <1>5, <2>2 DEF TokensAreMine, Mine, Phase
    <3>2. entry[call[c].token] = [leader |-> c, got |-> None]
      BY <3>1 DEF OneFlight, Phase
    <3>3. call[c].token # s
      BY <1>6, <3>2, DashboardAssumption DEF NoEntry
    <3> QED
      BY <1>4, <3>1, <3>2, <3>3
  <2> QED
    BY <2>1, <2>2
<1>13. OutcomeIsKept'
  <2>1. entry[s].got = None
    BY <1>6, CallRows
  <2> QED
    BY <1>4, <2>1 DEF OutcomeIsKept
<1> QED
  BY <1>7, <1>8, <1>10, <1>11, <1>12, <1>13

LEMMA ExpiryStep ==
    ASSUME SessionIInv, BrowserIInv, NEW s \in Sessions, EntryExpires(s)
    PROVE  BrowserIInv'
<1> USE DEF BrowserIInv, BrowserInv
<1>1. /\ entry' = [entry EXCEPT ![s] = NoEntry] /\ lapsed' = lapsed \cup {s}
      /\ UNCHANGED <<session, password, request, survivor, cookie, call, families>>
  BY DEF EntryExpires
<1>2. /\ entry' \in [Sessions -> Entries] /\ entry'[s] = NoEntry
      /\ \A t \in Sessions : t # s => entry'[t] = entry[t]
  BY <1>1, CallRows DEF DashboardTypeOK
<1>3. DashboardTypeOK'
  BY <1>1, <1>2 DEF DashboardTypeOK, ServerTypeOK, SessionIInv
<1>4. SignedIn' /\ Kept
  BY <1>1 DEF SignedIn, Exists, Kept
<1>5. TokensAreMine'
  BY <1>1, <1>2, <1>4, CallRows, TokensStep DEF Phase
<1>6. RequestsApart'
  BY <1>1 DEF RequestsApart, Phase, Idle, Exists
<1>7. OneFlight'
  <2> SUFFICES ASSUME NEW c \in Requests, Phase(c) = "leading", call[c].token \notin lapsed'
               PROVE  entry'[call[c].token] = [leader |-> c, got |-> None]
    BY <1>1 DEF OneFlight, Phase
  <2>1. call[c].token \in Sessions /\ call[c].token # s /\ call[c].token \notin lapsed
    BY <1>1 DEF TokensAreMine, Mine
  <2> QED
    BY <1>2, <2>1 DEF OneFlight
<1>8. OutcomeIsKept'
  BY <1>1, <1>2 DEF OutcomeIsKept
<1> QED
  BY <1>3, <1>4, <1>5, <1>6, <1>7, <1>8

(***************************************************************************)
(* The answer of the API to the leader settles the call of every follower. *)
(***************************************************************************)
LEMMA SettledCalls ==
    ASSUME DashboardTypeOK, NEW q \in Requests, NEW phase \in {"rotated", "refused"},
           NEW t \in Sessions \cup {None}, Settle(q, phase, t)
    PROVE  /\ call' \in [Requests -> Calls]
           /\ \A c \in Requests :
                 \/ /\ c = q \/ Phase(c) = "following"
                    /\ call'[c].phase = phase /\ call'[c].got = t
                    /\ call'[c].token = call[c].token
                 \/ c # q /\ call'[c] = call[c]
<1>1. ASSUME NEW c \in Requests
      PROVE  /\ call'[c] \in Calls
             /\ \/ /\ c = q \/ Phase(c) = "following"
                   /\ call'[c].phase = phase /\ call'[c].got = t
                   /\ call'[c].token = call[c].token
                \/ c # q /\ call'[c] = call[c]
  <2>1. PICK new : new = [call[c] EXCEPT !.phase = phase, !.got = t, !.leader = None]
    OBVIOUS
  <2>2. call[c] \in Calls
    BY DEF DashboardTypeOK
  <2>3. new \in Calls /\ new.phase = phase /\ new.got = t /\ new.token = call[c].token
    BY <2>1, <2>2 DEF Calls, Phases
  <2>4. call'[c] = IF c = q \/ (Phase(c) = "following" /\ call[c].leader = q)
                   THEN new ELSE call[c]
    BY <2>1 DEF Settle
  <2> QED
    BY <2>2, <2>3, <2>4
<1>2. call' = [c \in Requests |-> call'[c]]
  BY DEF Settle
<1> QED
  BY <1>1, <1>2

LEMMA SettledStep ==
    ASSUME SessionIInv, BrowserIInv, Kept, ServerTypeOK', OutcomeIsKept',
           NEW q \in Requests, Phase(q) = "leading", Done(q),
           NEW phase \in {"rotated", "refused"}, NEW t \in Sessions \cup {None},
           Settle(q, phase, t), t # None => Mine(t)',
           entry' \in [Sessions -> Entries],
           \A s \in Sessions : \/ entry'[s] = entry[s]
                               \/ /\ s = call[q].token /\ Owns(q)
                                  /\ entry'[s].got \in {None, t},
           lapsed \subseteq lapsed', lapsed' \subseteq Sessions,
           UNCHANGED <<cookie, families>>
    PROVE  BrowserIInv'
<1> USE DEF BrowserIInv, BrowserInv
<1>1. /\ call' \in [Requests -> Calls]
      /\ \A c \in Requests :
            \/ /\ c = q \/ Phase(c) = "following"
               /\ call'[c].phase = phase /\ call'[c].got = t
               /\ call'[c].token = call[c].token
            \/ c # q /\ call'[c] = call[c]
  BY SettledCalls
<1>2. /\ request'[q].op = "idle" /\ request'[q].session = None
      /\ \A c \in Requests : c # q => request'[c] = request[c]
  BY IdleRow DEF Done, SessionIInv, ServerTypeOK
<1>3. DashboardTypeOK'
  BY <1>1 DEF DashboardTypeOK
<1>4. SignedIn'
  BY DEF SignedIn, DashboardTypeOK, Kept
<1>5. TokensAreMine'
  <2>1. ASSUME NEW c \in Requests
        PROVE  /\ \/ call'[c].phase = "idle"
                  \/ (Phase(c) # "idle" /\ call'[c].token = call[c].token)
                  \/ Mine(call[c].token)'
               /\ \/ call'[c].got = None
                  \/ call'[c].got = call[c].got
                  \/ Mine(call[c].got)'
    BY <1>1 DEF Phase, Mine, Exists
  <2>2. \A s \in Sessions :
            entry'[s].got = None \/ entry'[s].got = entry[s].got \/ Mine(entry[s].got)'
    BY DEF Mine, Exists
  <2> QED
    BY <2>1, <2>2, TokensStep
<1>6. RequestsApart'
  <2> SUFFICES ASSUME NEW c \in Requests
               PROVE  /\ request'[c].op = "idle" => request'[c].session = None
                      /\ call'[c].phase \notin {"idle", "leading"} => request'[c].op = "idle"
                      /\ call'[c].phase = "leading" =>
                            \/ request'[c].op = "idle"
                            \/ request'[c].session = call'[c].token
                      /\ call'[c].phase = "idle" /\ request'[c].session # None =>
                            /\ session'[request'[c].session].status # "absent"
                            /\ session'[request'[c].session].family \notin families
    BY DEF RequestsApart, Phase, Idle, Exists
  <2>1. CASE c = q
    BY <1>1, <1>2, <2>1 DEF Phase
  <2>2. CASE c # q /\ Phase(c) = "following"
    BY <1>1, <1>2, <2>2 DEF RequestsApart, Phase, Idle
  <2>3. CASE c # q /\ Phase(c) # "following"
    <3>1. call'[c] = call[c] /\ request'[c] = request[c]
      BY <1>1, <1>2, <2>3
    <3>2. request[c].session \in Sessions \cup {None}
      BY DEF SessionIInv, ServerTypeOK, RequestRows
    <3> QED
      BY <3>1, <3>2 DEF RequestsApart, Phase, Idle, Kept, Exists
  <2> QED
    BY <2>1, <2>2, <2>3
<1>7. OneFlight'
  <2> SUFFICES ASSUME NEW c \in Requests, call'[c].phase = "leading", call'[c].token \notin lapsed'
               PROVE  entry'[call'[c].token] = [leader |-> c, got |-> None]
    BY DEF OneFlight, Phase
  <2>1. c # q /\ call'[c] = call[c]
    BY <1>1
  <2>2. call[c].token \in Sessions /\ entry[call[c].token] = [leader |-> c, got |-> None]
    BY <2>1 DEF TokensAreMine, Mine, OneFlight, Phase
  <2>3. call[c].token = call[q].token => ~Owns(q)
    BY <2>1, <2>2 DEF Owns
  <2> QED
    BY <2>1, <2>2, <2>3
<1> QED
  BY <1>3, <1>4, <1>5, <1>6, <1>7

\* The leader's new token is of the family of the one it replaces.
LEMMA NewTokenIsMine ==
    ASSUME SessionIInv, BrowserIInv, NEW q \in Requests, Phase(q) = "leading",
           NEW t \in Sessions, CommitRefresh(q, t), families' = families
    PROVE  /\ Mine(t)' /\ Replaces(q, t, call[q].token) /\ call[q].token \in Sessions
<1> USE DEF BrowserIInv, BrowserInv, SessionIInv
<1>1. PICK s \in Sessions : Replaces(q, t, s)
  BY Refreshes
<1>2. s = call[q].token /\ Mine(s)
  BY <1>1 DEF Replaces, CommitRefresh, RequestsApart, Idle, TokensAreMine
<1> QED
  BY <1>1, <1>2 DEF Replaces, Mine, Exists

\* A rotation keeps the outcomes complete if the rotated token's is recorded,
\* has lapsed, or is of another family.
LEMMA RotationKeepsOutcomes ==
    ASSUME OutcomeIsKept, NEW r \in Requests, NEW n \in Sessions, NEW s \in Sessions,
           Replaces(r, n, s), UNCHANGED families, lapsed \subseteq lapsed',
           \A x \in Sessions \ lapsed' : x # s => entry'[x] = entry[x],
           s \in lapsed' \/ entry'[s].got # None \/ session[s].family \notin families
    PROVE  OutcomeIsKept'
BY DEF OutcomeIsKept, Replaces

LEMMA RotatedStep ==
    ASSUME SessionIInv, SessionIInv', Kept, BrowserIInv,
           NEW q \in Requests, NEW t \in Sessions, Rotated(q, t)
    PROVE  BrowserIInv'
<1> DEFINE s == call[q].token
<1>1. /\ Phase(q) = "leading" /\ CommitRefresh(q, t) /\ Done(q) /\ Settle(q, "rotated", t)
      /\ UNCHANGED <<cookie, lapsed, families>>
  BY DEF Rotated, CommitRefresh
<1>2. Mine(t)' /\ Replaces(q, t, s) /\ s \in Sessions
  BY <1>1, NewTokenIsMine
<1>3. PICK done : done = [leader |-> None, got |-> t]
  OBVIOUS
<1>4. done \in Entries /\ done.got = t
  BY <1>3 DEF Entries
<1>5. entry' = IF Owns(q) THEN [entry EXCEPT ![s] = done] ELSE entry
  BY <1>3 DEF Rotated
<1>6. entry \in [Sessions -> Entries] /\ lapsed \subseteq Sessions
  BY DEF BrowserIInv, DashboardTypeOK
<1>7. s \notin lapsed => Owns(q)
  <2>1. s \notin lapsed => entry[s] = [leader |-> q, got |-> None]
    BY <1>1 DEF BrowserIInv, BrowserInv, OneFlight
  <2> QED
    BY <2>1 DEF Owns
<1> HIDE DEF s
<1>8. /\ entry' \in [Sessions -> Entries]
      /\ Owns(q) => entry'[s] = done
      /\ ~Owns(q) => entry'[s] = entry[s]
      /\ \A x \in Sessions : x # s => entry'[x] = entry[x]
  BY <1>2, <1>4, <1>5, <1>6
<1>9. OutcomeIsKept'
  <2>1. s \in lapsed' \/ entry'[s].got # None
    BY <1>1, <1>4, <1>7, <1>8, SessionsAssumption
  <2> QED
    BY <1>1, <1>2, <1>8, <2>1, RotationKeepsOutcomes DEF BrowserIInv, BrowserInv
<1>10. \A x \in Sessions : \/ entry'[x] = entry[x]
                           \/ /\ x = call[q].token /\ Owns(q)
                              /\ entry'[x].got \in {None, t}
  BY <1>4, <1>8 DEF s
<1>11. ServerTypeOK'
  BY DEF SessionIInv
<1> QED
  BY <1>1, <1>2, <1>6, <1>8, <1>9, <1>10, <1>11, SettledStep

\* A rotation that failed, or whose answer was lost, lapses.
LEMMA FailedStep ==
    ASSUME SessionIInv, SessionIInv', Kept, BrowserIInv,
           NEW q \in Requests, Phase(q) = "leading", Failed(q), Done(q),
           \/ Closing
           \/ \E t \in Sessions : CommitRefresh(q, t)
    PROVE  BrowserIInv'
<1> DEFINE s == call[q].token
<1>1. /\ Settle(q, "refused", None) /\ lapsed' = lapsed \cup {s}
      /\ entry' = IF Owns(q) THEN [entry EXCEPT ![s] = NoEntry] ELSE entry
      /\ UNCHANGED <<cookie, families>>
  BY DEF Failed
<1>2. s \in Sessions
  BY DEF BrowserIInv, BrowserInv, TokensAreMine, Mine
<1>3. entry \in [Sessions -> Entries] /\ lapsed \subseteq Sessions
  BY DEF BrowserIInv, DashboardTypeOK
<1> HIDE DEF s
<1>4. /\ entry' \in [Sessions -> Entries]
      /\ entry'[s] = entry[s] \/ (Owns(q) /\ entry'[s] = NoEntry)
      /\ \A x \in Sessions : x # s => entry'[x] = entry[x]
  BY <1>1, <1>2, <1>3, CallRows
<1>5. OutcomeIsKept'
  <2>1. CASE Closing
    BY <1>1, <1>4, <2>1, ClosingKeepsOutcomes DEF BrowserIInv, BrowserInv
  <2>2. ASSUME NEW t \in Sessions, CommitRefresh(q, t) PROVE OutcomeIsKept'
    <3>1. Replaces(q, t, s)
      BY <1>1, <2>2, NewTokenIsMine DEF s
    <3> QED
      BY <1>1, <1>2, <1>4, <3>1, RotationKeepsOutcomes DEF BrowserIInv, BrowserInv
  <2> QED
    BY <2>1, <2>2
<1>6. \A x \in Sessions : \/ entry'[x] = entry[x]
                          \/ /\ x = call[q].token /\ Owns(q)
                             /\ entry'[x].got \in {None}
  BY <1>4, CallRows DEF s
<1>7. ServerTypeOK' /\ lapsed \subseteq lapsed' /\ lapsed' \subseteq Sessions
  BY <1>1, <1>2, <1>3 DEF SessionIInv
<1> QED
  BY <1>1, <1>4, <1>5, <1>6, <1>7, SettledStep

(***************************************************************************)
(* Steps of the server alone, and the login page.                          *)
(***************************************************************************)
LEMMA ServerAloneStep ==
    ASSUME SessionIInv, SessionIInv', Kept, BrowserIInv, UNCHANGED dashboardVars,
           OutcomeIsKept', RequestsApart'
    PROVE  BrowserIInv'
<1> USE DEF BrowserIInv, BrowserInv, dashboardVars
<1>1. DashboardTypeOK'
  BY DEF DashboardTypeOK, SessionIInv
<1>2. SignedIn'
  BY DEF SignedIn, DashboardTypeOK, Kept
<1>3. TokensAreMine'
  BY TokensStep DEF Phase
<1>4. OneFlight'
  BY DEF OneFlight, Phase
<1> QED
  BY <1>1, <1>2, <1>3, <1>4

\* Other requests hold what they held.
LEMMA RequestsStayApart ==
    ASSUME SessionIInv, BrowserIInv, Kept, UNCHANGED <<call, families>>, NEW r,
           \A q \in Requests \ {r} :
              request'[q].op = request[q].op /\ request'[q].session = request[q].session,
           r \in Requests =>
              /\ Idle(r)' => request'[r].session = None
              /\ Phase(r) \notin {"idle", "leading"} => Idle(r)'
              /\ Phase(r) = "leading" => request'[r].session = call[r].token
              /\ Phase(r) = "idle" /\ request'[r].session # None =>
                    /\ request'[r].session \in Sessions /\ Exists(request'[r].session)
                    /\ session[request'[r].session].family \notin families
    PROVE  RequestsApart'
<1> USE DEF BrowserIInv, BrowserInv
<1> SUFFICES ASSUME NEW c \in Requests
             PROVE  /\ request'[c].op = "idle" => request'[c].session = None
                    /\ Phase(c) \notin {"idle", "leading"} => request'[c].op = "idle"
                    /\ Phase(c) = "leading" =>
                          \/ request'[c].op = "idle"
                          \/ request'[c].session = call[c].token
                    /\ Phase(c) = "idle" /\ request'[c].session # None =>
                          /\ session'[request'[c].session].status # "absent"
                          /\ session'[request'[c].session].family \notin families
  BY DEF RequestsApart, Phase, Idle, Exists
<1>1. CASE c = r
  BY <1>1 DEF Idle, Kept, Exists
<1>2. CASE c # r
  <2>1. request[c].session \in Sessions \cup {None}
    BY DEF SessionIInv, ServerTypeOK, RequestRows
  <2> QED
    BY <1>2, <2>1 DEF RequestsApart, Phase, Idle, Kept, Exists
<1> QED
  BY <1>1, <1>2

LEMMA SessionsAlone ==
    ASSUME SessionIInv, SessionIInv', Kept, BrowserIInv, SessionStep, UNCHANGED dashboardVars
    PROVE  BrowserIInv'
<1>1. request' = request /\ UNCHANGED <<call, families>>
  BY DEF SessionStep, ExpireSession, RevokeOne, dashboardVars
<1>2. Closing
  BY OneCloses DEF SessionIInv, SessionStep, ExpireSession, RevokeOne, Active, Exists
<1>3. OutcomeIsKept'
  BY <1>2, ClosingKeepsOutcomes DEF BrowserIInv, BrowserInv, dashboardVars
<1>4. RequestsApart'
  <2> SUFFICES ASSUME NEW c \in Requests
               PROVE  /\ request[c].op = "idle" => request[c].session = None
                      /\ Phase(c) \notin {"idle", "leading"} => request[c].op = "idle"
                      /\ Phase(c) = "leading" =>
                            \/ request[c].op = "idle"
                            \/ request[c].session = call[c].token
                      /\ Phase(c) = "idle" /\ request[c].session # None =>
                            /\ session'[request[c].session].status # "absent"
                            /\ session'[request[c].session].family \notin families
    BY <1>1 DEF RequestsApart, Phase, Idle, Exists
  <2>1. request[c].session \in Sessions \cup {None}
    BY DEF SessionIInv, ServerTypeOK, RequestRows
  <2> QED
    BY <2>1 DEF BrowserIInv, BrowserInv, RequestsApart, Phase, Idle, Kept, Exists
<1> QED
  BY <1>3, <1>4, ServerAloneStep

LEMMA LeadingStep ==
    ASSUME SessionIInv, SessionIInv', Kept, BrowserIInv, NEW q \in Requests, Lead(q)
    PROVE  BrowserIInv'
<1>1. /\ Phase(q) = "leading" /\ BeginRefresh(q, call[q].token)
      /\ UNCHANGED dashboardVars /\ session' = session
      /\ call[q].token \in Sessions
  BY DEF Lead, BeginRefresh, BrowserIInv, BrowserInv, TokensAreMine, Mine
<1>2. request'[q].session = call[q].token /\ ~Idle(q)'
  BY <1>1 DEF BeginRefresh, NoRequest, Idle, SessionIInv, ServerTypeOK
<1>3. \A c \in Requests \ {q} : request'[c] = request[c]
  BY <1>1 DEF BeginRefresh, SessionIInv, ServerTypeOK
<1>4. RequestsApart'
  BY <1>1, <1>2, <1>3, RequestsStayApart DEF dashboardVars
<1>5. OutcomeIsKept'
  BY <1>1 DEF BrowserIInv, BrowserInv, OutcomeIsKept, dashboardVars
<1> QED
  BY <1>1, <1>4, <1>5, ServerAloneStep

\* A login opens a family that no session is of.
LEMMA LoginKeepsOutcomes ==
    ASSUME SessionIInv, OutcomeIsKept, NEW r \in Requests, NEW n \in Sessions, Adds(r, n),
           families \subseteq families', families' \subseteq families \cup {n},
           UNCHANGED <<entry, lapsed>>
    PROVE  OutcomeIsKept'
<1> SUFFICES ASSUME NEW s \in Sessions \ lapsed, session'[s].status = "rotated",
                    session'[s].family \in families'
             PROVE  entry[s].got # None
  BY DEF OutcomeIsKept
<1>1. s # n /\ session'[s] = session[s] /\ ~Exists(n)
  BY DEF Adds
<1>2. Exists(s) /\ session[s].family # n
  BY <1>1 DEF Exists, SessionIInv, FamilyInv
<1> QED
  BY <1>1, <1>2 DEF OutcomeIsKept

LEMMA ElsewhereStep ==
    ASSUME SessionIInv, SessionIInv', Kept, BrowserIInv, NEW r \in Requests, Elsewhere(r)
    PROVE  BrowserIInv'
<1>1. /\ Phase(r) = "idle" /\ ServerStep(r) /\ UNCHANGED dashboardVars /\ ServerTypeOK
      /\ request'[r].session # None => session[request'[r].session].family \notin families
  BY DEF Elsewhere, SessionIInv
<1>2. \A q \in Requests \ {r} :
          request'[q].op = request[q].op /\ request'[q].session = request[q].session
  BY <1>1, OtherRequests
<1>3. RequestsApart'
  <2>1. Idle(r)' => request'[r].session = None
    BY <1>1, OwnRequest
  <2>2. request'[r].session # None =>
            request'[r].session \in Sessions /\ Exists(request'[r].session)
    BY <1>1, OwnRequest
  <2> QED
    BY <1>1, <1>2, <2>1, <2>2, RequestsStayApart DEF dashboardVars
<1>4. OutcomeIsKept'
  <2> USE <1>1 DEF BrowserIInv, BrowserInv, dashboardVars
  <2>1. CASE Closing
    BY <2>1, ClosingKeepsOutcomes
  <2>2. ASSUME NEW n \in Sessions, CommitLogin(r, n) PROVE OutcomeIsKept'
    BY <2>2, Logins, LoginKeepsOutcomes
  <2>3. ASSUME NEW n \in Sessions, CommitRefresh(r, n) PROVE OutcomeIsKept'
    <3>1. PICK s \in Sessions : Replaces(r, n, s)
      BY <2>3, Refreshes DEF SessionIInv
    <3>2. s = request[r].session /\ s # None /\ session[s].family \notin families
      BY <3>1, SessionsAssumption DEF Replaces, RequestsApart
    <3> QED
      BY <3>1, <3>2, RotationKeepsOutcomes
  <2>4. CASE session' = session
    BY <2>4 DEF OutcomeIsKept
  <2>5. CASE CommitRevocation(r)
    BY <2>1, <2>5, RevocationCloses
  <2> QED
    BY <2>2, <2>3, <2>4, <2>5 DEF ServerStep, BeginLogin, BeginRefresh, BeginRevocation, Abort
<1> QED
  BY <1>1, <1>3, <1>4, ServerAloneStep

LEMMA SignInStep ==
    ASSUME SessionIInv, SessionIInv', Kept, BrowserIInv,
           NEW r \in Requests, NEW t \in Sessions, SignIn(r, t)
    PROVE  BrowserIInv'
<1> USE DEF BrowserIInv, BrowserInv
<1>1. /\ Phase(r) = "idle" /\ CommitLogin(r, t) /\ Done(r)
      /\ cookie' = t /\ families' = families \cup {t} /\ UNCHANGED <<call, entry, lapsed>>
  BY DEF SignIn, CommitLogin
<1>2. Adds(r, t)
  BY <1>1, Logins DEF SessionIInv
<1>3. Mine(t)' /\ ~Exists(t)
  BY <1>1, <1>2 DEF Adds, Mine, Exists
<1>4. DashboardTypeOK'
  BY <1>1 DEF DashboardTypeOK, SessionIInv
<1>5. SignedIn'
  BY <1>1, <1>3 DEF SignedIn, DashboardTypeOK, Kept, Mine
<1>6. TokensAreMine'
  BY <1>1, <1>3, TokensStep DEF Phase
<1>7. RequestsApart'
  <2> SUFFICES ASSUME NEW c \in Requests
               PROVE  /\ request'[c].op = "idle" => request'[c].session = None
                      /\ Phase(c) \notin {"idle", "leading"} => request'[c].op = "idle"
                      /\ Phase(c) = "leading" =>
                            \/ request'[c].op = "idle"
                            \/ request'[c].session = call[c].token
                      /\ Phase(c) = "idle" /\ request'[c].session # None =>
                            /\ session'[request'[c].session].status # "absent"
                            /\ session'[request'[c].session].family \notin families'
    BY <1>1 DEF RequestsApart, Phase, Idle, Exists
  <2>1. /\ request'[r].op = "idle" /\ request'[r].session = None
        /\ c # r => request'[c] = request[c]
    BY <1>1, IdleRow DEF Done, SessionIInv, ServerTypeOK
  <2>2. request[c].session \in Sessions \cup {None}
    BY DEF SessionIInv, ServerTypeOK, RequestRows
  <2>3. ASSUME c # r, Phase(c) = "idle", request[c].session # None
        PROVE  /\ session'[request[c].session].status # "absent"
               /\ session'[request[c].session].family \notin families'
    <3>1. PICK s \in Sessions : s = request[c].session
      BY <2>2, <2>3
    <3>2. Exists(s) /\ session[s].family \notin families
      BY <2>3, <3>1 DEF RequestsApart
    <3>3. session[s].family # t
      BY <1>3, <3>2 DEF SessionIInv, FamilyInv
    <3> QED
      BY <1>1, <3>1, <3>2, <3>3 DEF Kept, Exists
  <2>4. CASE c = r
    BY <1>1, <2>1, <2>4
  <2>5. CASE c # r
    BY <2>1, <2>3, <2>5 DEF RequestsApart, Phase, Idle
  <2> QED
    BY <2>4, <2>5
<1>8. OneFlight'
  BY <1>1 DEF OneFlight, Phase
<1>9. OutcomeIsKept'
  BY <1>1, <1>2, LoginKeepsOutcomes
<1> QED
  BY <1>4, <1>5, <1>6, <1>7, <1>8, <1>9

\* The browser sends its cookie, and takes what its call was answered with.
LEMMA SendStep ==
    ASSUME SessionIInv, BrowserIInv, NEW q \in Requests, SendCall(q)
    PROVE  BrowserIInv'
<1>1. PICK new : new = [NoCall EXCEPT !.phase = "sent", !.token = cookie]
  OBVIOUS
<1>2. /\ Phase(q) = "idle" /\ Idle(q) /\ cookie # None /\ call' = [call EXCEPT ![q] = new]
      /\ UNCHANGED <<session, password, request, survivor, cookie, entry, lapsed, families>>
  BY <1>1 DEF SendCall
<1>3. Mine(cookie) /\ cookie \in Sessions
  BY <1>2 DEF BrowserIInv, BrowserInv, TokensAreMine, Mine
<1>4. new \in Calls /\ new.phase = "sent" /\ new.token = cookie /\ new.got = None
  BY <1>1, <1>3 DEF NoCall, Calls, Phases
<1> QED
  BY <1>2, <1>3, <1>4, CallStep DEF Mine

LEMMA AnsweredStep ==
    ASSUME SessionIInv, BrowserIInv, NEW q \in Requests, Served(q) \/ Respond(q)
    PROVE  BrowserIInv'
<1>1. /\ Phase(q) \notin {"idle", "leading"}
      /\ cookie' \in {call[q].got, cookie} /\ call' = [call EXCEPT ![q] = NoCall]
      /\ UNCHANGED <<session, password, request, survivor, entry, lapsed, families>>
  BY DEF Served, Respond
<1>2. Idle(q) /\ (cookie' = None \/ Mine(cookie'))
  BY <1>1 DEF BrowserIInv, BrowserInv, TokensAreMine, RequestsApart
<1> QED
  BY <1>1, <1>2, CallRows, CallStep

LEMMA UnauthorizedStep ==
    ASSUME SessionIInv, BrowserIInv, NEW q \in Requests, Unauthorized(q)
    PROVE  BrowserIInv'
<1> DEFINE sent == call[q].token
           shared == entry[sent]
<1>1. /\ Phase(q) = "sent"
      /\ UNCHANGED <<session, password, request, survivor, cookie, lapsed, families>>
  BY DEF Unauthorized
<1>2. /\ Idle(q) /\ Mine(sent) /\ sent \in Sessions
      /\ call[q].got = None \/ Mine(call[q].got)
      /\ shared.got = None \/ Mine(shared.got)
      /\ cookie' = None \/ Mine(cookie')
  BY <1>1 DEF BrowserIInv, BrowserInv, TokensAreMine, RequestsApart, Mine
<1>3. shared \in Entries /\ call[q] \in Calls
  BY <1>2 DEF BrowserIInv, DashboardTypeOK
<1>4. CASE /\ shared.got # None
           /\ call' = [call EXCEPT ![q].phase = "rotated", ![q].got = shared.got]
           /\ UNCHANGED entry
  <2>1. PICK new : new = [call[q] EXCEPT !.phase = "rotated", !.got = shared.got]
    OBVIOUS
  <2>2. /\ new \in Calls /\ new.phase = "rotated" /\ new.token = sent
        /\ new.got = shared.got
    BY <1>3, <2>1 DEF Calls, Phases, Entries
  <2>3. call' = [call EXCEPT ![q] = new]
    BY <1>4, <2>1 DEF BrowserIInv, DashboardTypeOK
  <2> HIDE DEF sent, shared
  <2> QED
    BY <1>1, <1>2, <1>4, <2>2, <2>3, CallStep
<1>5. CASE /\ shared.got = None
           /\ call' = [call EXCEPT ![q].phase = "following", ![q].leader = shared.leader]
           /\ UNCHANGED entry
  <2>1. PICK new : new = [call[q] EXCEPT !.phase = "following", !.leader = shared.leader]
    OBVIOUS
  <2>2. /\ new \in Calls /\ new.phase = "following" /\ new.token = sent
        /\ new.got = call[q].got
    BY <1>3, <2>1 DEF Calls, Phases, Entries
  <2>3. call' = [call EXCEPT ![q] = new]
    BY <1>5, <2>1 DEF BrowserIInv, DashboardTypeOK
  <2> HIDE DEF sent, shared
  <2> QED
    BY <1>1, <1>2, <1>5, <2>2, <2>3, CallStep
<1>6. CASE /\ ~Shares(sent)
           /\ call' = [call EXCEPT ![q].phase = "leading"]
           /\ entry' = [entry EXCEPT ![sent] = [leader |-> q, got |-> None]]
  BY <1>1, <1>6, LeadStep DEF Shares
<1> QED
  BY <1>4, <1>5, <1>6 DEF Unauthorized

(***************************************************************************)
(* The server behind the dashboard is the server of Sessions.              *)
(***************************************************************************)
LEMMA DashboardServes ==
    ASSUME BrowserIInv, [DashboardNext]_<<serverVars, dashboardVars>>
    PROVE  [ServerNext]_serverVars
<1>1. ASSUME NEW q \in Requests, Lead(q) PROVE ServerNext
  <2>1. call[q].token \in Sessions
    BY <1>1 DEF Lead, BrowserIInv, BrowserInv, TokensAreMine, Mine
  <2> QED
    BY <1>1, <2>1 DEF Lead, ServerNext, ServerStep
<1>2. ASSUME NEW q \in Requests, SendCall(q) \/ Served(q) \/ Unauthorized(q) \/ Respond(q)
      PROVE  UNCHANGED serverVars
  BY <1>2 DEF serverVars, SendCall, Served, Unauthorized, Respond
<1>3. ASSUME NEW q \in Requests, Refused(q) \/ Unheard(q) \/ Elsewhere(q) PROVE ServerNext
  BY <1>3 DEF Refused, Unheard, Elsewhere, ServerNext, ServerStep
<1>4. ASSUME NEW q \in Requests, NEW t \in Sessions, SignIn(q, t) \/ Rotated(q, t)
      PROVE  ServerNext
  BY <1>4 DEF SignIn, Rotated, ServerNext, ServerStep
<1>5. ASSUME NEW s \in Sessions, EntryExpires(s) PROVE UNCHANGED serverVars
  BY <1>5 DEF serverVars, EntryExpires
<1>6. SessionStep => ServerNext
  BY DEF ServerNext
<1> QED
  BY <1>1, <1>2, <1>3, <1>4, <1>5, <1>6 DEF DashboardNext

LEMMA BrowserBegins == DashboardInit => BrowserIInv
<1> SUFFICES ASSUME DashboardInit PROVE BrowserIInv
  OBVIOUS
<1>1. SessionIInv
  BY SessionsBegin DEF DashboardInit
<1> QED
  BY <1>1, CallRows, IdleRow
     DEF DashboardInit, ServerInit, SessionIInv, BrowserIInv, BrowserInv, DashboardTypeOK, SignedIn,
         TokensAreMine, RequestsApart, OneFlight, OutcomeIsKept, Phase, Idle

LEMMA BrowserStep ==
    ASSUME SessionIInv, SessionIInv', BrowserIInv,
           [DashboardNext]_<<serverVars, dashboardVars>>
    PROVE  BrowserIInv'
<1>1. Kept
  BY DashboardServes, SessionsAreKept
<1>2. ASSUME NEW q \in Requests, Refused(q) PROVE BrowserIInv'
  <2>1. Closing
    BY <1>2, RevocationCloses DEF Refused, SessionIInv
  <2> QED
    BY <1>1, <1>2, <2>1, FailedStep DEF Refused, CommitRevocation
<1>3. ASSUME NEW q \in Requests, Unheard(q) PROVE BrowserIInv'
  <2>1. Phase(q) = "leading" /\ Failed(q) /\ Done(q)
    BY <1>3 DEF Unheard, Abort, CommitRefresh
  <2>2. Closing \/ \E t \in Sessions : CommitRefresh(q, t)
    BY <1>3, SameCloses DEF Unheard, Abort, SessionIInv
  <2> QED
    BY <1>1, <2>1, <2>2, FailedStep
<1>4. CASE UNCHANGED <<serverVars, dashboardVars>>
  <2>1. /\ UNCHANGED <<session, password, request, survivor>>
        /\ UNCHANGED <<cookie, call, entry, lapsed, families>>
    BY <1>4 DEF serverVars, dashboardVars
  <2>2. OutcomeIsKept' /\ RequestsApart'
    BY <2>1 DEF BrowserIInv, BrowserInv, OutcomeIsKept, RequestsApart, Phase, Idle, Exists
  <2> QED
    BY <1>1, <1>4, <2>2, ServerAloneStep
<1> QED
  BY <1>1, <1>2, <1>3, <1>4, SessionsAlone, SendStep, AnsweredStep, UnauthorizedStep, LeadingStep,
     RotatedStep, ElsewhereStep, SignInStep, ExpiryStep
     DEF DashboardNext

LEMMA BrowserInvariance == DashboardSpec => [](SessionIInv /\ BrowserIInv)
<1>1. DashboardInit => SessionIInv /\ BrowserIInv
  BY SessionsBegin, BrowserBegins DEF DashboardInit
<1>2. SessionIInv /\ BrowserIInv /\ [DashboardNext]_<<serverVars, dashboardVars>> => SessionIInv'
  BY DashboardServes, SessionStepHolds
<1>3. SessionIInv /\ BrowserIInv /\ [DashboardNext]_<<serverVars, dashboardVars>> =>
          (SessionIInv /\ BrowserIInv)'
  BY <1>2, BrowserStep
<1> QED
  BY <1>1, <1>3, PTL DEF DashboardSpec

\* The sessions, the browser, its calls and the shared rotations keep their types.
THEOREM DashboardTypeCorrect == DashboardSpec => []DashboardTypeOK
<1>1. BrowserIInv => DashboardTypeOK
  BY DEF BrowserIInv
<1> QED
  BY <1>1, BrowserInvariance, PTL

LEMMA BrowserKeepsPromise == ASSUME BrowserIInv PROVE NoSelfInflictedReuse
<1> USE DEF BrowserIInv, BrowserInv
<1> SUFFICES ASSUME NEW q \in Requests, Phase(q) = "leading",
                    session[call[q].token].status = "rotated",
                    call[q].token \notin lapsed
             PROVE  FALSE
  BY DEF NoSelfInflictedReuse
<1>1. call[q].token \in Sessions /\ session[call[q].token].family \in families
  BY DEF TokensAreMine, Mine
<1>2. entry[call[q].token].got # None
  BY <1>1 DEF OutcomeIsKept
<1>3. entry[call[q].token] = [leader |-> q, got |-> None]
  BY DEF OneFlight
<1> QED
  BY <1>2, <1>3

\* However many calls run at once and in whatever order their answers set the
\* cookie, the dashboard presents a token that it has rotated only when the
\* rotation failed or outlived its entry.
THEOREM NoReuseByConcurrency == DashboardSpec => []NoSelfInflictedReuse
BY BrowserInvariance, BrowserKeepsPromise, PTL

-----------------------------------------------------------------------------
(***************************************************************************)
(* Theorems about AccountTokens, for any number of tokens and requests.    *)
(* The row lock keeps the token a confirmation has checked pending until   *)
(* it is used, and using it leaves no other token pending that its UPDATE  *)
(* saw: so of tokens that were pending together the second can never be    *)
(* used any more, unless it was issued after that UPDATE.                  *)
(***************************************************************************)

Confirming(h) == handler[h].op \in {"confirm", "revoke"}

\* A confirmation holds the lock of a token that is still pending.
TokenLockInv ==
    \A h \in Handlers :
        /\ Confirming(h) => handler[h].token \in Tokens /\ token[handler[h].token] = "pending"
        /\ ~Confirming(h) => handler[h].token = None
        /\ \A g \in Handlers : handler[g].token = handler[h].token =>
              g = h \/ ~Confirming(h)

\* A used token leaves none of those it was pending with usable.
TogetherInv ==
    \A t, u \in Tokens :
        (t # u /\ {t, u} \in together) =>
            /\ token[t] # "absent"
            /\ token[t] = "used" /\ {t, u} \notin missed =>
                  token[u] \notin {"pending", "used"}

TokenIInv == TokenTypeOK /\ TokenLockInv /\ TogetherInv

LEMMA IdleHandler ==
    /\ NoHandler \in HandlerRows /\ NoHandler.token = None
    /\ NoHandler.op \notin {"confirm", "revoke"}
BY DEF NoHandler, HandlerRows

LEMMA SamePair ==
    ASSUME NEW t, NEW u, NEW x, NEW y, x # y, {x, y} = {t, u}
    PROVE  (x = t /\ y = u) \/ (x = u /\ y = t)
OBVIOUS

LEMMA TokensBegin == TokenInit => TokenIInv
BY IdleHandler DEF TokenInit, TokenIInv, TokenTypeOK, TokenStates, TokenLockInv, TogetherInv, Confirming

LEMMA TokenTypeStep == ASSUME TokenIInv, [TokenNext]_tokenVars PROVE TokenTypeOK'
<1> USE DEF TokenIInv, TokenTypeOK
<1>1. CASE UNCHANGED tokenVars
  BY <1>1 DEF tokenVars
<1>2. ASSUME NEW h \in Handlers, BeginIssue(h) PROVE TokenTypeOK'
  <2>1. [NoHandler EXCEPT !.op = "issue", !.sees = Pending] \in HandlerRows
    BY DEF NoHandler, HandlerRows, Pending
  <2> QED
    BY <1>2, <2>1 DEF BeginIssue
<1>3. ASSUME NEW h \in Handlers, NEW t \in Tokens, CommitIssue(h, t) PROVE TokenTypeOK'
  BY <1>3, IdleHandler DEF CommitIssue, Finish, Revoked, Pending, TokenStates
<1>4. ASSUME NEW h \in Handlers, NEW t \in Tokens, BeginConfirm(h, t) PROVE TokenTypeOK'
  <2>1. [NoHandler EXCEPT !.op = "confirm", !.token = t] \in HandlerRows
    BY DEF NoHandler, HandlerRows
  <2> QED
    BY <1>4, <2>1 DEF BeginConfirm
<1>5. ASSUME NEW h \in Handlers, CommitConfirm(h) PROVE TokenTypeOK'
  <2>1. PICK t \in Tokens : handler[h].token = t
    BY <1>5 DEF CommitConfirm, TokenLockInv, Confirming
  <2>2. missed' \subseteq SUBSET Tokens
    BY <1>5, <2>1 DEF CommitConfirm, Pending
  <2> QED
    BY <1>5, <2>2, IdleHandler DEF CommitConfirm, Finish, Revoked, Pending, TokenStates
<1>6. ASSUME NEW h \in Handlers, GiveUp(h) PROVE TokenTypeOK'
  BY <1>6, IdleHandler DEF GiveUp, Finish
<1>7. ASSUME NEW h \in Handlers, RevokeOthers(h) PROVE TokenTypeOK'
  <2>1. [op |-> "revoke", token |-> handler[h].token, sees |-> Pending \ {handler[h].token}]
            \in HandlerRows
    BY DEF HandlerRows, Pending
  <2> QED
    BY <1>7, <2>1 DEF RevokeOthers
<1> QED
  BY <1>1, <1>2, <1>3, <1>4, <1>5, <1>6, <1>7 DEF TokenNext

LEMMA TokenLockStep == ASSUME TokenIInv, [TokenNext]_tokenVars PROVE TokenLockInv'
<1> USE DEF TokenIInv, TokenTypeOK, Confirming
<1>1. CASE UNCHANGED tokenVars
  BY <1>1 DEF tokenVars, TokenLockInv
<1>2. ASSUME NEW h \in Handlers, BeginIssue(h) PROVE TokenLockInv'
  <2>1. /\ [NoHandler EXCEPT !.op = "issue", !.sees = Pending].op = "issue"
        /\ [NoHandler EXCEPT !.op = "issue", !.sees = Pending].token = None
    BY DEF NoHandler
  <2> QED
    BY <1>2, <2>1 DEF BeginIssue, TokenLockInv
<1>3. ASSUME NEW h \in Handlers, NEW t \in Tokens, CommitIssue(h, t) PROVE TokenLockInv'
  <2>1. ASSUME NEW g \in Handlers, Confirming(g), g # h
        PROVE  handler[g].token \notin handler[h].sees /\ handler[g].token # t
    BY <1>3, <2>1 DEF CommitIssue, Held, TokenLockInv
  <2> QED
    BY <1>3, <2>1, IdleHandler DEF CommitIssue, Finish, Revoked, TokenLockInv
<1>4. ASSUME NEW h \in Handlers, NEW t \in Tokens, BeginConfirm(h, t) PROVE TokenLockInv'
  <2>1. /\ [NoHandler EXCEPT !.op = "confirm", !.token = t].op = "confirm"
        /\ [NoHandler EXCEPT !.op = "confirm", !.token = t].token = t
    BY DEF NoHandler
  <2>2. \A g \in Handlers : g # h => handler[g].token # t
    BY <1>4 DEF BeginConfirm, Held
  <2> QED
    BY <1>4, <2>1, <2>2 DEF BeginConfirm, TokenLockInv
<1>5. ASSUME NEW h \in Handlers, CommitConfirm(h) PROVE TokenLockInv'
  <2>1. ASSUME NEW g \in Handlers, Confirming(g), g # h
        PROVE  /\ handler[g].token \notin handler[h].sees
               /\ handler[g].token # handler[h].token
    BY <1>5, <2>1 DEF CommitConfirm, Held, TokenLockInv
  <2> QED
    BY <1>5, <2>1, IdleHandler, TokensAssumption DEF CommitConfirm, Finish, Revoked, TokenLockInv
<1>6. ASSUME NEW h \in Handlers, GiveUp(h) PROVE TokenLockInv'
  BY <1>6, IdleHandler, TokensAssumption DEF GiveUp, Finish, TokenLockInv
<1>7. ASSUME NEW h \in Handlers, RevokeOthers(h) PROVE TokenLockInv'
  BY <1>7 DEF RevokeOthers, TokenLockInv
<1> QED
  BY <1>1, <1>2, <1>3, <1>4, <1>5, <1>6, <1>7 DEF TokenNext

LEMMA TogetherStep == ASSUME TokenIInv, [TokenNext]_tokenVars PROVE TogetherInv'
<1> USE DEF TokenIInv, TokenTypeOK
<1>1. CASE UNCHANGED <<token, together, missed>>
  BY <1>1 DEF TogetherInv
<1>2. ASSUME NEW h \in Handlers, NEW n \in Tokens, CommitIssue(h, n) PROVE TogetherInv'
  <2>1. \A x \in Tokens :
           /\ token'[x] = IF x = n THEN "pending"
                          ELSE IF x \in handler[h].sees \cap Pending THEN "revoked" ELSE token[x]
    BY <1>2 DEF CommitIssue, Revoked
  <2>2. ASSUME NEW x \in Tokens, NEW y \in Tokens, x # y, {x, y} \in together
        PROVE  /\ token'[x] # "absent"
               /\ token'[x] = "used" /\ {x, y} \notin missed =>
                     token'[y] \notin {"pending", "used"}
    <3>1. token[x] # "absent" /\ token[y] # "absent" /\ token[n] = "absent"
      <4>1. {y, x} \in together
        BY <2>2
      <4> QED
        BY <1>2, <2>2, <4>1 DEF TogetherInv, CommitIssue
    <3> QED
      BY <2>1, <2>2, <3>1 DEF TogetherInv
  <2>3. ASSUME NEW x \in Tokens, NEW y \in Tokens, x # y,
               NEW u \in Pending \ handler[h].sees, {x, y} = {n, u}
        PROVE  token'[x] # "absent" /\ token'[x] # "used"
    BY <2>1, <2>3, SamePair DEF Pending
  <2>4. together' = together \cup {{n, u} : u \in Pending \ handler[h].sees} /\ missed' = missed
    BY <1>2 DEF CommitIssue
  <2> QED
    BY <2>2, <2>3, <2>4 DEF TogetherInv
<1>3. ASSUME NEW h \in Handlers, CommitConfirm(h) PROVE TogetherInv'
  <2>1. PICK t \in Tokens : handler[h].token = t /\ token[t] = "pending"
    BY <1>3 DEF CommitConfirm, TokenLockInv, Confirming
  <2>2. \A x \in Tokens :
           token'[x] = IF x = t THEN "used"
                       ELSE IF x \in handler[h].sees \cap Pending THEN "revoked" ELSE token[x]
    BY <1>3, <2>1 DEF CommitConfirm, Revoked
  <2>3. missed \subseteq missed'
    BY <1>3 DEF CommitConfirm
  <2>4. \A x \in Tokens :
           x # t /\ token[x] = "pending" /\ x \notin handler[h].sees => {t, x} \in missed'
    BY <1>3, <2>1 DEF CommitConfirm, Pending
  <2>5. ASSUME NEW x \in Tokens, NEW y \in Tokens, x # y, {x, y} \in together
        PROVE  /\ token'[x] # "absent"
               /\ token'[x] = "used" /\ {x, y} \notin missed' =>
                     token'[y] \notin {"pending", "used"}
    <3>1. {y, x} = {x, y}
      OBVIOUS
    <3>2. token[x] # "absent"
      BY <2>5 DEF TogetherInv
    <3>3. ASSUME {x, y} \notin missed'
          PROVE  /\ token[x] = "used" => token[y] \notin {"pending", "used"}
                 /\ token[y] = "used" => token[x] \notin {"pending", "used"}
      BY <2>5, <2>3, <3>1, <3>3 DEF TogetherInv
    <3>4. ASSUME token'[x] = "used", {x, y} \notin missed', token'[y] \in {"pending", "used"}
          PROVE  FALSE
      <4>1. CASE x = t
        <5>1. y # t /\ (token[y] = "pending" \/ token[y] = "used")
          BY <2>1, <2>2, <2>5, <3>4, <4>1
        <5>2. token[y] = "pending" => y \in handler[h].sees
          BY <2>4, <3>4, <4>1, <5>1
        <5> QED
          BY <2>1, <2>2, <3>3, <3>4, <4>1, <5>1, <5>2 DEF Pending
      <4>2. CASE x # t
        <5>1. token[x] = "used"
          BY <2>2, <3>4, <4>2
        <5>2. y # t
          BY <2>1, <3>3, <3>4, <5>1
        <5> QED
          BY <2>2, <3>3, <3>4, <5>1, <5>2
      <4> QED
        BY <4>1, <4>2
    <3> QED
      BY <2>2, <3>2, <3>4
  <2>6. together' = together
    BY <1>3 DEF CommitConfirm
  <2> QED
    BY <2>5, <2>6 DEF TogetherInv
<1> QED
  BY <1>1, <1>2, <1>3 DEF TokenNext, tokenVars, BeginIssue, BeginConfirm, RevokeOthers, GiveUp

LEMMA TokenInvariance == TokenSpec => []TokenIInv
<1>1. TokenIInv /\ [TokenNext]_tokenVars => TokenIInv'
  BY TokenTypeStep, TokenLockStep, TogetherStep DEF TokenIInv
<1> QED
  BY TokensBegin, <1>1, PTL DEF TokenSpec

\* The rows and the transactions keep their types.
THEOREM TokenTypeCorrect == TokenSpec => []TokenTypeOK
<1>1. TokenIInv => TokenTypeOK
  BY DEF TokenIInv
<1> QED
  BY <1>1, TokenInvariance, PTL

\* Whatever requests and confirmations run at once, of mailed tokens that were
\* pending at the same time at most one is ever used, unless the other one was
\* issued after the UPDATE that was to revoke it.
THEOREM OneTokenIsUsed == TokenSpec => []OneTokenOfAllPending
<1>1. TokenIInv => OneTokenOfAllPending
  BY DEF TokenIInv, TogetherInv, OneTokenOfAllPending
<1> QED
  BY <1>1, TokenInvariance, PTL

=============================================================================
