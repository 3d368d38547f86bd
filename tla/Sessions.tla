------------------------------ MODULE Sessions ------------------------------
(***************************************************************************)
(* The sessions of one user (app/auth.py).  Login opens a family of        *)
(* sessions, refresh replaces the active member of a family, and logout,   *)
(* reuse detection, "revoke all" and a password reset close sessions.      *)
(* Login verifies the password before it writes; refresh holds a row lock; *)
(* the broad revocations are UPDATE statements that see the rows committed *)
(* when they start, wait for locked ones and skip those no longer active.  *)
(***************************************************************************)
EXTENDS Naturals, Null

CONSTANTS
    Sessions,       \* lynxpay_auth_sessions rows, one per refresh token
    Requests,       \* API requests in progress
    MaxResets       \* bound: password resets

ASSUME SessionsAssumption == MaxResets \in Nat /\ None \notin Sessions

VARIABLES
    session,    \* the session rows
    password,   \* the version of the user's password_hash
    request,    \* the transaction of each request
    survivor    \* sessions issued by a request that overlapped the last reset

serverVars == <<session, password, request, survivor>>

SessionStates == {"absent", "active", "rotated", "revoked", "expired"}

\* "secret": the password version the family was opened with.
SessionRows ==
    [status : SessionStates, family : Sessions \cup {None}, secret : 0..MaxResets]

\* A transaction: "session" is the locked row, "sees" the active rows an
\* UPDATE found, "overlap" whether it began before a reset it may outlive.
Issuing  == {"login", "refresh"}
Revoking == {"reuse", "all", "reset"}
RequestRows ==
    [op : Issuing \cup Revoking \cup {"idle"}, session : Sessions \cup {None},
     sees : SUBSET Sessions, secret : 0..MaxResets, overlap : BOOLEAN]

NoRequest ==
    [op |-> "idle", session |-> None, sees |-> {}, secret |-> 0, overlap |-> FALSE]

ServerTypeOK ==
    /\ session \in [Sessions -> SessionRows]
    /\ password \in 0..MaxResets
    /\ request \in [Requests -> RequestRows]
    /\ survivor \subseteq Sessions

ServerInit ==
    /\ session = [s \in Sessions |-> [status |-> "absent", family |-> None, secret |-> 0]]
    /\ password = 0
    /\ request = [r \in Requests |-> NoRequest]
    /\ survivor = {}

Exists(s) == session[s].status # "absent"
Active(s) == session[s].status = "active"
Idle(r) == request[r].op = "idle"

\* with_for_update on the session row, held to the end of the transaction.
LockedNever(s) == FALSE                     \* mutant: no row lock
Locked(s) == \E r \in Requests : request[r].session = s

\* A reset began its UPDATE of the sessions and is not committed.  It writes the
\* user row only when it commits, so it keeps no login out.
Resetting == \E r \in Requests : request[r].op = "reset"

Done(r) == request' = [request EXCEPT ![r] = NoRequest]

(***************************************************************************)
(* Sessions are issued by login and refresh (_issue_tokens).               *)
(***************************************************************************)
Issue(r, t, family, secret) ==
    /\ ~Exists(t)
    /\ survivor' = IF request[r].overlap \/ request[r].session \in survivor
                   THEN survivor \cup {t} ELSE survivor
    /\ UNCHANGED password

BeginLogin(r) ==
    /\ Idle(r)
    /\ request' = [request EXCEPT ![r] =
            [NoRequest EXCEPT !.op = "login", !.secret = password, !.overlap = Resetting]]
    /\ UNCHANGED <<session, password, survivor>>

CommitLogin(r, t) ==
    /\ request[r].op = "login"
    /\ Issue(r, t, t, request[r].secret)
    /\ session' = [session EXCEPT ![t] =
            [status |-> "active", family |-> t, secret |-> request[r].secret]]
    /\ Done(r)

\* An active session is replaced, any other one is a reuse of its token.
BeginRefresh(r, s) ==
    LET family == {x \in Sessions : session[x].family = session[s].family}
    IN  /\ Idle(r)
        /\ Exists(s) /\ ~Locked(s)
        /\ request' = [request EXCEPT ![r] =
              IF Active(s)
              THEN [NoRequest EXCEPT !.op = "refresh", !.session = s, !.overlap = Resetting]
              ELSE [NoRequest EXCEPT !.op = "reuse", !.session = s,
                                     !.sees = {x \in family : Active(x)}]]
        /\ UNCHANGED <<session, password, survivor>>

CommitRefresh(r, t) ==
    LET s == request[r].session IN
    /\ request[r].op = "refresh"
    /\ Issue(r, t, session[s].family, session[s].secret)
    /\ session' = [session EXCEPT ![s].status = "rotated", ![t] =
            [session[s] EXCEPT !.status = "active"]]
    /\ Done(r)

\* refresh of a session whose time has passed
ExpireSession(s) ==
    /\ Active(s) /\ ~Locked(s)
    /\ session' = [session EXCEPT ![s].status = "expired"]
    /\ UNCHANGED <<password, request, survivor>>

(***************************************************************************)
(* Sessions are closed.                                                    *)
(***************************************************************************)
\* logout and revoke_session: one row, by its key, whatever its status.
RevokeOne(s) ==
    /\ Exists(s) /\ ~Locked(s)
    /\ session' = [session EXCEPT ![s].status = "revoked"]
    /\ UNCHANGED <<password, request, survivor>>

\* mutant: the reset forgets the sessions
SeenExceptByReset(op) == IF op = "reset" THEN {} ELSE {s \in Sessions : Active(s)}
Seen(op) == {s \in Sessions : Active(s)}

\* revoke_all_sessions and confirm_password_reset.  Two resets never run at the
\* same time: each first revokes the other pending reset tokens, and the one
\* that sees the locked token of the other waits for its commit.
BeginRevocation(r, op) ==
    /\ Idle(r)
    /\ op \in {"all", "reset"}
    /\ op = "reset" => ~Resetting /\ password < MaxResets
    /\ request' = [q \in Requests |->
            IF q = r THEN [NoRequest EXCEPT !.op = op, !.sees = Seen(op)]
            ELSE IF op = "reset" /\ request[q].op \in Issuing
            THEN [request[q] EXCEPT !.overlap = TRUE]
            ELSE request[q]]
    /\ UNCHANGED <<session, password, survivor>>

CommitRevocation(r) ==
    LET op == request[r].op
        sees == request[r].sees
    IN  /\ op \in Revoking
        /\ \A q \in Requests \ {r} : request[q].session \notin sees
        /\ session' = [s \in Sessions |->
              IF s \in sees /\ Active(s) THEN [session[s] EXCEPT !.status = "revoked"]
              ELSE session[s]]
        /\ password' = IF op = "reset" THEN password + 1 ELSE password
        /\ survivor' = IF op = "reset" THEN survivor \ sees ELSE survivor
        /\ Done(r)

\* The process dies, the user is not available, or PostgreSQL resolves a deadlock.
Abort(r) ==
    /\ ~Idle(r)
    /\ Done(r)
    /\ UNCHANGED <<session, password, survivor>>

ServerStep(r) ==
    \/ BeginLogin(r)
    \/ \E s \in Sessions : BeginRefresh(r, s) \/ CommitLogin(r, s) \/ CommitRefresh(r, s)
    \/ \E op \in Revoking : BeginRevocation(r, op)
    \/ CommitRevocation(r)
    \/ Abort(r)

SessionStep == \E s \in Sessions : ExpireSession(s) \/ RevokeOne(s)

ServerNext == SessionStep \/ \E r \in Requests : ServerStep(r)
ServerSpec == ServerInit /\ [][ServerNext]_serverVars

-----------------------------------------------------------------------------
\* A refresh-token family never has two active sessions, although refreshes,
\* reuse detections and revocations of its members run at the same time.
OneHeadPerFamily ==
    \A s, t \in Sessions :
        (Active(s) /\ Active(t) /\ session[s].family = session[t].family) => s = t

\* After a password reset no session that was opened with an earlier password
\* is active, except one that a request issued which was under way while the
\* reset ran, and the successors of such a session.
ResetEndsSessions ==
    \A s \in Sessions :
        (Active(s) /\ session[s].secret < password) => s \in survivor

=============================================================================
