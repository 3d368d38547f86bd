------------------------- MODULE DashboardSessions -------------------------
(***************************************************************************)
(* The merchant dashboard in front of the sessions: a browser whose cookie *)
(* holds the newest refresh token it was given, concurrent calls through   *)
(* the backend-for-frontend, and RefreshSingleFlight, which lets calls     *)
(* that carry the same token share one rotation while its entry lives.     *)
(***************************************************************************)
EXTENDS Sessions

ASSUME DashboardAssumption == None \notin Requests

VARIABLES
    cookie,     \* the refresh token in the browser
    call,       \* the proxied calls
    entry,      \* RefreshSingleFlight.entries, per token
    lapsed,     \* tokens whose entry expired or whose rotation failed
    families    \* the session families this browser signed in to

dashboardVars == <<cookie, call, entry, lapsed, families>>
\* sent: awaits the API; leading: awaits the rotation it started; following:
\* awaits another call's rotation; rotated and refused: knows the outcome.
Phases == {"idle", "sent", "leading", "following", "rotated", "refused"}
Calls ==
    [phase : Phases, token : Sessions \cup {None}, leader : Requests \cup {None},
     got : Sessions \cup {None}]
NoCall == [phase |-> "idle", token |-> None, leader |-> None, got |-> None]

\* A promise: pending with its leader, or resolved to the session it got.
Entries == [leader : Requests \cup {None}, got : Sessions \cup {None}]
NoEntry == [leader |-> None, got |-> None]

DashboardTypeOK ==
    /\ ServerTypeOK
    /\ cookie \in Sessions \cup {None}
    /\ call \in [Requests -> Calls]
    /\ entry \in [Sessions -> Entries]
    /\ lapsed \subseteq Sessions
    /\ families \subseteq Sessions

DashboardInit ==
    /\ ServerInit
    /\ cookie = None
    /\ call = [q \in Requests |-> NoCall]
    /\ entry = [s \in Sessions |-> NoEntry]
    /\ lapsed = {}
    /\ families = {}

Phase(q) == call[q].phase

(***************************************************************************)
(* The proxy.                                                              *)
(***************************************************************************)
\* The login page: the new session becomes the cookie.
SignIn(r, t) ==
    /\ Phase(r) = "idle"
    /\ CommitLogin(r, t)
    /\ cookie' = t
    /\ families' = families \cup {t}
    /\ UNCHANGED <<call, entry, lapsed>>

SendCall(q) ==
    /\ Phase(q) = "idle" /\ Idle(q)
    /\ cookie # None
    /\ call' = [call EXCEPT ![q] = [NoCall EXCEPT !.phase = "sent", !.token = cookie]]
    /\ UNCHANGED <<session, password, request, survivor, cookie, entry, lapsed, families>>

\* The API accepted the access token: the cookies stay as they are.
Served(q) ==
    /\ Phase(q) = "sent"
    /\ call' = [call EXCEPT ![q] = NoCall]
    /\ UNCHANGED <<session, password, request, survivor, cookie, entry, lapsed, families>>

\* A live entry is shared, whether its rotation is done or under way.
SharesNever(token) == FALSE                 \* mutant: no single flight
Shares(token) == entry[token] # NoEntry

\* The API answered 401: RefreshSingleFlight.run.
Unauthorized(q) ==
    LET token == call[q].token
        shared == entry[token]
    IN  /\ Phase(q) = "sent"
        /\ \/ /\ Shares(token) /\ shared.got # None
              /\ call' = [call EXCEPT ![q].phase = "rotated", ![q].got = shared.got]
              /\ UNCHANGED entry
           \/ /\ Shares(token) /\ shared.got = None
              /\ call' = [call EXCEPT ![q].phase = "following", ![q].leader = shared.leader]
              /\ UNCHANGED entry
           \/ /\ ~Shares(token)
              /\ call' = [call EXCEPT ![q].phase = "leading"]
              /\ entry' = [entry EXCEPT ![token] = [leader |-> q, got |-> None]]
        /\ UNCHANGED <<session, password, request, survivor, cookie, lapsed, families>>

\* The leader's request to /auth/refresh ...
Lead(q) ==
    /\ Phase(q) = "leading"
    /\ BeginRefresh(q, call[q].token)
    /\ UNCHANGED dashboardVars

\* ... whose answer settles the promise for the leader and its followers.
Settle(q, phase, t) ==
    call' = [c \in Requests |->
        IF c = q \/ (Phase(c) = "following" /\ call[c].leader = q)
        THEN [call[c] EXCEPT !.phase = phase, !.got = t, !.leader = None]
        ELSE call[c]]

Owns(q) == entry[call[q].token].leader = q

Rotated(q, t) ==
    /\ Phase(q) = "leading"
    /\ CommitRefresh(q, t)
    /\ Settle(q, "rotated", t)
    /\ entry' = IF Owns(q)
                THEN [entry EXCEPT ![call[q].token] = [leader |-> None, got |-> t]]
                ELSE entry
    /\ UNCHANGED <<cookie, lapsed, families>>

\* promise.catch: the entry is dropped if it is still this rotation's.
Failed(q) ==
    /\ Settle(q, "refused", None)
    /\ entry' = IF Owns(q) THEN [entry EXCEPT ![call[q].token] = NoEntry] ELSE entry
    /\ lapsed' = lapsed \cup {call[q].token}
    /\ UNCHANGED <<cookie, families>>

Refused(q) ==
    /\ Phase(q) = "leading"
    /\ request[q].op = "reuse"
    /\ CommitRevocation(q)
    /\ Failed(q)

\* The API failed, or it rotated and its answer was lost.
Unheard(q) ==
    /\ Phase(q) = "leading"
    /\ Abort(q) \/ \E t \in Sessions : CommitRefresh(q, t)
    /\ Failed(q)

\* setSession or clearSession, unless the response does not arrive.
Respond(q) ==
    /\ Phase(q) \in {"rotated", "refused"}
    /\ cookie' \in {call[q].got, cookie}
    /\ call' = [call EXCEPT ![q] = NoCall]
    /\ UNCHANGED <<session, password, request, survivor, entry, lapsed, families>>

\* successTtlMs after the rotation began its entry no longer counts.
EntryExpires(s) ==
    /\ entry[s] # NoEntry
    /\ entry' = [entry EXCEPT ![s] = NoEntry]
    /\ lapsed' = lapsed \cup {s}
    /\ UNCHANGED <<session, password, request, survivor, cookie, call, families>>

(***************************************************************************)
(* The user's other clients, each with families of its own.                *)
(***************************************************************************)
Elsewhere(r) ==
    /\ Phase(r) = "idle"
    /\ ServerStep(r)
    /\ request'[r].session # None => session[request'[r].session].family \notin families
    /\ UNCHANGED dashboardVars

DashboardNext ==
    \/ SessionStep /\ UNCHANGED dashboardVars
    \/ \E q \in Requests :
        \/ SendCall(q) \/ Served(q) \/ Unauthorized(q) \/ Lead(q)
        \/ Refused(q) \/ Unheard(q) \/ Respond(q)
        \/ Elsewhere(q)
        \/ \E t \in Sessions : SignIn(q, t) \/ Rotated(q, t)
    \/ \E s \in Sessions : EntryExpires(s)

DashboardSpec == DashboardInit /\ [][DashboardNext]_<<serverVars, dashboardVars>>

-----------------------------------------------------------------------------
\* However many calls of the browser run at once and in whatever order their
\* answers set its cookie, the dashboard presents a token that it has already
\* rotated only when its shared rotation failed or outlived its entry: it does
\* not trip the reuse detection, and so end its own session, by concurrency.
NoSelfInflictedReuse ==
    \A q \in Requests :
        (Phase(q) = "leading" /\ request[q].op = "reuse") =>
            \/ session[call[q].token].status # "rotated"
            \/ call[q].token \in lapsed

=============================================================================
