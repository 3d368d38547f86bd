---------------------------- MODULE AccountTokens ----------------------------
(***************************************************************************)
(* The mailed one-time tokens of one user: password resets and email       *)
(* verifications (app/auth.py).  A request revokes the pending tokens it   *)
(* sees and adds one, a confirmation locks its token, uses it and revokes  *)
(* the other pending ones.  Both use UPDATE statements, which see the rows *)
(* committed when they start and wait for those another transaction        *)
(* locked.                                                                 *)
(***************************************************************************)
EXTENDS Null

CONSTANTS
    Tokens,     \* token rows
    Handlers,   \* requests in progress
    Reissues    \* FALSE: email verification asks for nothing once verified

ASSUME TokensAssumption == None \notin Tokens /\ Reissues \in BOOLEAN

VARIABLES
    token,      \* status of each token row
    handler,    \* the transaction of each request
    together,   \* pairs of tokens that were pending at the same time
    missed      \* pairs of which one was issued while the other was being used

tokenVars == <<token, handler, together, missed>>

TokenStates == {"absent", "pending", "used", "revoked"}
HandlerRows ==
    [op : {"idle", "issue", "confirm", "revoke"}, token : Tokens \cup {None}, sees : SUBSET Tokens]
NoHandler == [op |-> "idle", token |-> None, sees |-> {}]

TokenTypeOK ==
    /\ token \in [Tokens -> TokenStates]
    /\ handler \in [Handlers -> HandlerRows]
    /\ together \subseteq SUBSET Tokens
    /\ missed \subseteq SUBSET Tokens

TokenInit ==
    /\ token = [t \in Tokens |-> "absent"]
    /\ handler = [h \in Handlers |-> NoHandler]
    /\ together = {}
    /\ missed = {}

Pending == {t \in Tokens : token[t] = "pending"}

HeldNever(ts, h) == FALSE                   \* mutant: no with_for_update
\* another transaction holds the row lock of one of the tokens
Held(ts, h) == \E g \in Handlers \ {h} : handler[g].token \in ts

\* status after revoking the tokens of ts that are still pending
Revoked(ts) == [t \in Tokens |-> IF t \in ts \cap Pending THEN "revoked" ELSE token[t]]

Finish(h) == handler' = [handler EXCEPT ![h] = NoHandler]

\* request_password_reset, request_email_verification: the UPDATE begins ...
BeginIssue(h) ==
    /\ handler[h] = NoHandler
    /\ Reissues \/ \A t \in Tokens : token[t] # "used"
    /\ handler' = [handler EXCEPT ![h] = [NoHandler EXCEPT !.op = "issue", !.sees = Pending]]
    /\ UNCHANGED <<token, together, missed>>

\* ... and is committed with the new token and the mail that carries it.
CommitIssue(h, t) ==
    /\ handler[h].op = "issue"
    /\ token[t] = "absent"
    /\ ~Held(handler[h].sees, h)
    /\ token' = [Revoked(handler[h].sees) EXCEPT ![t] = "pending"]
    /\ together' = together \cup {{t, u} : u \in Pending \ handler[h].sees}
    /\ Finish(h)
    /\ UNCHANGED missed

\* confirm_password_reset, confirm_email_verification: lock and check ...
BeginConfirm(h, t) ==
    /\ handler[h] = NoHandler
    /\ ~Held({t}, h)
    /\ token[t] = "pending"
    /\ handler' = [handler EXCEPT ![h] = [NoHandler EXCEPT !.op = "confirm", !.token = t]]
    /\ UNCHANGED <<token, together, missed>>

\* ... then revoke the other tokens that are pending when this UPDATE begins,
RevokeOthers(h) ==
    LET t == handler[h].token IN
    /\ handler[h].op = "confirm"
    /\ handler' = [handler EXCEPT ![h] = [op |-> "revoke", token |-> t, sees |-> Pending \ {t}]]
    /\ UNCHANGED <<token, together, missed>>

\* and commit the use of the token.  A token issued since stays pending.
CommitConfirm(h) ==
    LET t == handler[h].token
        sees == handler[h].sees
    IN  /\ handler[h].op = "revoke"
        /\ ~Held(sees, h)
        /\ token' = [Revoked(sees) EXCEPT ![t] = "used"]
        /\ missed' = missed \cup {{t, u} : u \in Pending \ (sees \cup {t})}
        /\ Finish(h)
        /\ UNCHANGED together

\* Expired token, unavailable user, crash, or the victim of a deadlock: two
\* confirmations that each wait for the token of the other.
GiveUp(h) ==
    /\ handler[h] # NoHandler
    /\ Finish(h)
    /\ UNCHANGED <<token, together, missed>>

TokenNext ==
    \E h \in Handlers :
        \/ BeginIssue(h) \/ RevokeOthers(h) \/ CommitConfirm(h) \/ GiveUp(h)
        \/ \E t \in Tokens : CommitIssue(h, t) \/ BeginConfirm(h, t)

TokenSpec == TokenInit /\ [][TokenNext]_tokenVars

-----------------------------------------------------------------------------
\* Concurrent requests can leave several tokens pending; of tokens that were
\* pending together at most one is ever used, also when both are confirmed at
\* the same time, except a token that was issued while the other was being
\* used, which the UPDATE of that confirmation does not see.
OneTokenOfAllPending ==
    \A t, u \in Tokens :
        (t # u /\ {t, u} \in together \ missed) =>
            ~(token[t] = "used" /\ token[u] = "used")

=============================================================================
