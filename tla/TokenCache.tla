----------------------------- MODULE TokenCache -----------------------------
(***************************************************************************)
(* The OAuth token of one credential in one process (app/daraja.py): a     *)
(* cache with a lock around the fetch, shared by coroutines of one event   *)
(* loop.  Time is counted in units of a few seconds.                       *)
(***************************************************************************)
EXTENDS Integers, Null

CONSTANTS
    Coroutines,     \* coroutines that need a token
    Lifetimes,      \* values of expires_in
    Cap,            \* the longest lifetime believed (3600 s)
    Margin,         \* the safety window (30 s)
    Timeout,        \* the longest a token is under way (timeout=10)
    MaxTime         \* bound: how long the model runs

ASSUME TokenCacheAssumption ==
    /\ {Cap, Margin, Timeout, MaxTime} \subseteq Nat
    /\ Cap > 0
    /\ Lifetimes \subseteq Nat
    /\ Timeout <= Margin
    /\ None \notin Coroutines

VARIABLES
    now,        \* time.monotonic()
    cached,     \* _TOKEN_CACHE[cache_key]
    lock,       \* who holds _TOKEN_LOCKS[cache_key]
    fetch,      \* what each coroutine is doing
    issued      \* the token under way from Daraja to the lock's holder

tokenCacheVars == <<now, cached, lock, fetch, issued>>

Times == 0..(MaxTime + Cap + Timeout)

\* A token is known by when Daraja issued it and for how long.
AccessTokens == [at : 0..MaxTime, lifetime : Lifetimes]
CachedTokens == [token : AccessTokens, until : Times]

TokenCacheTypeOK ==
    /\ now \in 0..MaxTime
    /\ cached \in CachedTokens \cup {None}
    /\ lock \in Coroutines \cup {None}
    /\ fetch \in [Coroutines -> {"idle", "waiting", "fetching"}]
    /\ issued \in AccessTokens \cup {None}

TokenCacheInit ==
    /\ now = 0
    /\ cached = None
    /\ lock = None
    /\ fetch = [r \in Coroutines |-> "idle"]
    /\ issued = None

Smaller(a, b) == IF a < b THEN a ELSE b
Larger(a, b) == IF a > b THEN a ELSE b

Usable == cached # None /\ cached.until > now

\* get_access_token: a hit returns at once, a miss queues at the lock.
Miss(r) ==
    /\ fetch[r] = "idle"
    /\ ~Usable
    /\ fetch' = [fetch EXCEPT ![r] = "waiting"]
    /\ UNCHANGED <<now, cached, lock, issued>>

\* The lock is granted; the cache is looked at again.
Acquire(r) ==
    /\ fetch[r] = "waiting"
    /\ lock = None
    /\ lock' = IF Usable THEN None ELSE r
    /\ fetch' = [fetch EXCEPT ![r] = IF Usable THEN "idle" ELSE "fetching"]
    /\ UNCHANGED <<now, cached, issued>>

\* Daraja issues the token ...
Grant(lifetime) ==
    /\ lock # None
    /\ issued = None
    /\ issued' = [at |-> now, lifetime |-> lifetime]
    /\ UNCHANGED <<now, cached, lock, fetch>>

WholeLifetime(lifetime) == Larger(Smaller(lifetime, Cap), 1)    \* mutant: no safety window
Ttl(lifetime) == Larger(Smaller(lifetime, Cap) - Margin, 1)

\* ... and the answer arrives and is cached from then on.
Receive(r) ==
    /\ lock = r
    /\ issued # None
    /\ cached' = [token |-> issued, until |-> now + Ttl(issued.lifetime)]
    /\ issued' = None
    /\ lock' = None
    /\ fetch' = [fetch EXCEPT ![r] = "idle"]
    /\ UNCHANGED now

\* An error, a timeout or a cancelled request: "async with" releases the lock.
Forgo(r) ==
    /\ fetch[r] # "idle"
    /\ fetch' = [fetch EXCEPT ![r] = "idle"]
    /\ lock' = IF lock = r THEN None ELSE lock
    /\ issued' = IF lock = r THEN None ELSE issued
    /\ UNCHANGED <<now, cached>>

\* No answer is later than its timeout.
Tick ==
    /\ now < MaxTime
    /\ issued # None => now < issued.at + Timeout
    /\ now' = now + 1
    /\ UNCHANGED <<cached, lock, fetch, issued>>

TokenCacheNext ==
    \/ \E r \in Coroutines : Miss(r) \/ Acquire(r) \/ Receive(r) \/ Forgo(r)
    \/ \E lifetime \in Lifetimes : Grant(lifetime)
    \/ Tick

TokenCacheSpec == TokenCacheInit /\ [][TokenCacheNext]_tokenCacheVars

-----------------------------------------------------------------------------
CachedTokenIsAlive ==
    Usable /\ cached.token.lifetime > Margin =>
        now < cached.token.at + cached.token.lifetime

NoNeedlessFetch == \A r \in Coroutines : fetch[r] = "fetching" => ~Usable

\* A cached token that would be used has not expired at Daraja, however long
\* its answer was under way, if it was granted for longer than the margin (a
\* shorter one is kept for a second all the same); and nobody asks Daraja for
\* a token while a usable one is cached, however many requests missed at once.
CacheKeepsItsPromise == CachedTokenIsAlive /\ NoNeedlessFetch

=============================================================================
