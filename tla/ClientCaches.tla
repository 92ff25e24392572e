----------------------------- MODULE ClientCaches -----------------------------
(***************************************************************************)
(* The two client caches of the package.                                   *)
(*                                                                         *)
(* multiaccount.py: MultiAccountSessions keeps, per partner, the session   *)
(* AssumeRole gave and the clients made from it, until _now() (time.time,  *)
(* the local wall clock) reaches expires_at - refresh_before_seconds.     *)
(* expires_at is STS's Expiration, an instant of STS's clock, or, without  *)
(* one, _now() + session_duration_seconds.  The local clock is off STS's   *)
(* by an offset of at most Skew; the credentials really expire Duration    *)
(* after the AssumeRole.  Each call runs to its end before the next.       *)
(*                                                                         *)
(* runtime.py: get_lambda_boto3_client's process-wide dict, keyed by       *)
(* (service, region), read and written without a lock by several threads. *)
(***************************************************************************)
EXTENDS Integers, Sequences

CONSTANTS
    Partners,     \* partner ids with an AccountConfig
    Base,         \* the empty partner id: the base session
    Stranger,     \* a partner id with no AccountConfig
    Services,     \* service names asked of client()
    Duration,     \* session_duration_seconds, in ticks
    Refresh,      \* refresh_before_seconds, in ticks
    Skew,         \* the largest offset of the local clock from STS's
    MaxClock,     \* the last tick the clock reaches
    MaxSessions,  \* AssumeRole calls that succeed, over all partners
    LThreads,     \* threads calling get_lambda_boto3_client
    LKeys,        \* (service, region) keys
    LCalls        \* the calls each thread makes

VARIABLES
    clock,     \* real time
    offset,    \* the local clock's offset: _now() = clock + offset
    cache,     \* partner -> [sid, exp, clients]; sid 0: no entry
    sessions,  \* history: each AssumeRole session [partner, at, realExp]
    handed,    \* what the last call returned
    lcache,    \* key -> the cached client, or NoClient
    lpc,       \* thread -> Idle or the key and metrics it is making a client for
    lgot,      \* thread -> the client it was last given
    lcalls     \* thread -> the calls it has made

mvars == <<clock, offset, cache, sessions, handed>>
lamvars == <<lcache, lpc, lgot, lcalls>>

Callers == Partners \cup {Base, Stranger}
NoEntry == [sid |-> 0, exp |-> 0, clients |-> {}]
LocalNow == clock + offset

-----------------------------------------------------------------------------
(* MultiAccountSessions                                                    *)

\* __init__: an empty cache; the local clock's offset is what it is.
SessionsInit ==
    /\ clock = 0 /\ offset \in -Skew..Skew
    /\ cache = [p \in Partners |-> NoEntry] /\ sessions = <<>>
    /\ handed = [kind |-> "none"]

\* The clock advances.
Tick == clock < MaxClock /\ clock' = clock + 1 /\ UNCHANGED <<offset, cache, sessions, handed>>

\* Mutant: the cached entry still used when _now() equals its refresh time.
FreshInclusive(p) == cache[p].sid # 0 /\ LocalNow <= cache[p].exp - Refresh

\* The cache check of session() (and, negated, of client()): an entry whose
\* refresh time the local clock has not reached.
Fresh(p) == cache[p].sid # 0 /\ LocalNow < cache[p].exp - Refresh

\* Mutant: the new session returned but not stored in the cache.
AssumeNotCached(p, withExp, clients) ==
    /\ Len(sessions) < MaxSessions
    /\ sessions' = Append(sessions, [partner |-> p, at |-> clock, realExp |-> clock + Duration])
    /\ UNCHANGED cache

\* The AssumeRole path of session(): STS answers with credentials (and an
\* Expiration, or not); the entry replaces the partner's, its clients
\* dict new.  `clients` are those client() adds to it at once.
Assume(p, withExp, clients) ==
    /\ Len(sessions) < MaxSessions
    /\ sessions' = Append(sessions, [partner |-> p, at |-> clock, realExp |-> clock + Duration])
    /\ cache' = [cache EXCEPT ![p] =
                   [sid |-> Len(sessions) + 1,
                    exp |-> IF withExp THEN clock + Duration ELSE LocalNow + Duration,
                    clients |-> clients]]

\* session(partner_id): the base session for the empty id, ValueError for
\* an unknown one, the cached session while fresh; otherwise AssumeRole,
\* whose failure or missing credentials raise with the cache unchanged.
Session(p) ==
    /\ \/ p = Base /\ handed' = [kind |-> "session", partner |-> p, sid |-> 0, at |-> clock]
                   /\ UNCHANGED <<cache, sessions>>
       \/ p = Stranger /\ handed' = [kind |-> "error"] /\ UNCHANGED <<cache, sessions>>
       \/ p \in Partners /\ Fresh(p)
          /\ handed' = [kind |-> "session", partner |-> p, sid |-> cache[p].sid, at |-> clock]
          /\ UNCHANGED <<cache, sessions>>
       \/ p \in Partners /\ ~Fresh(p)
          /\ \/ handed' = [kind |-> "error"] /\ UNCHANGED <<cache, sessions>>
             \/ \E withExp \in BOOLEAN :
                  /\ Assume(p, withExp, {})
                  /\ handed' = [kind |-> "session", partner |-> p, sid |-> Len(sessions) + 1, at |-> clock]
    /\ UNCHANGED <<clock, offset>>

\* client(partner_id, service): a new base client for the empty id,
\* ValueError for an unknown one; a stale or missing entry is renewed by
\* session() (its errors propagate) and read again; the entry's client for
\* the service is returned, made and stored when missing.
Client(p, s) ==
    /\ \/ p = Base /\ handed' = [kind |-> "client", partner |-> p, sid |-> 0, at |-> clock]
                   /\ UNCHANGED <<cache, sessions>>
       \/ p = Stranger /\ handed' = [kind |-> "error"] /\ UNCHANGED <<cache, sessions>>
       \/ p \in Partners /\ Fresh(p)
          /\ cache' = [cache EXCEPT ![p].clients = @ \cup {s}]
          /\ handed' = [kind |-> "client", partner |-> p, sid |-> cache[p].sid, at |-> clock]
          /\ UNCHANGED sessions
       \/ p \in Partners /\ ~Fresh(p)
          /\ \/ handed' = [kind |-> "error"] /\ UNCHANGED <<cache, sessions>>
             \/ \E withExp \in BOOLEAN :
                  /\ Assume(p, withExp, {s})
                  /\ handed' = [kind |-> "client", partner |-> p, sid |-> Len(sessions) + 1, at |-> clock]
    /\ UNCHANGED <<clock, offset>>

SessionsNext == Tick \/ \E p \in Callers : Session(p) \/ \E s \in Services : Client(p, s)

-----------------------------------------------------------------------------
(* get_lambda_boto3_client                                                 *)

NoClient == [by |-> "none", metrics |-> FALSE]
Idle == [key |-> "idle", metrics |-> FALSE]

LambdaInit ==
    /\ lcache = [k \in LKeys |-> NoClient] /\ lpc = [t \in LThreads |-> Idle]
    /\ lgot = [t \in LThreads |-> NoClient] /\ lcalls = [t \in LThreads |-> 0]

\* The lookup: a cached client for (service, region) is returned whatever
\* config, session and metrics this caller passes; on a miss the thread
\* goes on to make its own client.
LambdaGet(t) ==
    /\ lpc[t] = Idle /\ lcalls[t] < LCalls
    /\ lcalls' = [lcalls EXCEPT ![t] = @ + 1]
    /\ \E k \in LKeys, metrics \in BOOLEAN :
         IF lcache[k] # NoClient
         THEN lgot' = [lgot EXCEPT ![t] = lcache[k]] /\ UNCHANGED <<lcache, lpc>>
         ELSE lpc' = [lpc EXCEPT ![t] = [key |-> k, metrics |-> metrics]] /\ UNCHANGED <<lcache, lgot>>

\* The miss path's end: the client, wrapped by instrument_boto3_client when
\* metrics is given, is stored under the key (over any other thread's
\* stored meanwhile) and returned.
LambdaStore(t) ==
    /\ lpc[t] # Idle
    /\ LET c == [by |-> t, metrics |-> lpc[t].metrics] IN
         /\ lcache' = [lcache EXCEPT ![lpc[t].key] = c]
         /\ lgot' = [lgot EXCEPT ![t] = c]
    /\ lpc' = [lpc EXCEPT ![t] = Idle]
    /\ UNCHANGED lcalls

LambdaNext == \E t \in LThreads : LambdaGet(t) \/ LambdaStore(t)

-----------------------------------------------------------------------------

Init == SessionsInit /\ LambdaInit

Next ==
    \/ SessionsNext /\ UNCHANGED lamvars
    \/ LambdaNext /\ UNCHANGED mvars

Spec == Init /\ [][Next]_<<mvars, lamvars>>

-----------------------------------------------------------------------------
(* Properties                                                              *)

\* A session or client that MultiAccountSessions hands out for a partner is
\* the one its cache holds, and its credentials have not expired on STS's
\* clock, however the local clock is offset (within Skew, no more than
\* refresh_before_seconds), whether STS sent an Expiration, and however
\* client()'s check, session()'s renewal and their failures follow each
\* other.
ClientOnLiveSession ==
    handed.kind \in {"session", "client"} /\ handed.partner \in Partners =>
        /\ handed.sid = cache[handed.partner].sid
        /\ handed.at < sessions[handed.sid].realExp

\* The cache does its work: two AssumeRole calls for one partner are at
\* least session_duration_seconds - refresh_before_seconds - Skew apart,
\* whichever of session() and client() renewed, and whatever clients the
\* entry holds.
AssumeSpacing ==
    \A i, j \in 1..Len(sessions) :
        i < j /\ sessions[i].partner = sessions[j].partner =>
            sessions[j].at - sessions[i].at >= Duration - Refresh - Skew
====
