------------------------------- MODULE Limiters -------------------------------
(***************************************************************************)
(* protection.py: SimpleLimiter, a token bucket whose allow() runs under   *)
(* its lock and reads a monotonic clock, and ConcurrencyLimiter, a         *)
(* BoundedSemaphore taken by try_acquire / release or by the acquire()     *)
(* context manager from several threads.                                   *)
(*                                                                         *)
(* Time is counted in ticks; a token is earned every Interval ticks        *)
(* (refill_interval = 1 / rps).  elapsed / refill_interval is a float      *)
(* division of two differences of floats: when the elapsed time is a whole *)
(* number of intervals on the clock, the quotient may come out just below  *)
(* it and int() gives one token less.                                      *)
(***************************************************************************)
EXTENDS Integers, Sequences, FiniteSets

CONSTANTS
    Burst,          \* burst: the bucket's size and its initial tokens
    Interval,       \* ticks per token
    MaxTime,        \* the last tick the clock reaches
    Threads,        \* the threads sharing the ConcurrencyLimiter
    MaxConcurrent,  \* max_concurrent
    Calls           \* the acquisitions each thread makes

VARIABLES
    now,         \* time.monotonic()
    tokens,      \* _tokens
    lastRefill,  \* _last_refill
    grants,      \* history: the times at which allow() returned True
    value,       \* the BoundedSemaphore's counter
    pc,          \* thread -> "idle", "held" (try_acquire), "waiting", "body" (with block)
    calls        \* thread -> the acquisitions it has started

bucketVars == <<now, tokens, lastRefill, grants>>
semVars == <<value, pc, calls>>
lvars == <<now, tokens, lastRefill, grants, value, pc, calls>>

-----------------------------------------------------------------------------
(* SimpleLimiter                                                           *)

\* __init__: a full bucket, last refill at the current time.
BucketInit == tokens = Burst /\ lastRefill = 0 /\ now = 0 /\ grants = <<>>

\* The clock advances.
Tick == now < MaxTime /\ now' = now + 1 /\ UNCHANGED <<tokens, lastRefill, grants>>

\* int(elapsed / refill_interval), one less when the float quotient of a
\* whole number of intervals rounds below it.
TokensToAdd(elapsed) ==
    LET q == elapsed \div Interval IN
    IF elapsed % Interval = 0 /\ q > 0 THEN {q, q - 1} ELSE {q}

\* Mutant: the refill not capped at _max_tokens.
AllowUncapped ==
    \E add \in TokensToAdd(now - lastRefill) :
      LET t == IF add > 0 THEN tokens + add ELSE tokens IN
      /\ lastRefill' = IF add > 0 THEN now ELSE lastRefill
      /\ IF t > 0 THEN tokens' = t - 1 /\ grants' = Append(grants, now)
                  ELSE tokens' = t /\ UNCHANGED grants
      /\ UNCHANGED now

\* allow(): refill by the whole intervals elapsed (resetting _last_refill to
\* now, the fraction of an interval dropped), then take a token if any.
Allow ==
    \E add \in TokensToAdd(now - lastRefill) :
      LET t == IF add > 0 THEN IF tokens + add < Burst THEN tokens + add ELSE Burst
               ELSE tokens IN
      /\ lastRefill' = IF add > 0 THEN now ELSE lastRefill
      /\ IF t > 0 THEN tokens' = t - 1 /\ grants' = Append(grants, now)
                  ELSE tokens' = t /\ UNCHANGED grants
      /\ UNCHANGED now

-----------------------------------------------------------------------------
(* ConcurrencyLimiter                                                      *)

SemInit ==
    value = MaxConcurrent /\ pc = [t \in Threads |-> "idle"] /\ calls = [t \in Threads |-> 0]

\* Mutant: try_acquire reporting success without taking the permit.
TryAcquireNoTake(t) ==
    /\ pc[t] = "idle" /\ calls[t] < Calls
    /\ calls' = [calls EXCEPT ![t] = @ + 1]
    /\ pc' = [pc EXCEPT ![t] = IF value > 0 THEN "held" ELSE "idle"]
    /\ UNCHANGED value

\* try_acquire(): acquire(blocking=False), True and one permit less when
\* one is free, False otherwise.
TryAcquire(t) ==
    /\ pc[t] = "idle" /\ calls[t] < Calls
    /\ calls' = [calls EXCEPT ![t] = @ + 1]
    /\ IF value > 0 THEN value' = value - 1 /\ pc' = [pc EXCEPT ![t] = "held"]
                    ELSE UNCHANGED <<value, pc>>

\* release() after a successful try_acquire; a BoundedSemaphore already
\* at its initial value raises ValueError instead.
Release(t) ==
    /\ pc[t] = "held"
    /\ value' = IF value < MaxConcurrent THEN value + 1 ELSE value
    /\ pc' = [pc EXCEPT ![t] = "idle"]
    /\ UNCHANGED calls

\* with limiter.acquire(): the blocking _sem.acquire() takes a free permit
\* or waits on the semaphore's condition.
Acquire(t) ==
    /\ pc[t] = "idle" /\ calls[t] < Calls
    /\ calls' = [calls EXCEPT ![t] = @ + 1]
    /\ IF value > 0 THEN value' = value - 1 /\ pc' = [pc EXCEPT ![t] = "body"]
                    ELSE UNCHANGED value /\ pc' = [pc EXCEPT ![t] = "waiting"]

\* A waiter woken with a permit free takes it; any thread may have taken
\* it first (the semaphore does not queue).
Wake(t) ==
    /\ pc[t] = "waiting" /\ value > 0
    /\ value' = value - 1 /\ pc' = [pc EXCEPT ![t] = "body"]
    /\ UNCHANGED calls

\* Mutant: the with block's release outside a finally, skipped when the
\* body raises.
ExitNoFinally(t) ==
    /\ pc[t] = "body"
    /\ \E raised \in BOOLEAN :
         value' = IF raised \/ value = MaxConcurrent THEN value ELSE value + 1
    /\ pc' = [pc EXCEPT ![t] = "idle"]
    /\ UNCHANGED calls

\* The with block ends, normally or by an exception: the finally releases.
Exit(t) ==
    /\ pc[t] = "body"
    /\ value' = IF value < MaxConcurrent THEN value + 1 ELSE value
    /\ pc' = [pc EXCEPT ![t] = "idle"]
    /\ UNCHANGED calls

-----------------------------------------------------------------------------

Init == BucketInit /\ SemInit

BucketNext == Tick \/ Allow
SemStep(t) == TryAcquire(t) \/ Release(t) \/ Acquire(t) \/ Wake(t) \/ Exit(t)

Next ==
    \/ BucketNext /\ UNCHANGED semVars
    \/ \E t \in Threads : SemStep(t) /\ UNCHANGED bucketVars

\* A thread holding a permit gives it back (release after try_acquire is
\* the caller's, the with block's is the finally's); a waiter woken with a
\* permit free takes it.  Callers make finitely many calls.
Fairness ==
    \A t \in Threads : /\ WF_lvars(Release(t) /\ UNCHANGED bucketVars)
                      /\ WF_lvars(Exit(t) /\ UNCHANGED bucketVars)
                      /\ WF_lvars(Wake(t) /\ UNCHANGED bucketVars)

Spec == Init /\ [][Next]_lvars /\ Fairness

-----------------------------------------------------------------------------
(* Properties                                                              *)

\* The token bucket's bound (spec 5): between any two grants of allow(), the
\* grants number at most burst, plus one, plus the whole intervals between
\* them, whatever the refills, the dropped fractions and the float
\* rounding.  The one extra is the time the bucket sat full before the
\* first refill: _last_refill only moves when a refill adds tokens, so an
\* interval begun while the bucket was full is credited after it drains.
RateBound ==
    \A i, j \in 1..Len(grants) :
        i <= j => j - i + 1 <= Burst + 1 + (grants[j] - grants[i]) \div Interval

\* The semaphore bounds concurrency: the threads between a successful
\* try_acquire and its release, or inside the with block, never exceed
\* max_concurrent, however their calls and the semaphore's wake-ups
\* interleave.
ConcurrencyBound ==
    Cardinality({t \in Threads : pc[t] \in {"held", "body"}}) <= MaxConcurrent

\* Every thread blocked in acquire() eventually enters its with block: no
\* permit is lost, so the holders' releases free one for it.  A with
\* block whose release were skipped when the body raised would leave
\* later callers blocked for good.
WaitersServed == \A t \in Threads : pc[t] = "waiting" ~> pc[t] = "body"
====
