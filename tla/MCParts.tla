------------------------------- MODULE MCParts -------------------------------
(***************************************************************************)
(* The parts that share no state with each other, one per behaviour (the  *)
(* mode chosen at the start), so that their state spaces add:              *)
(*   "batch"  - one batch_get or batch_write call (BatchExecutor);         *)
(*   "scan"   - one scan_all_segments call (ParallelScan);                 *)
(*   "bucket" - allow() calls on a SimpleLimiter as time passes;           *)
(*   "sem"    - threads sharing a ConcurrencyLimiter (Limiters);           *)
(*   "schema" - callers of ensure_table, create_table and delete_table on  *)
(*              one table (TableLifecycle);                                *)
(*   "accounts" - session() and client() calls on MultiAccountSessions;    *)
(*   "lambda" - threads calling get_lambda_boto3_client (ClientCaches).    *)
(*                                                                         *)
(* Batch: four requests, three present in the table, chunks of two (a list *)
(* of three or four spans a full and a second chunk), two re-sends.         *)
(* Scan: six keys over four segments (segments 1 and 2 have two keys, so  *)
(* a segment may need several pages), two workers, so two tasks wait in   *)
(* the queue while both workers run.                                       *)
(* Bucket: burst 2, a token every 2 ticks, 7 ticks: long enough to drain, *)
(* refill partly and fully, and to idle past the cap.                      *)
(* Semaphore: three threads, two permits, two acquisitions each, so one    *)
(* thread waits while two hold and try_acquire fails.                      *)
(* Schema: two ensure_table callers, one create_table and one delete_table *)
(* on a table absent or ACTIVE; creation takes 2 ticks, deletion 1, and    *)
(* the wait timeout is 4 polls (a poll racing the table's settling needs   *)
(* two more than the creation time).                                       *)
(* Accounts: one partner (partners have separate entries), two services,   *)
(* sessions of 4 ticks renewed 1 tick early, the local clock off STS's by  *)
(* up to 1 tick either way, 7 ticks, up to 4 AssumeRole sessions.          *)
(* Lambda: two threads making two calls each on one (service, region).     *)
(***************************************************************************)
EXTENDS BatchExecutor, TLC

CONSTANTS r1, r2, r3, r4, None, t1, t2, t3, e1, e2, c1, d1, pa, Base, Stranger, s1, s2, l1, l2, k1

VARIABLES
    mode,
    queue, running, cursor, segOut, future, waitOn, results, pstatus, raised, pout,
    lnow, tokens, lastRefill, grants, value, lpc, lcalls,
    tstatus, timer, visible, tpc, left, deleted,
    clock, offset, cache, sessions, handed, lcache, cpc, lgot, ccalls

pvars == <<queue, running, cursor, segOut, future, waitOn, results, pstatus, raised, pout>>
bucketVars == <<lnow, tokens, lastRefill, grants>>
semVars == <<value, lpc, lcalls>>
tvars == <<tstatus, timer, visible, tpc, left, deleted>>
mvars == <<clock, offset, cache, sessions, handed>>
lamvars == <<lcache, cpc, lgot, ccalls>>
allVars == <<mode, vars, pvars, bucketVars, semVars, tvars, mvars, lamvars>>

MCRequest == {r1, r2, r3, r4}
MCPresent == {r1, r2, r3}
MCSymmetry == Permutations({r1, r2, r3})

PKey == 1..6
PSegmentOf == [k \in PKey |-> k % 4]

P == INSTANCE ParallelScan WITH
        Key <- PKey, NumSegments <- 4, MaxWorkers <- 2, SegmentOf <- PSegmentOf,
        status <- pstatus, out <- pout

L == INSTANCE Limiters WITH
        Burst <- 2, Interval <- 2, MaxTime <- 7,
        Threads <- {t1, t2, t3}, MaxConcurrent <- 2, Calls <- 2,
        now <- lnow, pc <- lpc, calls <- lcalls

TRole == (e1 :> "ensure") @@ (e2 :> "ensure") @@ (c1 :> "create") @@ (d1 :> "delete")

T == INSTANCE TableLifecycle WITH
        Procs <- {e1, e2, c1, d1}, Role <- TRole, Timeout <- 4, CreateTime <- 2,
        DeleteTime <- 1, status <- tstatus, pc <- tpc

C == INSTANCE ClientCaches WITH
        Partners <- {pa}, Services <- {s1, s2}, Duration <- 4, Refresh <- 1, Skew <- 1,
        MaxClock <- 7, MaxSessions <- 4, LThreads <- {l1, l2}, LKeys <- {k1}, LCalls <- 2,
        lpc <- cpc, lcalls <- ccalls

Modes == {"batch", "scan", "bucket", "sem", "schema", "accounts", "lambda"}

\* The parts a mode does not run keep their state, and so does the mode.
Others(m) ==
    /\ IF m = "batch" THEN TRUE ELSE UNCHANGED vars
    /\ IF m = "scan" THEN TRUE ELSE UNCHANGED pvars
    /\ IF m = "bucket" THEN TRUE ELSE UNCHANGED bucketVars
    /\ IF m = "sem" THEN TRUE ELSE UNCHANGED semVars
    /\ IF m = "schema" THEN TRUE ELSE UNCHANGED tvars
    /\ IF m = "accounts" THEN TRUE ELSE UNCHANGED mvars
    /\ IF m = "lambda" THEN TRUE ELSE UNCHANGED lamvars
    /\ UNCHANGED mode

\* Each behaviour starts its own part in any of its initial states and
\* holds the others at one, so that their choices do not multiply.
PartsInit ==
    /\ mode \in Modes
    /\ Init /\ P!Init /\ L!Init /\ T!Init /\ C!Init
    /\ mode # "batch" => op = "batch_get" /\ input = <<>>
    /\ mode # "schema" => tstatus = "NONE"
    /\ mode # "accounts" => offset = 0

PartsNext ==
    /\ \/ mode = "batch" /\ Next
       \/ mode = "scan" /\ P!Next
       \/ mode = "bucket" /\ L!BucketNext
       \/ mode = "sem" /\ \E t \in {t1, t2, t3} : L!SemStep(t)
       \/ mode = "schema" /\ T!Next
       \/ mode = "accounts" /\ C!SessionsNext
       \/ mode = "lambda" /\ C!LambdaNext
    /\ Others(mode)

\* The fairness of ParallelScan, Limiters and TableLifecycle, for the
\* behaviours that run them.
ScanAct(A) == mode = "scan" /\ A /\ Others("scan")
SemAct(A) == mode = "sem" /\ A /\ Others("sem")
SchemaAct(A) == mode = "schema" /\ A /\ Others("schema")

PartsFairness ==
    /\ WF_allVars(ScanAct(P!StartTask)) /\ WF_allVars(ScanAct(P!Collect))
    /\ WF_allVars(ScanAct(P!Raise))
    /\ \A s \in 0..3 : WF_allVars(ScanAct(P!ScanPage(s)))
    /\ \A t \in {t1, t2, t3} : /\ WF_allVars(SemAct(L!Release(t)))
                               /\ WF_allVars(SemAct(L!Exit(t)))
                               /\ WF_allVars(SemAct(L!Wake(t)))
    /\ \A p \in {e1, e2, c1, d1} : WF_allVars(SchemaAct(T!Step(p)))
    /\ WF_allVars(SchemaAct(T!Tick)) /\ WF_allVars(SchemaAct(T!Settle))

PartsSpec == PartsInit /\ [][PartsNext]_allVars /\ PartsFairness

\* scan_all_segments returns its segments' items concatenated in segment
\* order whatever order the tasks finished in, and raises the error of the
\* lowest failing segment (ParallelScan's OutcomeInSegmentOrder).
OutcomeInSegmentOrder == P!OutcomeInSegmentOrder

\* In the scan behaviours, the scan_all_segments call returns or raises,
\* whichever tasks fail: the join after an error still runs the queued
\* tasks (ParallelScan's ScanEnds).
ScanEnds == mode = "scan" => P!ScanEnds

\* SimpleLimiter.allow grants at most burst + 1 plus the whole intervals
\* between any two of its grants (Limiters' RateBound).
RateBound == L!RateBound

\* ConcurrencyLimiter never lets more than max_concurrent threads hold a
\* permit (Limiters' ConcurrencyBound).
ConcurrencyBound == L!ConcurrencyBound

\* A thread blocked in ConcurrencyLimiter.acquire() eventually enters its
\* with block (Limiters' WaitersServed).
WaitersServed == L!WaitersServed

\* In the schema behaviours, every ensure_table and create_table call
\* returns unless a delete_table was accepted (TableLifecycle's
\* EnsureReturns).
EnsureReturns == mode = "schema" => T!EnsureReturns

\* A session or client MultiAccountSessions hands out is the one cached
\* for the partner, and its credentials are unexpired on STS's clock
\* (ClientCaches' ClientOnLiveSession).
ClientOnLiveSession == C!ClientOnLiveSession

\* Two AssumeRole calls for one partner are at least the session duration
\* less the refresh window and the clock skew apart (ClientCaches'
\* AssumeSpacing).
AssumeSpacing == C!AssumeSpacing
=============================================================================
