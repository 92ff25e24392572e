---------------------------- MODULE ParallelScan ----------------------------
(***************************************************************************)
(* Table.scan_all_segments (src/py/src/theorydb_py/table.py 500-558): one  *)
(* scan_segment task per segment is submitted, in segment order, to a      *)
(* ThreadPoolExecutor of max_workers threads.  Each task runs its own      *)
(* pagination loop over its segment.  The calling thread waits on the      *)
(* futures in segment order and stores each result in its slot; the first *)
(* future (in that order) whose task raised re-raises, and leaving the     *)
(* with block waits for every submitted task before the error propagates.  *)
(* The results are concatenated in segment order.                          *)
(*                                                                         *)
(* The table is not written during the scan.  A page evaluates one or more *)
(* of the segment's keys after the cursor (the 1 MB cap) and may report a  *)
(* LastEvaluatedKey even when it reached the end; a page call may raise.   *)
(***************************************************************************)
EXTENDS Integers, Sequences, SequencesExt, FiniteSets

CONSTANTS
    Key,          \* the table's keys, 1..N
    NumSegments,  \* total_segments
    MaxWorkers,   \* max_workers, or None (then total_segments)
    SegmentOf,    \* key -> the segment DynamoDB assigns it to
    None

Segment == 0..(NumSegments - 1)
Workers == IF MaxWorkers = None THEN NumSegments ELSE MaxWorkers

ASSUME NumSegments > 0 /\ Workers > 0 /\ SegmentOf \in [Key -> Segment]

VARIABLES
    queue,    \* submitted tasks no worker has started, in submission order
    running,  \* segments whose task a worker is running
    cursor,   \* per segment: the task's cursor (last evaluated key) or None
    segOut,   \* per segment: the items its task collected
    future,   \* per segment: "pending", "ok" or "error"
    waitOn,   \* the segment whose future the caller waits on next
    results,  \* results[seg] = fut.result()
    status,   \* "running", "draining" (raising, inside the with block), "done", "error"
    raised,   \* the segment whose error the call raises, or None
    out       \* the list the call returns

vars == <<queue, running, cursor, segOut, future, waitOn, results, status, raised, out>>

\* The keys of segment s, in the order a segment scan reads them.
SegKeys(s) == SetToSortSeq({k \in Key : SegmentOf[k] = s}, <)

\* The keys of s after the cursor: the scan request carries Segment and
\* TotalSegments, and the cursor's key as ExclusiveStartKey.
Remaining(s, c) == SelectSeq(SegKeys(s), LAMBDA k : c = None \/ k > c)

\* The futures dict comprehension submits every segment, in order.
Init ==
    /\ queue = [i \in 1..NumSegments |-> i - 1]
    /\ running = {}
    /\ cursor = [s \in Segment |-> None]
    /\ segOut = [s \in Segment |-> <<>>]
    /\ future = [s \in Segment |-> "pending"]
    /\ waitOn = 0
    /\ results = [s \in Segment |-> <<>>]
    /\ status = "running"
    /\ raised = None
    /\ out = <<>>

-----------------------------------------------------------------------------
(* The pool's threads.                                                     *)

\* Mutant: a pool whose workers stop taking queued tasks once the caller
\* has begun leaving the with block, while the join still waits for them.
StartTaskWhileRunning ==
    /\ status = "running"
    /\ queue # <<>> /\ Cardinality(running) < Workers
    /\ running' = running \cup {Head(queue)}
    /\ queue' = Tail(queue)
    /\ UNCHANGED <<cursor, segOut, future, waitOn, results, status, raised, out>>

\* An idle worker takes the oldest queued task; shutdown(wait=True) does
\* not cancel queued tasks, so the workers keep taking them after an error.
StartTask ==
    /\ queue # <<>> /\ Cardinality(running) < Workers
    /\ running' = running \cup {Head(queue)}
    /\ queue' = Tail(queue)
    /\ UNCHANGED <<cursor, segOut, future, waitOn, results, status, raised, out>>

\* One table.scan(segment=s, cursor=cursor) of scan_segment's loop:
\* out.extend(page.items); the task returns when the page has no cursor.
ScanPage(s) ==
    /\ s \in running
    /\ LET rem == Remaining(s, cursor[s]) IN
       \E n \in (IF rem = <<>> THEN {0} ELSE 1..Len(rem)), more \in BOOLEAN :
         LET page == SubSeq(rem, 1, n)
             lek == IF n > 0 /\ (n < Len(rem) \/ more) THEN rem[n] ELSE None
         IN /\ segOut' = [segOut EXCEPT ![s] = @ \o page]
            /\ cursor' = [cursor EXCEPT ![s] = lek]
            /\ IF lek = None
               THEN /\ future' = [future EXCEPT ![s] = "ok"]
                    /\ running' = running \ {s}
               ELSE UNCHANGED <<future, running>>
    /\ UNCHANGED <<queue, waitOn, results, status, raised, out>>

\* The page call raises (a mapped ClientError): the task ends with it.
ScanFails(s) ==
    /\ s \in running
    /\ future' = [future EXCEPT ![s] = "error"]
    /\ running' = running \ {s}
    /\ UNCHANGED <<queue, cursor, segOut, waitOn, results, status, raised, out>>

-----------------------------------------------------------------------------
(* The calling thread.                                                     *)

\* Mutant: futures collected as they complete (as_completed), each task's
\* items appended in that order and its error raised first.
CollectAsCompleted ==
    /\ status = "running" /\ waitOn < NumSegments
    /\ \E s \in Segment :
         /\ future[s] # "pending" /\ results[s] = <<>>
         /\ IF future[s] = "error"
            THEN /\ status' = "draining" /\ raised' = s
                 /\ UNCHANGED <<waitOn, results, out>>
            ELSE /\ results' = [results EXCEPT ![s] = segOut[s]]
                 /\ waitOn' = waitOn + 1
                 /\ out' = out \o segOut[s]
                 /\ status' = IF waitOn + 1 = NumSegments THEN "done" ELSE status
                 /\ UNCHANGED raised
    /\ UNCHANGED <<queue, running, cursor, segOut, future>>

\* "for fut, seg in futures.items(): results[seg] = fut.result()": wait on
\* the next future in segment order; on an error start leaving the with
\* block; after the last one, concatenate the slots in segment order.
Collect ==
    /\ status = "running" /\ waitOn < NumSegments
    /\ future[waitOn] # "pending"
    /\ IF future[waitOn] = "error"
       THEN /\ status' = "draining" /\ raised' = waitOn
            /\ UNCHANGED <<waitOn, results, out>>
       ELSE LET res == [results EXCEPT ![waitOn] = segOut[waitOn]] IN
            /\ results' = res
            /\ waitOn' = waitOn + 1
            /\ IF waitOn + 1 = NumSegments
               THEN /\ status' = "done"
                    /\ out' = FlattenSeq([i \in 1..NumSegments |-> res[i - 1]])
               ELSE UNCHANGED <<status, out>>
            /\ UNCHANGED raised
    /\ UNCHANGED <<queue, running, cursor, segOut, future>>

\* ThreadPoolExecutor.__exit__ (shutdown(wait=True)): the error leaves the
\* with block once every submitted task has finished.
Raise ==
    /\ status = "draining"
    /\ queue = <<>> /\ running = {}
    /\ status' = "error"
    /\ UNCHANGED <<queue, running, cursor, segOut, future, waitOn, results, raised, out>>

Next ==
    \/ StartTask
    \/ \E s \in Segment : ScanPage(s) \/ ScanFails(s)
    \/ Collect
    \/ Raise

Spec == Init /\ [][Next]_vars

-----------------------------------------------------------------------------
(* Properties                                                              *)

\* Spec 4.6: the results are concatenated in segment order, not completion
\* order: a call that returns gives every key once, segment by segment, each
\* segment in key order; a call that raises raises the error of the lowest
\* segment that failed, whatever order the tasks finished in.
OutcomeInSegmentOrder ==
    /\ status = "done" => out = FlattenSeq([i \in 1..NumSegments |-> SegKeys(i - 1)])
    /\ status = "error" =>
         raised = CHOOSE s \in Segment : future[s] = "error"
                                         /\ \A t \in Segment : future[t] = "error" => s <= t

\* A scan_all_segments call ends: it returns or raises once the pool's
\* threads and the caller keep running, whichever segment tasks fail and in
\* whatever order they finish.  After an error the join must still see the
\* queued tasks run, and the caller's wait in segment order must not wait
\* on a task no worker will take.
ScanEnds == <>(status \in {"done", "error"})

\* The pool's threads and the calling thread are scheduled by the OS; a
\* page call that fails is not forced.
Fairness ==
    /\ WF_vars(StartTask) /\ WF_vars(Collect) /\ WF_vars(Raise)
    /\ \A s \in Segment : WF_vars(ScanPage(s))

FairSpec == Spec /\ Fairness
====
