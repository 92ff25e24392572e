----------------------------- MODULE Pagination -----------------------------
(***************************************************************************)
(* Paged reads of src/py/src/theorydb_py/table.py: Table.query and          *)
(* Table.scan read one page, turning the caller's cursor into an           *)
(* ExclusiveStartKey and the table's LastEvaluatedKey into the next cursor *)
(* (query.py encode_cursor / decode_cursor); query_all and scan_all loop   *)
(* until a page has no cursor.  A concurrent writer puts and deletes items *)
(* between pages.                                                          *)
(*                                                                         *)
(* One partition is modelled; its sort keys are 1..N and a scan reads it  *)
(* in key order.  The table evaluates up to Limit items after the start   *)
(* key, may stop earlier (the 1 MB page cap), applies the filter to what   *)
(* it evaluated, and reports the last evaluated key when it stopped before *)
(* the end or at Limit.  A cursor token is the JSON object encode_cursor   *)
(* writes, base64-encoded; the wire values of its key are translated by    *)
(* _av_to_json / _av_from_json.                                            *)
(***************************************************************************)
EXTENDS Integers, Sequences, SequencesExt, FiniteSets

CONSTANTS
    N,          \* sort keys of the partition are 1..N
    IndexName,  \* secondary index names of the model
    GSI,        \* those of them that are global (consistent_read refused)
    Limits,     \* limit values callers pass (all > 0)
    FilterSet,  \* the keys whose items the caller's filter matches
    PartitionKey, \* the wire value of the partition's key attribute
    Verifies,   \* verify predicates callers pass: None, or a key the page must hold
    MaxRetries, \* max_retries of query_with_retry / scan_with_retry
    None        \* Python None (also an absent field of a cursor)

ASSUME N \in Nat \ {0} /\ GSI \subseteq IndexName /\ None \notin IndexName
ASSUME MaxRetries \in Nat /\ Verifies \subseteq (1..N) \cup {None}
ASSUME Limits \subseteq Nat \ {0} /\ FilterSet \subseteq 1..N

VARIABLES
    q,        \* the read's parameters: mode, api, index, forward, limit, filter,
              \* consistent, and with_retry's retry_on_empty, retry_on_error, verify
    start,    \* the cursor the caller passed to query_all / scan_all
    cursor,   \* the cursor passed to the next query / scan call, or None
    table,    \* the keys present in the partition
    out,      \* the items query_all / scan_all has collected, in order
    status,   \* "running", "done" or "ValidationError"
    accepted, \* origins of the cursors the read accepted (history)
    always,   \* keys present in every state since the read began (history)
    ever,     \* keys present in some state since the read began (history)
    calls     \* with_retry: the outcome of each query / scan call (history)

vars == <<q, start, cursor, table, out, status, accepted, always, ever, calls>>

Key == 1..N
\* The errors a call raises: local or mapped ValidationError, other AwsErrors.
Errors == {"ValidationError", "AwsError"}
NoLimit == 0
Dir(forward) == IF forward THEN "ASC" ELSE "DESC"

\* The reads a caller can issue: query_all / scan_all ("all") or
\* query_with_retry / scan_with_retry ("retry").  A scan has no direction;
\* it is recorded as forward.  retry_on_empty is not read when verify is
\* given; "all" reads record the defaults.
Reads == {r \in [mode : {"query", "scan"}, api : {"all", "retry"},
                 index : IndexName \cup {None},
                 forward : BOOLEAN, limit : Limits \cup {NoLimit},
                 filter : {Key, FilterSet}, consistent : BOOLEAN,
                 retryOnEmpty : BOOLEAN, retryOnError : BOOLEAN, verify : Verifies]
            : /\ r.mode = "scan" => r.forward
              /\ r.api = "all" => r.retryOnEmpty /\ r.retryOnError /\ r.verify = None
              /\ r.verify # None => r.retryOnEmpty}

\* The read that produced a cursor: its mode, index and direction.
Origin(r) == [mode |-> r.mode, index |-> r.index, forward |-> r.forward]

\* Key a comes before key b in the read's direction.
Before(r, a, b) == IF r.forward THEN a < b ELSE a > b

-----------------------------------------------------------------------------
(* Cursor protocol (query.py 130-282).  A JSON object is the function from *)
(* its keys; base64 is a tagged byte string.                               *)

B64(x) == <<"b64", x>>
UnB64(t) == t[2]
NoFields == [f \in {} |-> None]

\* The last evaluated key of sort key k: the partition and sort key
\* attributes as wire values (a number is kept as the number it denotes).
KeyAv(k) == ("pk" :> PartitionKey) @@ ("sk" :> ("N" :> k))

Kind(av) == CHOOSE t \in DOMAIN av : TRUE

\* _av_to_json: B and BS base64-encoded, L and M recursed, the rest as is.
RECURSIVE AvToJson(_)
AvToJson(av) ==
    LET t == Kind(av)  v == av[t] IN
    CASE t = "B"  -> "B" :> B64(v)
      [] t = "BS" -> "BS" :> [i \in DOMAIN v |-> B64(v[i])]
      [] t = "L"  -> "L" :> [i \in DOMAIN v |-> AvToJson(v[i])]
      [] t = "M"  -> "M" :> [k \in DOMAIN v |-> AvToJson(v[k])]
      [] OTHER    -> av

\* Mutant: B returned as its base64 text, not decoded.
RECURSIVE AvFromJsonRawB(_)
AvFromJsonRawB(enc) ==
    LET t == Kind(enc)  v == enc[t] IN
    CASE t = "BS" -> "BS" :> [i \in DOMAIN v |-> UnB64(v[i])]
      [] t = "L"  -> "L" :> [i \in DOMAIN v |-> AvFromJsonRawB(v[i])]
      [] t = "M"  -> "M" :> [k \in DOMAIN v |-> AvFromJsonRawB(v[k])]
      [] OTHER    -> enc

\* _av_from_json: the inverse of _av_to_json.
RECURSIVE AvFromJson(_)
AvFromJson(enc) ==
    LET t == Kind(enc)  v == enc[t] IN
    CASE t = "B"  -> "B" :> UnB64(v)
      [] t = "BS" -> "BS" :> [i \in DOMAIN v |-> UnB64(v[i])]
      [] t = "L"  -> "L" :> [i \in DOMAIN v |-> AvFromJson(v[i])]
      [] t = "M"  -> "M" :> [k \in DOMAIN v |-> AvFromJson(v[k])]
      [] OTHER    -> enc

\* encode_cursor(last, index=..., sort=...): "" for an empty key, else the
\* base64 of {"lastKey": ..., "index": ..., "sort": ...} with index and sort
\* written only when they are not None.  origin records which read produced
\* the token and written the key it was given; the code reads neither.
EncodeCursor(lk, index, sort, og) ==
    IF DOMAIN lk = {} THEN ""
    ELSE [text |-> B64(("lastKey" :> [k \in DOMAIN lk |-> AvToJson(lk[k])])
                       @@ (IF index # None THEN "index" :> index ELSE NoFields)
                       @@ (IF sort # None THEN "sort" :> sort ELSE NoFields)),
          origin |-> og, written |-> lk]

\* decode_cursor: the key's attributes decoded; index kept only if a
\* string, sort only if ASC / DESC.
DecodeCursor(tok) ==
    LET parsed == UnB64(tok.text)
        field(f) == IF f \in DOMAIN parsed THEN parsed[f] ELSE None
    IN [lastKey |-> [k \in DOMAIN parsed["lastKey"] |-> AvFromJson(parsed["lastKey"][k])],
        index |-> IF field("index") \in IndexName THEN field("index") ELSE None,
        sort |-> IF field("sort") \in {"ASC", "DESC"} THEN field("sort") ELSE None]

\* Mutant: the sort written as "ASC" whatever the direction.
NextCursorAlwaysAsc(r, lek) ==
    IF lek = None THEN None
    ELSE EncodeCursor(KeyAv(lek), r.index, IF r.mode = "query" THEN "ASC" ELSE None,
                      Origin(r))

\* The cursor a page hands back: query writes the scan direction, scan
\* writes only the index (table.py 194-198, 384).
NextCursor(r, lek) ==
    IF lek = None THEN None
    ELSE EncodeCursor(KeyAv(lek), r.index,
                      IF r.mode = "query" THEN Dir(r.forward) ELSE None,
                      Origin(r))

Origins == {o \in [mode : {"query", "scan"}, index : IndexName \cup {None},
                   forward : BOOLEAN] : o.mode = "scan" => o.forward}

\* Every cursor some read over this partition can hand back.
Tokens == {NextCursor(o, k) : o \in Origins, k \in Key}

\* The local checks a cursor passes before it is sent (table.py 167-177 for
\* query, 351-358 for scan); an index or sort absent from the token is not
\* compared.
CursorAccepted(r, tok) ==
    LET d == DecodeCursor(tok) IN
    /\ d.index = None \/ d.index = r.index
    /\ r.mode = "query" => (d.sort = None \/ d.sort = Dir(r.forward))

-----------------------------------------------------------------------------
(* The table's answer to one request.                                      *)

\* The present keys after the start key, in the read's direction.
Remaining(r, esk) ==
    SetToSortSeq({k \in table : esk = None \/ Before(r, esk, k)},
                 LAMBDA a, b : Before(r, a, b))

\* The pages the table may answer with: evaluate n of the remaining keys
\* (at least one when any remain, at most Limit), keep those the filter
\* matches, and report the last evaluated key if it stopped early or at Limit.
Pages(r, esk) ==
    LET rem == Remaining(r, esk)
        cap == IF r.limit = NoLimit THEN Len(rem) ELSE Min({r.limit, Len(rem)})
        low == IF Len(rem) = 0 THEN 0 ELSE 1
    IN {[error |-> None, items |-> SelectSeq(SubSeq(rem, 1, n), LAMBDA k : k \in r.filter),
         lek |-> IF n > 0 /\ (n < Len(rem) \/ n = r.limit) THEN rem[n] ELSE None]
        : n \in low..cap}

-----------------------------------------------------------------------------

TypeOK ==
    /\ q \in Reads
    /\ start \in Tokens \cup {None}
    /\ cursor \in Tokens \cup {None}
    /\ table \subseteq Key
    /\ out \in Seq(Key)
    /\ status \in {"running", "done"} \cup Errors
    /\ calls \in Seq([error : Errors \cup {None}, items : Seq(Key), lek : Key \cup {None}])
    /\ accepted \subseteq Origins
    /\ always \subseteq Key /\ ever \subseteq Key

\* A read begins with no cursor or with a cursor some earlier read handed
\* back, over any contents of the partition.
Init ==
    /\ q \in Reads
    /\ start \in Tokens \cup {None}
    /\ cursor = start
    /\ table \in SUBSET Key
    /\ out = <<>>
    /\ status = "running"
    /\ accepted = {}
    /\ always = table
    /\ ever = table
    /\ calls = <<>>

\* Mutants of the loop step: stopping at an empty page; passing the
\* caller's cursor again instead of page.next_cursor.
LoopStopOnEmpty(page) ==
    /\ out' = out \o page.items
    /\ cursor' = NextCursor(q, page.lek)
    /\ status' = IF page.lek = None \/ page.items = <<>> THEN "done" ELSE "running"
LoopSameCursor(page) ==
    /\ out' = out \o page.items
    /\ cursor' = start
    /\ status' = IF page.lek = None THEN "done" ELSE "running"

\* query_all / scan_all after a page: "out.extend(page.items); if
\* page.next_cursor is None: break; next_cursor = page.next_cursor".
Loop(page) ==
    /\ out' = out \o page.items
    /\ cursor' = NextCursor(q, page.lek)
    /\ status' = IF page.lek = None THEN "done" ELSE "running"

\* The checks query / scan make before sending: consistent_read on a GSI,
\* then the cursor's index and sort.
RequestValid(r, tok) ==
    /\ ~(r.index \in GSI /\ r.consistent)
    /\ tok # None => CursorAccepted(r, tok)

\* A call that raises e.
Failure(e) == [error |-> e, items |-> <<>>, lek |-> None]

\* Mutant: the table's ClientError raised as is.
MapClientErrorUnmapped(code) == code

\* _map_client_error of the codes a read meets: ValidationException becomes
\* ValidationError, anything else (throttling and the like) AwsError.
MapClientError(code) == IF code = "ValidationException" THEN "ValidationError" ELSE "AwsError"

\* The answers to one Table.query / Table.scan call: the local checks, then
\* the request with the decoded key as ExclusiveStartKey.  The table refuses
\* a start key that is no key of the table; else it answers with a page.
CallOutcomes(r, tok) ==
    LET lk == DecodeCursor(tok).lastKey IN
    CASE ~RequestValid(r, tok)          -> {Failure("ValidationError")}
      [] tok = None                     -> Pages(r, None)
      [] \A k \in Key : KeyAv(k) # lk    -> {Failure(MapClientError("ValidationException"))}
      [] OTHER -> Pages(r, CHOOSE k \in Key : KeyAv(k) = lk)

\* The origins of the cursors the local checks accepted, after a call.
Accept(tok) ==
    IF tok # None /\ RequestValid(q, tok) THEN accepted \cup {tok.origin} ELSE accepted

\* query_all / scan_all after a call: an error propagates, a page loops.
AllStep(o) ==
    /\ IF o.error # None THEN status' = o.error /\ UNCHANGED <<cursor, out>>
                         ELSE Loop(o)
    /\ UNCHANGED calls

\* The page satisfies the caller: verify(page) when given, else the page is
\* non-empty or retry_on_empty is off.
Satisfied(r, page) ==
    IF r.verify # None THEN r.verify \in ToSet(page.items)
    ELSE ~r.retryOnEmpty \/ page.items # <<>>

\* Mutant: the error of the next-to-last attempt is already raised.
ExhaustedEarly(n) == n + 1 >= MaxRetries

\* attempt == max_retries: n calls were made before this one.
Exhausted(n) == n = MaxRetries

\* query_with_retry / scan_with_retry after an attempt (the same cursor
\* each time): last_page = page; return a satisfying page, or the last page
\* when the attempts are used up; re-raise an error when retry_on_error is
\* off or on the last attempt; otherwise sleep (not modelled) and go again.
\* The "retry exhausted without results" branch is unreachable: the last
\* attempt either raises or sets last_page.
RetryStep(o) ==
    /\ calls' = Append(calls, o)
    /\ status' = CASE o.error # None -> IF ~q.retryOnError \/ Exhausted(Len(calls))
                                       THEN o.error ELSE "running"
                    [] Satisfied(q, o) \/ Exhausted(Len(calls)) -> "done"
                    [] OTHER -> "running"
    /\ out' = IF o.error # None THEN out ELSE o.items
    /\ UNCHANGED cursor

\* One call of the read's loop, answered.
ReadPage ==
    /\ status = "running"
    /\ \E o \in CallOutcomes(q, cursor) :
         IF q.api = "all" THEN AllStep(o) ELSE RetryStep(o)
    /\ accepted' = Accept(cursor)
    /\ UNCHANGED <<q, start, table, always, ever>>

\* A call that passed the local checks fails at the table.
CallFails ==
    /\ status = "running" /\ RequestValid(q, cursor)
    /\ LET o == Failure(MapClientError("ProvisionedThroughputExceededException")) IN
       IF q.api = "all" THEN AllStep(o) ELSE RetryStep(o)
    /\ accepted' = Accept(cursor)
    /\ UNCHANGED <<q, start, table, always, ever>>

\* Another writer puts or deletes an item while the read is in progress.
Write ==
    /\ status = "running"
    /\ \E k \in Key : table' \in {table \cup {k}, table \ {k}}
    /\ always' = always \cap table'
    /\ ever' = ever \cup table'
    /\ UNCHANGED <<q, start, cursor, out, status, accepted, calls>>

Next == ReadPage \/ CallFails \/ Write

\* The caller's thread keeps calling while the loop runs; the table is not
\* assumed ever to fail.
Spec == Init /\ [][Next]_vars /\ WF_vars(ReadPage)

-----------------------------------------------------------------------------
(* Properties                                                              *)

\* query_all / scan_all started without a cursor returns, once each and in
\* the read's key order, every item that was present and matched the filter
\* throughout the read, and nothing that never was present or never matched,
\* whatever the writer does between pages and however the pages are cut.
ReadAllComplete ==
    (q.api = "all" /\ status = "done" /\ start = None) =>
        /\ IsSorted(out, LAMBDA a, b : Before(q, a, b))
        /\ always \cap q.filter \subseteq ToSet(out)
        /\ ToSet(out) \subseteq ever \cap q.filter

\* The cursor checks of query / scan never reject a cursor handed back by
\* the same read: a query_all / scan_all whose parameters pass validation
\* never fails on its own next_cursor.
OwnCursorAccepted ==
    [][/\ status = "running" /\ cursor # None /\ cursor.origin = Origin(q)
       /\ ~(q.index \in GSI /\ q.consistent)
       => status' # "ValidationError"]_vars

\* query_all / scan_all and the with_retry variants always end, even with
\* a writer inserting ahead.
ReadTerminates == <>(status # "running")

\* Spec §8, cursor idempotence: the cursor a read carries decodes to the
\* last evaluated key, index and sort that query / scan encoded into it,
\* binary key attributes included.
CursorRoundTrip ==
    cursor # None =>
        DecodeCursor(cursor) =
            [lastKey |-> cursor.written, index |-> cursor.origin.index,
             sort |-> IF cursor.origin.mode = "query" THEN Dir(cursor.origin.forward) ELSE None]

\* Spec §4.6: the with_retry variants call again only while the page does
\* not satisfy the predicate, at most max_retries + 1 times; they return a
\* satisfying page or, once every attempt is used, the last page; they raise
\* only the last call's error, on the last attempt or with retry_on_error off.
RetryOutcome ==
    q.api = "retry" =>
        /\ Len(calls) <= MaxRetries + 1
        /\ \A i \in 1..(Len(calls) - 1) : calls[i].error # None \/ ~Satisfied(q, calls[i])
        /\ status = "done" =>
             /\ calls # <<>> /\ Last(calls).error = None /\ out = Last(calls).items
             /\ Satisfied(q, Last(calls)) \/ Len(calls) = MaxRetries + 1
        /\ status \in Errors =>
             /\ calls # <<>> /\ Last(calls).error = status
             /\ Len(calls) = MaxRetries + 1 \/ ~q.retryOnError

\* Spec §4.3: a cursor whose index or sort direction does not match the
\* continuing query is a validation error.  Hence a query accepts only
\* cursors handed back by a query over the same index in the same direction.
CursorMatchesQuery ==
    q.mode = "query" =>
        \A o \in accepted : o.mode = "query" /\ o.index = q.index
                             /\ o.forward = q.forward
=============================================================================
