--------------------------- MODULE BatchExecutor ---------------------------
(***************************************************************************)
(* Table.batch_get and Table.batch_write (src/py/src/theorydb_py/table.py) *)
(* split their requests into chunks (100 keys / 25 writes), send each      *)
(* chunk with batch_get_item / batch_write_item and resubmit what the      *)
(* table reports as unprocessed, sleeping a capped exponential backoff,    *)
(* until the chunk is done or max_retries re-sends have been spent, when   *)
(* BatchRetryExceededError carries the number still unprocessed.  Chunks   *)
(* are handled one after the other; a failing chunk ends the call.         *)
(*                                                                         *)
(* A request is a key (batch_get) or a put/delete request (batch_write),   *)
(* a model value.  The table answers a call by processing any subset of    *)
(* what was sent; the rest comes back as unprocessed.                      *)
(***************************************************************************)
EXTENDS Integers, Sequences, FiniteSets, Bags

CONSTANTS
    Request,     \* keys / write requests a caller may pass (distinct)
    Present,     \* keys that have an item in the table (batch_get)
    ChunkSize,   \* per-call limit (100 for get, 25 for write), scaled down
    MaxRetries,  \* max_retries
    MaxInput     \* longest request list a caller passes

ASSUME Present \subseteq Request
ASSUME ChunkSize \in Nat \ {0} /\ MaxRetries \in Nat /\ MaxInput \in Nat

VARIABLES
    op,        \* "batch_get" or "batch_write"
    input,     \* the caller's request list, in order
    chunk,     \* index of the chunk being sent
    pending,   \* pending_keys / pending: what the next call sends
    attempts,  \* re-sends spent on the current chunk
    calls,     \* calls made for the current chunk
    applied,   \* write requests the table has applied
    out,       \* items batch_get has collected (a bag of keys)
    status     \* "running", "done", "BatchRetryExceeded" or "AwsError"

vars == <<op, input, chunk, pending, attempts, calls, applied, out, status>>

-----------------------------------------------------------------------------
(* _chunked(items, size): consecutive slices of at most size elements.     *)

NumChunks(s) == (Len(s) + ChunkSize - 1) \div ChunkSize

ChunkOf(s, i) ==
    LET last == IF i * ChunkSize < Len(s) THEN i * ChunkSize ELSE Len(s)
    IN SubSeq(s, (i - 1) * ChunkSize + 1, last)

ElemsOf(s) == {s[i] : i \in DOMAIN s}

\* Request lists without repeats (the table rejects a batch naming the same
\* key twice, before processing anything).
Inputs == UNION {{s \in [1..n -> Request] : Cardinality(ElemsOf(s)) = n}
                  : n \in 0..MaxInput}

TypeOK ==
    /\ op \in {"batch_get", "batch_write"}
    /\ input \in Inputs
    /\ chunk \in 1..(NumChunks(input) + 1)
    /\ pending \subseteq Request
    /\ attempts \in 0..MaxRetries
    /\ calls \in 0..(MaxRetries + 1)
    /\ applied \subseteq Request
    /\ IsABag(out) /\ BagToSet(out) \subseteq Present
    /\ status \in {"running", "done", "BatchRetryExceeded", "AwsError"}

\* The call starts: an empty request list returns at once (batch_get's
\* "if not keys: return []"; batch_write's loop over no chunks).
Init ==
    /\ op \in {"batch_get", "batch_write"}
    /\ input \in Inputs
    /\ chunk = 1
    /\ pending = IF input = <<>> THEN {} ELSE ElemsOf(ChunkOf(input, 1))
    /\ attempts = 0
    /\ calls = 0
    /\ applied = {}
    /\ out = EmptyBag
    /\ status = IF input = <<>> THEN "done" ELSE "running"

-----------------------------------------------------------------------------
(* After a call: re-send what is unprocessed while the budget lasts, move  *)
(* to the next chunk when nothing is left, finish after the last chunk.    *)

\* Mutants: the unprocessed list read from the wrong key (treated as empty),
\* and the retry budget tested with > instead of >=.
AfterCallDropUnprocessed(unprocessed) ==
    IF chunk < NumChunks(input)
    THEN /\ chunk' = chunk + 1
         /\ pending' = ElemsOf(ChunkOf(input, chunk + 1))
         /\ attempts' = 0
         /\ UNCHANGED status
    ELSE /\ chunk' = chunk + 1
         /\ pending' = {}
         /\ status' = "done"
         /\ UNCHANGED attempts
AfterCallOffByOne(unprocessed) ==
    IF unprocessed # {}
    THEN IF attempts > MaxRetries
         THEN /\ status' = "BatchRetryExceeded"
              /\ UNCHANGED <<chunk, attempts>>
              /\ pending' = unprocessed
         ELSE /\ attempts' = attempts + 1
              /\ pending' = unprocessed
              /\ UNCHANGED <<chunk, status>>
    ELSE IF chunk < NumChunks(input)
         THEN /\ chunk' = chunk + 1
              /\ pending' = ElemsOf(ChunkOf(input, chunk + 1))
              /\ attempts' = 0
              /\ UNCHANGED status
         ELSE /\ chunk' = chunk + 1
              /\ pending' = {}
              /\ status' = "done"
              /\ UNCHANGED attempts

\* "if pending: if attempts >= max_retries: raise ...; attempts += 1;
\*  sleep(_backoff_seconds(attempts))", then the next chunk.
AfterCall(unprocessed) ==
    IF unprocessed # {}
    THEN IF attempts >= MaxRetries
         THEN /\ status' = "BatchRetryExceeded"
              /\ UNCHANGED <<chunk, attempts>>
              /\ pending' = unprocessed
         ELSE /\ attempts' = attempts + 1
              /\ pending' = unprocessed
              /\ UNCHANGED <<chunk, status>>
    ELSE IF chunk < NumChunks(input)
         THEN /\ chunk' = chunk + 1
              /\ pending' = ElemsOf(ChunkOf(input, chunk + 1))
              /\ attempts' = 0
              /\ UNCHANGED status
         ELSE /\ chunk' = chunk + 1
              /\ pending' = {}
              /\ status' = "done"
              /\ UNCHANGED attempts

\* The number of calls made for the chunk now being sent.
CallsAfter(unprocessed) ==
    IF unprocessed = {} /\ chunk < NumChunks(input) THEN 0 ELSE calls + 1

\* One batch_get_item call: the table returns the present items among the
\* keys it processed, and the rest as UnprocessedKeys.
BatchGetCall ==
    /\ status = "running" /\ op = "batch_get"
    /\ \E unprocessed \in SUBSET pending :
         /\ out' = out (+) SetToBag((pending \ unprocessed) \cap Present)
         /\ calls' = CallsAfter(unprocessed)
         /\ AfterCall(unprocessed)
    /\ UNCHANGED <<op, input, applied>>

\* One batch_write_item call: the table applies the requests it processed
\* and returns the rest as UnprocessedItems.
BatchWriteCall ==
    /\ status = "running" /\ op = "batch_write"
    /\ \E unprocessed \in SUBSET pending :
         /\ applied' = applied \cup (pending \ unprocessed)
         /\ calls' = CallsAfter(unprocessed)
         /\ AfterCall(unprocessed)
    /\ UNCHANGED <<op, input, out>>

\* The call raises ClientError (throttling the SDK gave up on, a validation
\* error): it is mapped and raised; nothing of this call was applied.
CallFails ==
    /\ status = "running"
    /\ status' = "AwsError"
    /\ UNCHANGED <<op, input, chunk, pending, attempts, calls, applied, out>>

Next == BatchGetCall \/ BatchWriteCall \/ CallFails

Spec == Init /\ [][Next]_vars

-----------------------------------------------------------------------------
(* Properties                                                              *)

\* A batch_write that returns has applied every request, and a batch_get
\* that returns has collected every present key it was asked for, each
\* exactly once, across any pattern of unprocessed answers.
CompleteOnSuccess ==
    status = "done" =>
        IF op = "batch_write"
        THEN applied = ElemsOf(input)
        ELSE /\ BagToSet(out) = ElemsOf(input) \cap Present
             /\ \A k \in BagToSet(out) : CopiesIn(k, out) = 1

\* Retry bound (spec §8): a chunk is sent at most max_retries + 1 times, and
\* BatchRetryExceeded is raised exactly when the (max_retries + 1)-th call
\* of a chunk still leaves something unprocessed, carrying that many.
RetryBound ==
    /\ calls <= MaxRetries + 1
    /\ status = "BatchRetryExceeded" => /\ calls = MaxRetries + 1
                                       /\ pending # {}
=============================================================================
