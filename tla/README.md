# TLA+ models of theorydb_py (TableTheory, Python)

This directory holds TLA+ models of the Python data-access layer in
`src/py/src/theorydb_py/`, which runs over DynamoDB. It also holds the TLC
configurations that check them. Every definition comes from the source. The
`map` of `PROJECT.json` names the lines each definition stands for.

## 1. Inventory: the system's parts

| Part | Source | State it keeps | Operations |
|---|---|---|---|
| Model registry | `model.py` | an immutable `ModelDefinition`: pk/sk, attribute map, indexes | `from_dataclass` (its validation) |
| Attribute codec | `table.py` `_serialize_attr_value`, `_to_item`, `_to_key`, `_from_item`, `_coerce_value`, `_is_empty`; `streams.py` | none | encode to and decode from the wire union |
| Expression compiler | `table.py` `_filter_expression`, `_apply_sort_condition`, `_projection_expression`, `_build_update_request`; `update_builder.py` | the builder's `_updates` / `_conditions` lists; the placeholder maps built during one compilation | builder methods, `_build_request`, `execute` |
| Cursor protocol | `query.py` `encode_cursor`, `decode_cursor`, `_av_to_json`, `_av_from_json` | none (the token is held by the caller) | encode, decode |
| Envelope encryption | `encryption.py`; `table.py` 921-949, 995-1013 | none (per-call data key and nonce) | encrypt, decrypt |
| Lease manager | `lease.py` | one row per lease key in the table; each caller's `Lease` object | `acquire`, `refresh`, `release` |
| Execution engine | `table.py`, `transaction.py`, `aws_errors.py` | none between calls; within a call: the pending batch, the page cursor, the retry counters, the worker pool | get, put, delete, update, query/scan (+ `_all`, `_with_retry`), `scan_all_segments`, `batch_get`, `batch_write`, `transact_write` |
| Error mapping | `aws_errors.py`, `errors.py` | none | `map_client_error`, `map_transaction_error` |
| Limiters | `protection.py` | token count and last refill time; a bounded semaphore | `allow`, `try_acquire`, `acquire`, `release` |
| Lambda client cache | `runtime.py` | a process-wide dict of clients | `get_lambda_boto3_client` |
| Multi-account sessions | `multiaccount.py` | a per-partner cache of sessions and clients with an expiry | `session`, `client` |
| Table lifecycle | `schema.py` | the table's status, held by the service | `create_table`, `ensure_table`, `delete_table`, wait loops |
| DMS equivalence, aggregates, optimizer, validation, mocks/testkit | `dms.py`, `aggregates.py`, `optimizer.py`, `validation.py`, `mocks.py`, `testkit.py` | none | pure functions and test doubles |

### How the parts interact

A caller builds a `ModelDefinition` once and passes it to `Table`. Every
`Table` method compiles its request with the codec and the expression
compiler. It encrypts the encrypted attributes, sends one request through the
boto3 client and maps a `ClientError` once (`aws_errors`). The only state
shared between callers is the DynamoDB table: the lease row, the items and the
table's status. Parts run inside a call in three ways:
- the SDK re-sends a request whose answer was lost (`runtime.py` sets
  `retries={"max_attempts": 3}` for Lambda; botocore's default is the same);
- `scan_all_segments` runs one pagination loop per segment on a
  `ThreadPoolExecutor`;
- `SimpleLimiter` / `ConcurrencyLimiter` are used from several threads.

### What is hard in this code

- **Lease manager.** Mutual exclusion rests entirely on three conditional
  writes. Each carries the `now` the caller read before sending, so the value
  is stale by the time the table evaluates it. Answers can be lost and requests
  re-sent. TTL deletion runs in the background.
- **Batch loops.** Partial processing (`UnprocessedItems`/`UnprocessedKeys`),
  a retry budget per chunk, and chunks that commit one at a time with no
  rollback.
- **Pagination.** A cursor is an opaque token checked against the continuing
  query. Pages are short because of `Limit`, filters apply after `Limit`, and
  other writers change the table between pages.
- **Parallel scan.** A bounded pool, results in segment order, and one failing
  segment.
- **Update builder.** Placeholders must stay unique and consistent across the
  four clauses and the condition. AND/OR chaining has no parentheses, and key
  and encrypted fields must be refused.
- **Transactions.** All-or-nothing, and the cancellation reasons are folded
  into one error.
- **Retried reads.** `_with_retry` catches every exception and decides on
  its own whether to re-raise, on an attempt counter.
- **Encryption.** Envelopes live in a table that others can write. Only the
  AAD ties an envelope to its attribute.
- **Limiters.** The token bucket's refill arithmetic is in floats, and
  `_last_refill` moves only when tokens are added. Threads race for the
  semaphore's last permit.
- **Table lifecycle.** Callers race to create one table, DescribeTable is
  eventually consistent, and each wait loop has a deadline.
- **Session cache.** The local wall clock is compared with STS's
  `Expiration`, and `client()` renews through `session()`.

### Correctness properties per part

- Lease: no two callers hold unexpired leases at once. A caller's Lease never
  runs ahead of the row. An acquire that says LeaseHeld means someone else
  holds the lease.
- Batch: a call that returns has applied or read everything, each key once. A
  chunk is sent at most max_retries+1 times.
- Pagination: `query_all` returns every item present throughout, once each,
  in key order. A cursor decodes to what was encoded and is accepted only by
  the query it came from. The `_with_retry` variants stop at the first
  satisfying page or after max_retries+1 calls. Every read ends.
- Parallel scan: the result is the concatenation in segment order, whatever
  the completion order. At most `max_workers` segments run at once. The pool
  is joined before the call ends.
- Update compiler: every placeholder used is bound and every bound one is
  used. Each name placeholder maps to its field. No key field is in
  SET/REMOVE. The condition means what the chained calls say.
- Query / scan compiler: a call is refused exactly when it is invalid. A sent
  call is accepted by DynamoDB and selects exactly the items asked for.
- Single-item writes and transactions: a write that returns applied exactly
  what the caller asked. `ConditionFailedError` means a condition was false
  and nothing was applied.
- Encryption: an envelope decrypts only for the attribute it was written for,
  to the value written. No data key and nonce are used twice. Every decrypt
  failure looks the same to the caller.
- Limiters: grants stay within the bucket's rate. Holders never exceed
  `max_concurrent`, and every blocked `acquire()` is served.
- Table lifecycle: concurrent `ensure_table` calls all return.
- Session cache: what is handed out is the cached, unexpired session.
  AssumeRole is not called more often than the duration allows.

## 2. Plan

The order follows the spec's weight and what only a model checker reaches.
Items 1-7, 8 (for the lease), 10, 11 and 12 are done; the rest is open.

1. `LeaseManager` (done). Callers, the lease row, the clock, lost answers with
   SDK re-sends, and TTL deletion.
2. `BatchExecutor` (done). `batch_get` and `batch_write`: chunking, unprocessed
   resubmission and the retry budget.
3. `Pagination` (done). `query`/`scan` with the cursor codec, `query_all`,
   `scan_all`, `query_with_retry`, `scan_with_retry`, table failures and a
   concurrent writer.
4. `UpdateCompiler` (done). The update builder: placeholder consistency,
   clause order, key and encrypted guards, and condition precedence.
5. `ParallelScan` (done). `scan_all_segments` over a bounded worker pool.
6. `ItemWrites` (done). get / put / delete / update with
   `_build_update_request`, `transact_write`, `map_client_error` and
   `map_transaction_error`, against other writers and SDK re-sends.
7. `Envelope` (done). encrypt/decrypt with an ideal AEAD: AAD binding, data
   key freshness, and the error a failed decrypt raises.
8. Abstract specifications and refinement. Done for the lease:
   `LeaseAbstract` (an owner and an expiry) is implemented by `LeaseManager`
   (`LeaseRefinement`). Open: `PagedRead` ("the keys present throughout, in
   order", refined by `Pagination`).
9. Open: a violation run for `with_retry` retrying local validation errors
   (spec 7 says they are never retried; hazard at `table.py:248`). The project
   keeps twelve runs, so this one waits for a run to be merged or retired.
10. `QueryCompiler` (done). The filter, key-condition and projection
    compilers (`_filter_expression`, `_apply_sort_condition`,
    `_projection_expression`) as query and scan use them, checked against
    DynamoDB's reading of the request.
11. `Limiters` and `TableLifecycle` (done). `SimpleLimiter` and
    `ConcurrencyLimiter` under several threads, and `ensure_table` /
    `create_table` / `delete_table` callers racing on one table. Both are
    modes of `MCParts`, beside the batch and scan behaviours.
12. `ModelRegistry` and `AttributeCodec` (done). `from_dataclass` against
    spec 3, and the put / get round trip.

## 3. Modules and runs

### LeaseManager (`lease.py`)

State:
- `clock`: `int(time.time())`, shared by all callers.
- `row`: the lease row, with its token, `lease_expires_at` and `ttl`.
- `lease`: the `Lease` object each caller holds.
- `call`: the request a caller has in flight. It records the `now` it read,
  its phase, its SDK attempt count and the table's outcome.
- `result`: how each caller's last call ended.
- `issued`: a counter that stands for uuid4 tokens.

Actions:
- `Acquire`, `Refresh` and `Release`: the caller computes `now` and
  `expires_at` and sends the request (lines 64-83, 100-126, 145-150).
- `Execute`: the table evaluates the request's condition expression and
  applies the write atomically (`AcquireWrite`, `RefreshWrite`,
  `ReleaseWrite`).
- `Return`: the answer is mapped. ConditionalCheckFailed becomes `LeaseHeld`
  (acquire) or `LeaseNotOwned` (refresh), or is swallowed (release).
- `Timeout`: an attempt's answer is lost. botocore re-sends the identical
  request, or gives up with `AwsError`.
- `Tick` and `TTLDelete` are the environment.

A caller discards its Lease after it releases it or is told LeaseNotOwned. The
model takes the Lease objects' meaning from that: a caller in the middle of
releasing does not count as holding.

Runs:
- `lease_safety` (`MCLeaseManager.cfg`): two callers, 2-second leases, ttl
  buffer 1, clock 0..4, 3 tokens, 2 SDK attempts. Checks `MutualExclusion` and
  `HolderMatchesRow`. Both pass over 1.5M distinct states. The clock bound
  lets a lease expire, be taken over, and the row be TTL-deleted within one
  run. Two attempts are enough to re-send every kind of request once.
- `lease_acquire_resend` (`MCLeaseManagerRetry.cfg`): checks
  `LeaseHeldMeansOtherHolder`, which fails. The first put_item succeeds and its
  answer is lost. The re-sent identical put_item fails its own condition, so
  the caller is told `LeaseHeld` while the row holds the caller's own token,
  which it never learns. The key stays locked to nobody until the lease
  expires.

The lease run also checks `LeaseRefines`. `LeaseRefinement` extends the
module with a history variable, `issuer`, which records which caller
generated each token. Its mapping:
- owner: the issuer of the row's token, or nobody when there is no row;
- until: the row's `lease_expires_at`;
- pending: each caller's operation in flight.

Under this mapping every step of the protocol must be a step of
`LeaseAbstract`. A lease passes to a caller only while it is acquiring and the
key is free or expired. It is extended only by its owner while refreshing,
and given up only by its owner while releasing, or when its time has passed.
A TTL deletion of an expired row is the abstract `Lapse`. The abstract
`Extend` has no expiry check because the code compares the expiry with a
`now` read before sending. The check passes over 1.9M distinct states in
about 55 s.

The model has no fairness. Every property is a safety property. The lease
manager is a passive library, and a caller may stop calling at any time, so
deadlock is not checked.

### BatchExecutor (`table.py` `batch_get`, `batch_write`, `_chunked`)

State:
- `op` and `input`: the call and its request list.
- `chunk`, `pending`, `attempts` and `calls`: where the loop is.
- `applied`: the writes the table applied.
- `out`: a bag of the items `batch_get` collected.
- `status`: how the call ended.

Actions:
- `BatchGetCall` and `BatchWriteCall`: one request to the table. The table
  processes any subset of what was sent.
- `AfterCall`: the unprocessed / retry / next-chunk logic.
- `CallFails`: a mapped `ClientError`.

Runs:
- `parts` (`MCParts.cfg`, about 185k states, under two minutes). `MCParts`
  checks this module, `ParallelScan`, `Limiters`, `TableLifecycle` and
  `ClientCaches` side by side. A `mode` variable chosen at the start runs one of them and holds the
  others at one initial state, so their state counts add instead of
  multiplying. The `BatchExecutor` side has four requests (three present in
  the table), chunks of 2, `max_retries` 2, every input list of up to four
  distinct requests and both operations, with symmetry over the present
  requests. It checks `CompleteOnSuccess` and `RetryBound`.

A finished call raises or returns, so deadlock is not checked. The batch
side assumes no fairness; its properties are safety properties. The scan
side's fairness is described under `ParallelScan`. `BatchRetryExceededError`
counts only the failing chunk's leftovers, not the later chunks that were
never sent. The spec does not say what the count covers, so this is listed as
a hazard rather than checked.

### Pagination (`table.py` `query`, `query_all`, `query_with_retry`, `scan`, `scan_all`, `scan_with_retry`; `query.py` cursors)

State:
- `q`: the read's parameters. They are the mode (query or scan), the API
  (`_all` or `_with_retry`), index, direction, limit, filter and
  `consistent_read`, plus `retry_on_empty`, `retry_on_error` and `verify`.
- `start` and `cursor`: the caller's cursor and the one the next call sends.
- `table`: the keys of one partition.
- `out`: the items collected (`_all`) or the last page (`_with_retry`).
- `status`: running, done, ValidationError or AwsError.
- History: `calls` (each `_with_retry` attempt's outcome), `accepted` (origins
  of accepted cursors), `always` and `ever` (keys present throughout / at some
  time).

A cursor is the JSON object `encode_cursor` writes, base64-encoded. Its key's
wire values go through `_av_to_json` / `_av_from_json` (`AvToJson`,
`AvFromJson`, RECURSIVE). The partition key is binary, so cursors carry base64
text.

Actions:
- `ReadPage`: one `query`/`scan` call. It runs the local checks (GSI
  consistency, cursor index and sort), decodes the cursor and sends it. The
  table answers with a page, or refuses a start key that is no key of the
  table. It ends in `AllStep` (`_all`: an error propagates, a page loops) or
  `RetryStep` (`_with_retry`: return, raise or try again).
- `CallFails`: the table fails a call (throttling and the like), mapped by
  `map_client_error`.
- `Write`: another writer puts or deletes a key.

Fairness: `WF(ReadPage)`. The caller's thread keeps calling while the loop
runs. `CallFails` is not fair, because the table is not assumed ever to fail.

Runs:
- `pagination` (`MCPagination.cfg`, 430k states, about 100 s): three keys, one
  GSI, limits 1 and 2, a filter for keys 1 and 3, `max_retries` 2, `verify`
  absent or "key 3 was read". The `_with_retry` reads are restricted to the
  base table with no limit (their cursor checks still fail on an index
  cursor). Checks:
  - `ReadAllComplete`;
  - `CursorRoundTrip`;
  - `RetryOutcome`: the `_with_retry` result against the attempts made;
  - `OwnCursorAccepted` (action property);
  - `ReadTerminates` (liveness).
- `cursor_index_mismatch` (`MCCursorMismatch.cfg`): checks
  `CursorMatchesQuery`, which fails. A base-table cursor is accepted by a GSI
  query, and a scan cursor by a query in either direction.

### UpdateCompiler (`update_builder.py`)

State:
- `updates` and `conditions`: the builder's two lists.
- `returnValues` and `status`.
- `request`: what `execute` sends. Expressions are kept as the structure
  their strings spell.

Each builder method is an action. `Execute` runs `_build_request`.

Runs:
- `update_compile` (`MCExpressionCompiler.cfg`, 4.4M states, about 130 s):
  up to two updates and one condition over a key, a number, a set and an
  encrypted field. Checks `PlaceholdersBound` and `GuardsHold`. The same run
  also checks the read side of the compiler (see `QueryCompiler` below): a
  caller builds one update or makes one query or scan call, so the two state
  spaces add rather than multiply.
- `update_condition_precedence` (`MCUpdateCondition.cfg`): checks
  `ConditionMeansChain`, which fails. `condition(...).or_condition(...)`
  chains are joined without parentheses, so DynamoDB's AND-before-OR
  precedence gives another meaning than the call order.

### QueryCompiler (`table.py` `query`, `scan`, `_resolve_index`, `_apply_sort_condition`, `_filter_expression`, `_projection_expression`, `_required_fields`)

State:
- `qcall`: the caller's arguments.
- `qstatus`: idle, sent or ValidationError.
- `qreq`: the request sent.

Expressions are kept as the structure their strings spell. A filter is the
sequence of its tokens: `(`, `)`, `AND`, `OR` and terms. Placeholders are
pairs of prefix and field or counter. A caller's Python values carry their
type, and `SerializeAttr` / `Av` turn them into typed AttributeValues.

Actions:
- `Query` and `Scan`: one call. Each makes the code's checks in the code's
  order and builds the key condition, projection and filter with one
  accumulator. The accumulator threads the name and value maps and the
  value counter. The call raises ValidationError or sends the request.

The DynamoDB side is a definition, not an action:
- `Accepted`: the filter parses under DynamoDB's grammar (`PDisj`, `PConj`
  and `PAtom`, RECURSIVE; AND binds tighter than OR);
- every placeholder used is defined and every one defined is used, and no
  map is empty;
- `Selected`: the items an accepted request returns.

The reference is also a definition. `Wanted` reads the caller's arguments the
way spec 4.2 / 4.3 does: the filter tree's groups are parenthesised units.
`ValidCall` is the spec's list of valid arguments.

Checks, in the `update_compile` run (`MCExpressionCompiler.tla`):
- `QueryMeansCaller`: a sent call is accepted and selects exactly
  `Wanted`'s items.
- `ValidCallSent`: ValidationError exactly for invalid calls.

Bounds: a pk/sk model with a GSI and an LSI, a number field without a
default and an encrypted field. There are 48 stored items (every presence of
the optional attributes, two partitions). About 3,600 calls are made:
- every key argument (index, consistent read, partition, 7 sort conditions,
  limit, 4 projections) with three filters;
- every one of about 40 filters with a few key arguments. The filters are
  leaves, 7 malformed leaves, flat and nested groups with every AND / OR
  mix, a one-member group and a group with a bad member;
- scans with every segment / total combination.

`MaxIn` is scaled from 100 to 2, so that a list of three crosses the bound.

Two kinds of input are left out because the code sends them and DynamoDB
refuses them: empty groups and reversed BETWEEN bounds. `contains` is left
out for another reason: it tests for a substring or a set member, and the
model's attribute values are small integers, which have neither.

### ParallelScan (`table.py` `scan_all_segments`)

State:
- `queue` and `running`: the pool's tasks.
- `cursor`, `segOut` and `future`: each segment's task.
- `waitOn`, `results`, `status`, `raised` and `out`: the calling thread.

Actions:
- `StartTask`: a free worker takes the next task.
- `ScanPage` and `ScanFails`: one page of a segment's loop.
- `Collect`: `fut.result()` in segment order.
- `Raise`: the with block joins and re-raises.

`total_segments <= 0` and `max_workers <= 0` raise ValidationError before
any task is submitted (`table.py` 511-517). The model starts after those
checks, so it assumes valid arguments.

Fairness: weak fairness on `StartTask`, `ScanPage(s)`, `Collect` and
`Raise`. The pool's workers and the calling thread are OS threads, so each
keeps running while it can. `ScanFails` is not fair, because a page call is
never forced to fail.

Run:
- `parts` (`MCParts.cfg`, the `ParallelScan` side): six keys in four
  segments, two workers. Two segments wait in the queue while two run, so a
  task can fail while others are still queued. Checks:
  - `OutcomeInSegmentOrder`: a returned list is in segment order, and an
    error is the lowest failing segment's.
  - `ScanEnds`: every call returns or raises. After an error, the join
    (`shutdown(wait=True)`, which does not cancel queued tasks) needs the
    workers to keep taking the queued tasks. The caller's wait in segment
    order must never wait on a task no worker takes.

### ItemWrites (`table.py` get/put/delete/update/transact_write; `transaction.py`; `aws_errors.py`)

State:
- `table`: two items.
- `busy`: items held by another writer's pending transaction.
- `call`: the caller's request in flight, with its SDK attempt count and the
  table's answer.
- `result`: the mapped outcome, with the history flags `committed` and
  `condFalse`.

Actions:
- `PutOrDelete`, `Update`, `TransactWrite` and `Get`: build and send one
  request. `BuildUpdate` includes the caller's names and values and the
  collision check; `BuildTransaction` covers the four action kinds.
- `Execute`: DynamoDB evaluates the request atomically. A transaction re-sent
  after its commit is answered from its idempotency token.
- `Lose`: botocore re-sends after a lost answer.
- `Return`: `map_client_error` / `map_transaction_error`.
- `OtherWrite` and `OtherTransaction`: the environment.

Runs:
- `item_writes` (`MCItemWrites.cfg`, 212k states, about 20 s):
  - `SuccessMeansIntended` (action property): a returned write applied
    exactly the caller's fields and conditions.
  - `TxConditionFailedMeansNotApplied`.
- `conditional_write_resend` (`MCItemResend.cfg`): checks
  `WriteConditionFailedMeansNotApplied`, which fails. An applied put/update
  whose answer is lost is re-sent, fails its own condition, and is reported
  as `ConditionFailedError`.

### Envelope (`encryption.py`; `table.py` `_serialize_attr_value`, `_from_item`)

State:
- `store`: each encrypted attribute's stored envelope.
- `issued`: the data keys KMS issued.
- `read` and `writes`.
- History: `written` (attribute, envelope, value), `used` (key and nonce
  pairs) and `failures` (errors raised).

AES-GCM is an ideal AEAD: a ciphertext opens only under its key, nonce and
AAD. `rand_bytes` may return any nonce, including the same one every time.

Actions:
- `Encrypt` and `Decrypt`: the write and read paths. Decrypt runs every check
  in the code's order.
- `Tamper`: someone with write access copies an envelope between attributes
  or alters one field.

Runs:
- `envelope` (`MCEnvelope.cfg`, 3.9M states, about 85 s): two attributes,
  four values (a string, bytes, a nested list, a map), two nonces, two writes.
  Checks `DecryptMeansWritten` and `NoKeyNonceReuse`. The same run checks the
  codec's `ModelMeetsSpec` and `GetReturnsPut` (see below). A `mode` chosen
  at the start runs either the envelope or the codec. The codec's put and
  get end, so deadlock is not checked.
- `envelope_error_oracle` (`MCEnvelopeOracle.cfg`): checks `OneGenericError`,
  which fails. Altered envelopes raise different messages, and
  `AwsError` vs `ValidationError`, depending on the field altered.

### ModelRegistry (`model.py` `ModelDefinition.from_dataclass`)

Pure operators with no state. A field declaration is a record holding the
dataclass name, the `theorydb_field` options, the default and the
annotation.
- `FieldStep`: one iteration of the fields loop. It skips ignored fields,
  collects the pk / sk roles, refuses an encrypted key or index key, and adds
  the `AttrDef`.
- `IndexStep`: one iteration of the index loop, with every refusal in the
  code's order.
- `FromDataclass`: both folds (`FoldLeft`) and the key counts between them.
- `ValidDecl`: spec 3's invariants, written with sets and quantifiers. It is
  the reference `FromDataclass` is checked against.

### AttributeCodec (`table.py` `_serialize_attr_value`, `_to_item`, `_to_key`, `_from_item`, `_is_empty`, `_coerce_value`; `put`, `get`)

A Python value is a type-tagged tuple (`<<"int", 0>>`, `<<"set", {}>>`, ...).
A wire value is a tagged AttributeValue. Four outside operations are modelled
by what they do:
- boto3's `TypeSerializer` / `TypeDeserializer` (`Ser`, `Deser`). A number
  comes back as a Decimal.
- The caller's converter (`ToDynamodb`, `FromDynamodb`): a value becomes a
  string and back.
- `json.dumps` / `loads`.
- The envelope (`Seal`, `Open`): a map that opens only under its attribute
  name. `Envelope` checks the envelope itself.

State:
- `decl` and `model`: the declaration and what `from_dataclass` made of it.
- `obj`, `table` and `got`: the object put, the stored item and what `get`
  returned.
- `phase`.

Actions:
- `Declare`: `from_dataclass`.
- `Put(o)`: `_to_item`, then the item stored under its key.
- `Get`: `_to_key`, then `_from_item`.

`MCAttributeCodec` holds the declarations:
- `Rich` uses every option: an int sk with a converter and its own wire name,
  an omitempty int with a default that is also a GSI partition key, a set
  field, a JSON map, an encrypted str with a converter, an encrypted int, an
  ignored pk field, and an LSI.
  It has 32 objects.
- One declaration per refusal rule of spec 3.

Properties:
- `ModelMeetsSpec`: `from_dataclass` accepts a declaration exactly when
  `ValidDecl` holds.
- `GetReturnsPut`: `get` returns, field by field, what was put. Ignored
  fields, and omitempty fields left out because they were empty, read as
  their defaults. An empty set reads as None (spec 4.1). Ints read back from
  Decimals compare equal.

Runs:
- `envelope` (above): checks both properties on `Rich` and the refusals.
- `codec_encrypted_empty_set` (`MCAttributeCodec.cfg`): checks
  `ItemReadable` (spec 8's round trip) on a model with an encrypted set
  field. TLC finds it violated in three steps. `put` of an empty set stores
  `{"NULL": true}`, because the empty-set return comes before the encryption
  branch. `get` then raises "encrypted envelope must be a map".

### Limiters (`protection.py`)

State: the clock `now`, `_tokens`, `_last_refill` and the history `grants`
(the times at which `allow()` returned True); the semaphore's counter
`value`, each thread's `pc` and its number of `calls`.

Actions:
- `Tick`: the monotonic clock advances, up to `MaxTime`.
- `Allow`: the whole of `allow()` under its lock. The refill is capped at
  `_max_tokens`, `_last_refill` moves only when tokens are added, and then a
  token is taken if one is left. `TokensToAdd` is `int(elapsed /
  refill_interval)`. At an exact multiple of the interval, the float
  quotient may round one below, so both values are allowed.
- `TryAcquire`, `Release`: the non-blocking pair. `Release` at the
  semaphore's initial value is the `ValueError` of `BoundedSemaphore`.
- `Acquire`, `Wake`, `Exit`: the `acquire()` context manager. The blocking
  acquire takes a free permit or waits. A waiter takes a permit freed by
  anyone, since the semaphore does not queue. The `finally` releases.

Properties:
- `RateBound`: between any two grants there are at most `burst + 1 + whole
  intervals` grants. The `+1` is real. The strict token-bucket bound
  (`burst + whole intervals`) fails, because time spent with a full bucket
  does not move `_last_refill` and is credited once the bucket drains. This
  is listed as a hazard at `protection.py:31`.
- `ConcurrencyBound`: never more than `max_concurrent` holders.
- `WaitersServed` (liveness): every thread blocked in `acquire()` enters its
  with block.

Fairness is weak fairness on `Release`, `Exit` and `Wake`. A holder's
release is the caller's code or the `finally`, and a woken waiter runs. The
clock and `allow()` need no fairness, because no liveness property is about
them. Bounds: burst 2, a token every 2 ticks, 7 ticks. This drains the bucket,
refills it partly and fully, and idles past the cap. Three threads share two
permits and make two acquisitions each, so one waits while two hold, and
`try_acquire` fails.

### TableLifecycle (`schema.py`)

State: the table's `status` (NONE, CREATING, ACTIVE, DELETING), the ticks
until it settles, whether DescribeTable sees a just-created table
(`visible`), each caller's `pc` and the polls `left` before its deadline, and
the history `deleted` (a DeleteTable was accepted).

Actions:
- `Ensure`: describe, then create on ResourceNotFoundException, otherwise
  wait for ACTIVE.
- `Create`: CreateTable. ResourceInUseException is ignored, and both paths
  wait for ACTIVE.
- `Delete`: DeleteTable on an ACTIVE table. Any other status raises.
- `PollActive` and `PollGone`: one round of the wait loops. The deadline
  check comes first, and NotFound counts as "no status" or as "gone".
- `Tick`: one poll interval. Sleepers lose a poll.
- `Settle`: DynamoDB finishes creating or deleting the table.

Property: `EnsureReturns` (liveness). Every `ensure_table` and
`create_table` call returns, unless a `delete_table` was accepted
meanwhile.

Callers: two ensure, one create and one delete, on a table that starts
absent or ACTIVE. Creation takes 2 ticks, deletion 1, and the timeout is 4
polls. The property needs a timeout of at least two polls beyond the
creation time: with 3 it fails, because a poll races the settling (hazard at
`schema.py:263`). Fairness is weak fairness on each caller's step, on time
and on DynamoDB's settling. Threads run, sleeps return, and the service
finishes its work. The run is `parts`, in the `schema` mode.

### ClientCaches (`multiaccount.py`, `runtime.py` `get_lambda_boto3_client`)

State of `MultiAccountSessions`:
- `clock` is real time, and `offset` is the local wall clock's offset from
  STS's clock, so `_now()` is `clock + offset`;
- the per-partner `cache` entry holds the session id, `expires_at` and the
  services of its clients;
- the history `sessions` records each AssumeRole: the partner, when it
  happened, and when its credentials really expire;
- `handed` is what the last call returned.

Actions:
- `Session(p)`: the whole of `session()`. The base session is returned for
  the empty id, and ValueError is raised for an unknown partner. The cached
  session is returned while `Fresh`. Otherwise `Assume` runs: STS fails (the
  cache is unchanged), or answers with or without an `Expiration`. Without
  one, `expires_at` is local time plus the duration.
- `Client(p, s)`: the whole of `client()`. A stale entry is renewed through
  `session()` and read again, and the service's client is made and stored
  in the entry.
- `Tick`.

The Lambda cache is `lcache`, keyed by (service, region). `LambdaGet` is
the lookup: a hit ignores the caller's metrics, and a miss goes on to make a
client. `LambdaStore` stores that client over whatever another thread
stored meanwhile. The two steps are separate because nothing locks the dict.

Properties (run `parts`, mode `accounts`):
- `ClientOnLiveSession`: what is handed out for a partner is its cached
  session, and its credentials have not expired on STS's clock.
- `AssumeSpacing`: two AssumeRoles for one partner are at least `duration -
  refresh - skew` apart.

The skew bound is set at the edge: Skew = Refresh = 1. The property needs
the offset to stay within `refresh_before_seconds`. Beyond that the code
keeps using expired credentials (hazard at `multiaccount.py:55`). One
partner is enough, since partners have separate entries. Seven ticks cover
two renewals. There is no fairness, because both properties are safety
properties.

## 4. Findings

Each violation run shows a disagreement between the code and the spec (the
`findings` of `PROJECT.json`):
- `lease.py:94`: LeaseHeld after the caller's own re-sent acquire.
- `table.py:172`: cursors lacking index or sort pass the checks.
- `update_builder.py:305`: OR conditions chained without parentheses.
- `table.py:766`: ConditionFailed for an applied write re-sent by the SDK.
- `encryption.py:214`: decrypt failures reveal their cause.
- `table.py:925`: an encrypted set field holding an empty set is stored
  unencrypted as NULL and cannot be read back.

## 5. Not modelled, and why

- DMS equivalence, aggregates, optimizer hints and pattern validation: the
  spec (section 1) puts them out of scope as external collaborators. They
  are pure functions and checks over caller input. Their objects hold only
  constructor configuration, so no behaviour of theirs gives TLC an
  interleaving to explore.
  Their edge cases are within a unit test's reach. In `aggregates.py`:
  - groups are keyed by `str(key)`, so `1` and `"1"` share a group;
  - zero values are skipped by MIN / MAX and by the group key (as the tests
    intend);
  - HAVING on a MIN / MAX alias with no value compares 0.0.
- `schema.py`'s `build_create_table_request` and
  `_key_scalar_type_for_attribute`: a pure translation of the model into a
  CreateTable request. `describe_table` is a read-through.
- Test doubles (`mocks.py`, `testkit.py`): test support.
- Parts of the attribute codec: the binary flag, bytes, list, float and bool
  values, and the coercion of set elements. The modelled round trip does not
  depend on them. `streams.py`'s record decoding is not modelled either: it
  is a pure function of a stream record outside the core (spec 1).
- Duplicate wire names (`model.py:211`): two fields with the same `name`
  option are accepted, and `_to_item` keeps the later value. Spec 3 has no
  rule on it, so no property states it. The declarations checked use
  distinct wire names.
- An unpaired `ConcurrencyLimiter.release()` returns a permit that is still
  held. `BoundedSemaphore` raises only at the limit. The modelled threads
  release only what they hold.
- `delete_table`'s wait times out if another caller recreates the table
  before its next poll. No property states the deleter's outcome.
- Two update-side hazards are DynamoDB refusals with no state change:
  - the same field updated twice reuses one placeholder
    (`update_builder.py:145`), and DynamoDB refuses the overlapping paths;
  - an empty set sent to ADD / DELETE is encoded as NULL, as spec 4.1
    says, and DynamoDB refuses it.

  Both surface as ValidationError. On the put / get path, the NULL rule is checked by
  `GetReturnsPut` and `ItemReadable`.
- Backoff delays in the retry loops: only the number of attempts is kept. The
  sleeps change nothing a property sees.
- Lambda client cache (`runtime.py` 88-110): modelled (`ClientCaches`) but
  without a property. The key ignores `config`, `session` and `metrics`, so
  a later caller may get the first caller's client. Spec 9 describes the
  cache as keyed by service and region, so this is a hazard, not a finding.
  Two threads that miss at once each make a client, and the later store
  wins. Both clients are equivalent, so no caller can tell which one is
  cached. This is not listed as a hazard.
