----------------------------- MODULE ItemWrites -----------------------------
(***************************************************************************)
(* The single-item and transactional writes of Table                       *)
(* (src/py/src/theorydb_py/table.py): get, put, delete, update with        *)
(* _build_update_request, and transact_write over the actions of           *)
(* transaction.py, with the backend errors mapped by aws_errors.py.        *)
(*                                                                         *)
(* One caller issues one call at a time.  A call is built locally (which   *)
(* may raise ValidationError), sent, evaluated by the table atomically,    *)
(* and its answer mapped.  The answer may be lost, and botocore then       *)
(* re-sends the identical request, up to MaxAttempts attempts.  A          *)
(* TransactWriteItems request carries the ClientRequestToken botocore      *)
(* fills in (an idempotency token), so a re-send of a transaction that     *)
(* already committed returns success without applying it again; put_item,  *)
(* delete_item and update_item carry no token.  Other writers change items *)
(* between calls and hold items in transactions of their own (busy).       *)
(*                                                                         *)
(* An item is its non-key attributes; a condition expression is kept as    *)
(* its structure: attribute_exists / attribute_not_exists of the key, or   *)
(* #name = :value with the caller's placeholder maps.                      *)
(***************************************************************************)
EXTENDS Integers, Sequences, SequencesExt, FiniteSets

CONSTANTS
    Key,          \* item keys (pk, sk) the caller names
    Field,        \* the model's python field names
    KeyField,     \* the key fields
    AttrName,     \* field -> attribute_name
    Val,          \* attribute values
    Conds,        \* condition expressions a caller passes
    Names,        \* expression_attribute_names maps a caller passes
    Values,       \* expression_attribute_values maps a caller passes
    Updates,      \* updates dicts a caller passes (None removes)
    PutItems,     \* items a caller puts (their non-key attributes)
    TxActions,    \* transaction actions a caller composes
    MaxActions,   \* the 100-action limit of transact_write, scaled down
    MaxAttempts,  \* botocore attempts per request
    Calls,        \* the Table methods the caller uses
    Missing,      \* an attribute absent from an item
    None          \* Python None; also an absent item

DataAttr == {AttrName[f] : f \in Field \ KeyField}
Item == [DataAttr -> Val \cup {Missing}]

ASSUME MaxActions \in Nat \ {0} /\ MaxAttempts \in Nat \ {0}
ASSUME Calls \subseteq {"get", "put", "delete", "update", "transact_write"}

VARIABLES
    table,   \* key -> item, or None
    busy,    \* keys held by another writer's transaction in progress
    call,    \* the call in flight, or None
    result   \* how the last call ended, with what it saw

vars == <<table, busy, call, result>>

Ops == {"put", "delete", "update", "transact_write"}
NoCond == [kind |-> "none", name |-> None, value |-> None]
EmptyMap == <<>>

-----------------------------------------------------------------------------
(* Request compilation (table.py 678-747, 750-913).                        *)

\* A built request; fields a kind does not use are empty.
Req(ty, k, it, st, rm, cd, nm, vl) ==
    [type |-> ty, key |-> k, item |-> it, set |-> st, remove |-> rm,
     cond |-> cd, names |-> nm, values |-> vl]

\* put / delete / a Put, Delete or ConditionCheck action: the caller's
\* condition, names and values are passed through when given.
Plain(type, k, item, c, names, values) ==
    Req(type, k, item, {}, {}, c, names, values)

NameRef(f) == "#d_" \o f
ValueRef(f) == ":d_" \o f

\* The meaning of a condition on an item: the caller's placeholders are
\* resolved through its names and values maps.
CondHolds(item, c, names, values) ==
    CASE c.kind = "none"       -> TRUE
      [] c.kind = "exists"     -> item # None
      [] c.kind = "not_exists" -> item = None
      [] c.kind = "eq"         -> item # None /\ item[names[c.name]] = values[c.value]

\* The generated placeholders of an updates dict: #d_<field> for every
\* field, :d_<field> for the fields set to a value.
SetFields(upd) == {f \in DOMAIN upd : upd[f] # None}
GenNames(upd) == [r \in {NameRef(f) : f \in DOMAIN upd} |->
                    AttrName[CHOOSE f \in DOMAIN upd : NameRef(f) = r]]
GenValues(upd) == [r \in {ValueRef(f) : f \in SetFields(upd)} |->
                     upd[CHOOSE f \in SetFields(upd) : ValueRef(f) = r]]

\* The SET and REMOVE parts, built with the merged maps.
UpdateReq(k, upd, c, names, values) ==
    Req("Update", k, None, {<<NameRef(f), ValueRef(f)>> : f \in SetFields(upd)},
        {NameRef(f) : f \in DOMAIN upd \ SetFields(upd)}, c, names, values)

\* The field checks of _build_update_request: unknown field, key field,
\* no updates at all.
UpdatesValid(upd) ==
    /\ \A f \in DOMAIN upd : f \in Field /\ f \notin KeyField
    /\ DOMAIN upd # {}

\* Mutant: the caller's names and values copied over the generated ones
\* without the collision checks.
BuildUpdateNoCollisionCheck(k, upd, c, names, values) ==
    IF ~UpdatesValid(upd) THEN {}
    ELSE {UpdateReq(k, upd, c, names @@ GenNames(upd), values @@ GenValues(upd))}

\* _build_update_request: the request, or {} when it raises ValidationError
\* (a field check, or a caller name / value colliding with a generated one).
BuildUpdate(k, upd, c, names, values) ==
    IF \/ ~UpdatesValid(upd)
       \/ DOMAIN names \cap DOMAIN GenNames(upd) # {}
       \/ DOMAIN values \cap DOMAIN GenValues(upd) # {}
    THEN {}
    ELSE {UpdateReq(k, upd, c, GenNames(upd) @@ names, GenValues(upd) @@ values)}

\* A caller's action (transaction.py; put / delete / update take the same
\* fields as arguments).
Action(ty, k, it, upd, c, nm, vl) ==
    [type |-> ty, key |-> k, item |-> it, updates |-> upd, cond |-> c,
     names |-> nm, values |-> vl]

\* The request of one action; {} when it raises.
BuildAction(a) ==
    IF a.type = "Update" THEN BuildUpdate(a.key, a.updates, a.cond, a.names, a.values)
    ELSE {Plain(a.type, a.key, a.item, a.cond, a.names, a.values)}

\* transact_write's checks and its loop over the actions: the transact
\* items, or {} when it raises ValidationError.
BuildTransaction(acts) ==
    IF \/ Len(acts) = 0 \/ Len(acts) > MaxActions
       \/ \E i \in DOMAIN acts : BuildAction(acts[i]) = {}
    THEN {}
    ELSE {[i \in DOMAIN acts |-> CHOOSE r \in BuildAction(acts[i]) : TRUE]}

-----------------------------------------------------------------------------
(* The table's evaluation of a request (the DynamoDB contract).            *)

CondNames(r) == IF r.cond.kind = "eq" THEN {r.cond.name} ELSE {}
CondValues(r) == IF r.cond.kind = "eq" THEN {r.cond.value} ELSE {}
UsedNames(r) == CondNames(r) \cup {p[1] : p \in r.set} \cup r.remove
UsedValues(r) == CondValues(r) \cup {p[2] : p \in r.set}
Targets(r) == {r.names[p[1]] : p \in r.set} \cup {r.names[x] : x \in r.remove}

\* Rejected with ValidationException: a placeholder used but not bound or
\* bound but not used, a ConditionCheck without a condition, two update
\* paths on one attribute.
WellFormed(r) ==
    /\ UsedNames(r) = DOMAIN r.names /\ UsedValues(r) = DOMAIN r.values
    /\ r.type = "ConditionCheck" => r.cond.kind # "none"
    /\ Cardinality(Targets(r)) = Cardinality(r.set) + Cardinality(r.remove)

Holds(item, r) == CondHolds(item, r.cond, r.names, r.values)

\* The item after the write; UpdateItem creates an absent item.
Effect(item, r) ==
    CASE r.type = "Put"            -> r.item
      [] r.type = "Delete"         -> None
      [] r.type = "ConditionCheck" -> item
      [] r.type = "Update" ->
           LET base == IF item = None THEN [a \in DataAttr |-> Missing] ELSE item
               setTo(a) == {r.values[p[2]] : p \in {p \in r.set : r.names[p[1]] = a}}
           IN [a \in DataAttr |->
                 IF setTo(a) # {} THEN CHOOSE v \in setTo(a) : TRUE
                 ELSE IF a \in {r.names[x] : x \in r.remove} THEN Missing
                 ELSE base[a]]

\* The table after a transaction's writes (its keys are distinct).
ApplyAll(tbl, rs) ==
    [k \in Key |-> IF \E i \in DOMAIN rs : rs[i].key = k
                   THEN Effect(tbl[k], rs[CHOOSE i \in DOMAIN rs : rs[i].key = k])
                   ELSE tbl[k]]

\* The CancellationReasons a transaction may get: TransactionConflict on an
\* item another transaction holds (or ConditionalCheckFailed, if its
\* condition is false too), ConditionalCheckFailed where the condition is
\* false, None elsewhere.
ReasonChoices(r) ==
    LET ok == Holds(table[r.key], r) IN
    IF r.key \in busy
    THEN {"TransactionConflict"} \cup (IF ok THEN {} ELSE {"ConditionalCheckFailed"})
    ELSE IF ok THEN {"None"} ELSE {"ConditionalCheckFailed"}
Reasons(rs) ==
    {f \in [DOMAIN rs -> {"None", "ConditionalCheckFailed", "TransactionConflict"}]
        : \A i \in DOMAIN rs : f[i] \in ReasonChoices(rs[i])}

-----------------------------------------------------------------------------
(* Error mapping (aws_errors.py 14-48).                                    *)

\* map_client_error: the error code decides the class.
MapClientError(code) ==
    CASE code = "ConditionalCheckFailedException" -> "ConditionFailedError"
      [] code = "ValidationException"             -> "ValidationError"
      [] code = "ResourceNotFoundException"       -> "NotFoundError"
      [] OTHER                                    -> "AwsError"

\* Mutant: every cancelled transaction promoted to ConditionFailedError.
MapTransactionErrorAnyReason(resp) ==
    IF resp.code = "TransactionCanceledException" THEN "ConditionFailedError"
    ELSE MapClientError(resp.code)

\* map_transaction_error: a cancellation with a ConditionalCheckFailed
\* reason (the message lists the same codes) is ConditionFailedError, any
\* other cancellation TransactionCanceledError with every reason code.
MapTransactionError(resp) ==
    IF resp.code = "TransactionCanceledException"
    THEN IF "ConditionalCheckFailed" \in ToSet(resp.reasons)
         THEN "ConditionFailedError" ELSE "TransactionCanceledError"
    ELSE MapClientError(resp.code)

\* What the call raises or returns for an answer.
Outcome(op, resp) ==
    IF resp.code = "ok" THEN "ok"
    ELSE IF op = "transact_write" THEN MapTransactionError(resp)
    ELSE MapClientError(resp.code)

-----------------------------------------------------------------------------

Codes == {"ok", "ConditionalCheckFailedException", "ValidationException",
          "TransactionCanceledException", "TransactionConflictException"}
Outcomes == {"ok", "ConditionFailedError", "ValidationError", "NotFoundError",
             "AwsError", "TransactionCanceledError", "ConnectionError"}
NoResp == [code |-> "none", reasons |-> <<>>]

TypeOK ==
    /\ table \in [Key -> Item \cup {None}]
    /\ busy \subseteq Key
    /\ call = None \/
       /\ call.op \in Ops
       /\ call.attempts \in 1..MaxAttempts
       /\ call.phase \in {"sent", "answered"}
       /\ call.resp.code \in Codes \cup {"none"}
       /\ call.committed \in BOOLEAN
    /\ result = None \/ (result.op \in Ops \cup {"get"} /\ result.outcome \in Outcomes)

Init ==
    /\ table \in [Key -> Item \cup {None}]
    /\ busy = {}
    /\ call = None
    /\ result = None

\* How a call ended: what it raised or returned, the reason codes of a
\* TransactionCanceledError, and (history) whether some attempt applied it
\* and whether its last evaluated attempt saw a false condition.
Result(o, oc, rs, cm, cf) ==
    [op |-> o, outcome |-> oc, reasons |-> rs, committed |-> cm,
     condFalse |-> cf]

\* The call as the caller meant it (args) and the requests sent for it.
Send(o, ag, rq) ==
    /\ call' = [op |-> o, args |-> ag, reqs |-> rq, attempts |-> 1,
                phase |-> "sent", resp |-> NoResp, committed |-> FALSE,
                condFalse |-> FALSE]
    /\ result' = None

\* A call whose local checks raise ValidationError: nothing is sent.
Refuse(op, args) ==
    /\ result' = Result(op, "ValidationError", <<>>, FALSE, FALSE)
    /\ UNCHANGED call

\* Table.put / Table.delete: the request carries the caller's condition.
PutOrDelete ==
    /\ call = None
    /\ \E k \in Key, c \in Conds, n \in Names, v \in Values :
         \/ "put" \in Calls /\ \E it \in PutItems :
              Send("put", <<Action("Put", k, it, EmptyMap, c, n, v)>>,
                   <<Plain("Put", k, it, c, n, v)>>)
         \/ "delete" \in Calls /\ Send("delete", <<Action("Delete", k, None, EmptyMap, c, n, v)>>,
                 <<Plain("Delete", k, None, c, n, v)>>)
    /\ UNCHANGED <<table, busy>>

\* Table.update: _build_update_request, then update_item.
Update ==
    /\ call = None /\ "update" \in Calls
    /\ \E k \in Key, upd \in Updates, c \in Conds, n \in Names, v \in Values :
         LET a == Action("Update", k, None, upd, c, n, v) IN
         IF BuildUpdate(k, upd, c, n, v) = {} THEN Refuse("update", <<a>>)
         ELSE \E r \in BuildUpdate(k, upd, c, n, v) : Send("update", <<a>>, <<r>>)
    /\ UNCHANGED <<table, busy>>

\* Table.transact_write: validate, build every transact item, send one
\* TransactWriteItems request.
TransactWrite ==
    /\ call = None /\ "transact_write" \in Calls
    /\ \E len \in 0..(MaxActions + 1) : \E as \in [1..len -> TxActions] :
         IF BuildTransaction(as) = {} THEN Refuse("transact_write", as)
         ELSE \E rs \in BuildTransaction(as) : Send("transact_write", as, rs)
    /\ UNCHANGED <<table, busy>>

\* Table.get: NotFoundError for an absent item.
Get ==
    /\ call = None /\ "get" \in Calls
    /\ \E k \in Key :
         result' = Result("get", IF table[k] = None THEN "NotFoundError" ELSE "ok",
                          <<>>, FALSE, FALSE)
    /\ UNCHANGED <<table, busy, call>>

-----------------------------------------------------------------------------
(* The table and the SDK.                                                  *)

\* Some action's condition, as the caller wrote it, is false in the table
\* the attempt is evaluated against (with the maps sent).
SomeConditionFalse ==
    \E i \in DOMAIN call.args :
        ~CondHolds(table[call.args[i].key], call.args[i].cond,
                   call.reqs[i].names, call.reqs[i].values)

\* The attempt's answer, and the table it leaves.
Answer(cd, rs, tbl, applied) ==
    /\ table' = tbl
    /\ call' = [call EXCEPT !.phase = "answered", !.resp = [code |-> cd, reasons |-> rs],
                            !.committed = @ \/ applied,
                            !.condFalse = cd # "ValidationException" /\ SomeConditionFalse]

\* PutItem / DeleteItem / UpdateItem: validate, conflict with a pending
\* transaction, evaluate the condition, write.
ExecuteSingle ==
    LET r == call.reqs[1] IN
    CASE ~WellFormed(r)           -> Answer("ValidationException", <<>>, table, FALSE)
      [] r.key \in busy           -> Answer("TransactionConflictException", <<>>, table, FALSE)
      [] ~Holds(table[r.key], r)  -> Answer("ConditionalCheckFailedException", <<>>, table, FALSE)
      [] OTHER -> Answer("ok", <<>>, [table EXCEPT ![r.key] = Effect(@, r)], TRUE)

\* TransactWriteItems: a re-send with the token of a committed request
\* succeeds without effect; two actions on one item are refused; otherwise
\* all writes apply or, with any reason other than None, none.
ExecuteTransaction ==
    LET rs == call.reqs IN
    IF call.committed
    THEN /\ call' = [call EXCEPT !.phase = "answered", !.resp = [code |-> "ok", reasons |-> <<>>]]
         /\ UNCHANGED table
    ELSE IF \/ \E i \in DOMAIN rs : ~WellFormed(rs[i])
            \/ \E i, j \in DOMAIN rs : i # j /\ rs[i].key = rs[j].key
    THEN Answer("ValidationException", <<>>, table, FALSE)
    ELSE \E rsn \in Reasons(rs) :
           IF \A i \in DOMAIN rs : rsn[i] = "None"
           THEN Answer("ok", <<>>, ApplyAll(table, rs), TRUE)
           ELSE Answer("TransactionCanceledException", rsn, table, FALSE)

Execute ==
    /\ call # None /\ call.phase = "sent"
    /\ IF call.op = "transact_write" THEN ExecuteTransaction ELSE ExecuteSingle
    /\ UNCHANGED <<busy, result>>

\* Mutant: the attempt budget tested with <=.
LoseOneMore ==
    /\ call # None
    /\ IF call.attempts <= MaxAttempts
       THEN /\ call' = [call EXCEPT !.attempts = @ + 1, !.phase = "sent", !.resp = NoResp]
            /\ UNCHANGED result
       ELSE /\ call' = None
            /\ result' = Result(call.op, "ConnectionError", <<>>, call.committed,
                                 call.condFalse)
    /\ UNCHANGED <<table, busy>>

\* The request or its answer is lost: botocore re-sends the same request,
\* or, with the attempts spent, raises a connection error (not a
\* ClientError, so not mapped).
Lose ==
    /\ call # None
    /\ IF call.attempts < MaxAttempts
       THEN /\ call' = [call EXCEPT !.attempts = @ + 1, !.phase = "sent", !.resp = NoResp]
            /\ UNCHANGED result
       ELSE /\ call' = None
            /\ result' = Result(call.op, "ConnectionError", <<>>, call.committed,
                                 call.condFalse)
    /\ UNCHANGED <<table, busy>>

\* The answer arrives: a ClientError is mapped once and raised; update
\* returns the ALL_NEW attributes, which a successful UpdateItem has.
Return ==
    /\ call # None /\ call.phase = "answered"
    /\ call' = None
    /\ result' = Result(call.op, Outcome(call.op, call.resp), call.resp.reasons,
                         call.committed, call.condFalse)
    /\ UNCHANGED <<table, busy>>

\* Another writer changes an item no transaction holds.
OtherWrite ==
    /\ \E k \in Key \ busy, it \in Item \cup {None} : table' = [table EXCEPT ![k] = it]
    /\ UNCHANGED <<busy, call, result>>

\* Another writer's transaction takes or releases an item.
OtherTransaction ==
    /\ \E k \in Key : busy' = IF k \in busy THEN busy \ {k} ELSE busy \cup {k}
    /\ UNCHANGED <<table, call, result>>

Next ==
    \/ PutOrDelete \/ Update \/ TransactWrite \/ Get
    \/ Execute \/ Lose \/ Return
    \/ OtherWrite \/ OtherTransaction

Spec == Init /\ [][Next]_vars

-----------------------------------------------------------------------------
(* Properties                                                              *)

\* The item an action means to leave: put's item, no item, the same item,
\* or the old item with each field of updates set (None: removed).
Intended(item, a) ==
    CASE a.type = "Put"            -> a.item
      [] a.type = "Delete"         -> None
      [] a.type = "ConditionCheck" -> item
      [] a.type = "Update" ->
           LET base == IF item = None THEN [x \in DataAttr |-> Missing] ELSE item
               field(x) == {f \in DOMAIN a.updates : AttrName[f] = x}
           IN [x \in DataAttr |->
                 IF field(x) = {} THEN base[x]
                 ELSE LET v == a.updates[CHOOSE f \in field(x) : TRUE]
                      IN IF v = None THEN Missing ELSE v]

\* An attempt of a put, delete, update or transact_write that the table
\* answers with success (a transaction's first commit, not a re-send the
\* token answers) did what the caller wrote: every action's condition held
\* and every item it names became the intended item, no other item changed.
\* _build_update_request's generated #d_ / :d_ placeholders and the
\* caller's own must not capture one another.
SuccessMeansIntended ==
    [][(/\ call # None /\ call.phase = "sent" /\ call' # None
        /\ call'.phase = "answered" /\ call'.resp.code = "ok"
        /\ ~(call.op = "transact_write" /\ call.committed))
       => LET as == call.args IN
          /\ ~SomeConditionFalse
          /\ table' = [k \in Key |->
                         IF \E i \in DOMAIN as : as[i].key = k
                         THEN Intended(table[k], as[CHOOSE i \in DOMAIN as : as[i].key = k])
                         ELSE table[k]]]_vars

\* transact_write raises ConditionFailedError only when a condition of the
\* transaction really was false and nothing of it was applied, across
\* conflicts with other transactions and re-sent requests.
TxConditionFailedMeansNotApplied ==
    (result # None /\ result.op = "transact_write"
        /\ result.outcome = "ConditionFailedError") =>
        ~result.committed /\ result.condFalse

\* Spec §7: a conditional write that raises ConditionFailedError was not
\* applied (put / delete / update, whose requests carry no idempotency
\* token).
WriteConditionFailedMeansNotApplied ==
    (result # None /\ result.op \in {"put", "delete", "update"}
        /\ result.outcome = "ConditionFailedError") => ~result.committed
====
