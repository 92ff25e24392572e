--------------------------- MODULE UpdateCompiler ---------------------------
(***************************************************************************)
(* UpdateBuilder (src/py/src/theorydb_py/update_builder.py): the builder   *)
(* methods append to two lists, _updates and _conditions; execute compiles  *)
(* them (_build_request) into an UpdateExpression of the clauses SET,      *)
(* REMOVE, ADD, DELETE, a ConditionExpression, and the placeholder maps    *)
(* ExpressionAttributeNames / ExpressionAttributeValues, and sends it.     *)
(*                                                                         *)
(* Expressions are kept as the structure their strings spell: a clause is  *)
(* a sequence of parts, a part names its placeholders; the condition is    *)
(* the sequence of terms and the AND / OR words between them.  A value     *)
(* placeholder is <<prefix, counter>> (":u1" is <<":u", 1>>), a name       *)
(* placeholder <<prefix, field>> ("#u_name" is <<"#u", "name">>).  Each    *)
(* part also records the values the caller passed for its placeholders    *)
(* (src); DynamoDB never sees it.                                          *)
(***************************************************************************)
EXTENDS Integers, Sequences, SequencesExt, FiniteSets

CONSTANTS
    Field,       \* python names of the model's attributes
    Unknown,     \* a field name the model does not declare
    KeyField,    \* the pk / sk fields
    Encrypted,   \* encrypted fields
    SetField,    \* set-typed fields
    Structured,  \* json or binary fields
    AttrName,    \* python name -> DynamoDB attribute name
    VersionField,\* the field condition_version finds, or None
    Value,       \* values callers pass to updates
    Number,      \* those of them that are int / float / Decimal
    Index,       \* list indexes callers pass
    CondOp,      \* operator strings callers pass to condition / or_condition
    CondValue,   \* values callers pass to conditions (None, scalars, Pair)
    Pair,        \* a two-element tuple value
    PairItems,   \* its elements
    MaxUpdates, MaxConditions,
    None

ASSUME KeyField \subseteq Field /\ Unknown \notin Field /\ VersionField \in Field \cup {None}
ASSUME Number \subseteq Value /\ Len(PairItems) = 2

VARIABLES
    updates,      \* UpdateBuilder._updates
    conditions,   \* UpdateBuilder._conditions
    returnValues, \* UpdateBuilder._return_values
    status,       \* "building", "sent" or "ValidationError"
    request       \* the update_item request execute sent

vars == <<updates, conditions, returnValues, status, request>>

Names == Field \cup {Unknown}
Kinds == {"SET", "SET_IF_NOT_EXISTS", "ADD", "REMOVE", "DELETE", "APPEND_LIST",
          "PREPEND_LIST", "REMOVE_LIST_AT", "SET_LIST_ELEMENT"}
Update == [kind : Kinds, field : Names, value : Value \cup {None}, index : Index \cup {None}]
Condition == [logic : {"AND", "OR"}, field : Names, op : CondOp, value : CondValue]
NoRequest == [set |-> <<>>]

-----------------------------------------------------------------------------
(* Builder methods (update_builder.py 26-102).                             *)

AddUpdate(u) ==
    /\ status = "building" /\ Len(updates) < MaxUpdates
    /\ updates' = Append(updates, u)
    /\ UNCHANGED <<conditions, returnValues, status, request>>

AddCondition(c) ==
    /\ status = "building" /\ Len(conditions) < MaxConditions
    /\ conditions' = Append(conditions, c)
    /\ UNCHANGED <<updates, returnValues, status, request>>

Op(k, f, v, i) == [kind |-> k, field |-> f, value |-> v, index |-> i]

\* set, set_if_not_exists (its _value is dropped), add (increment and
\* decrement are add of 1 / -1), delete, set_list_element.
SetLike(kind, f, v) == AddUpdate(Op(kind, f, v, None))
\* remove; append_to_list / prepend_to_list (the list is one value).
FieldOnly(kind, f) == AddUpdate(Op(kind, f, None, None))
\* remove_from_list_at, set_list_element.
AtIndex(kind, f, i, v) == AddUpdate(Op(kind, f, v, i))

\* condition, or_condition, condition_exists, condition_not_exists.
Cond(lg, f, o, v) == AddCondition([logic |-> lg, field |-> f, op |-> o, value |-> v])

\* condition_version: the version field, or ValidationError at the call.
ConditionVersion(v) ==
    IF VersionField # None
    THEN Cond("AND", VersionField, "=", v)
    ELSE /\ status = "building"
         /\ status' = "ValidationError"
         /\ UNCHANGED <<updates, conditions, returnValues, request>>

SetReturnValues(o) ==
    /\ status = "building"
    /\ returnValues' = o
    /\ UNCHANGED <<updates, conditions, status, request>>

-----------------------------------------------------------------------------
(* _build_request (update_builder.py 120-325).                             *)

EmptyMap == [x \in {} |-> None]
UpdateRef(f) == <<"#u", f>>
CondRef(f) == <<"#c", f>>
Fail(acc) == [acc EXCEPT !.err = TRUE]
Plain(f) == f \notin SetField \cup Structured

Start == [err |-> FALSE, names |-> EmptyMap, uvals |-> EmptyMap, cvals |-> EmptyMap,
          uc |-> 0, cc |-> 0, SET |-> <<>>, REMOVE |-> <<>>, ADD |-> <<>>,
          DELETE |-> <<>>, terms |-> <<>>, ops |-> <<>>]

\* Mutant: update_name_ref without the key-field check.
UpdateNameRefNoKeyCheck(acc, f) ==
    IF f \notin Field THEN Fail(acc)
    ELSE [acc EXCEPT !.names = @ @@ (UpdateRef(f) :> AttrName[f])]

\* update_name_ref: unknown and key fields refused; "#u_<field>" bound to
\* the attribute name with setdefault.
UpdateNameRef(acc, f) ==
    IF f \notin Field \/ f \in KeyField THEN Fail(acc)
    ELSE [acc EXCEPT !.names = @ @@ (UpdateRef(f) :> AttrName[f])]

\* A part of a clause whose value placeholder comes from update_value_ref /
\* raw_value_ref: ":u<n>" with the next counter, bound to val.
UPart(acc, clause, fm, f, val, idx) ==
    LET r == <<":u", acc.uc + 1>> IN
    [acc EXCEPT !.uc = @ + 1, !.uvals = @ @@ (r :> val),
                ![clause] = Append(@, [form |-> fm, name |-> UpdateRef(f),
                                       vals |-> <<r>>, src |-> <<val>>, index |-> idx])]

\* A REMOVE part: the path, or the path with a list index.
RPart(acc, f, idx) ==
    [acc EXCEPT !.REMOVE = Append(@, [form |-> "path", name |-> UpdateRef(f),
                                     vals |-> <<>>, src |-> <<>>, index |-> idx])]

\* One entry of _updates (lines 188-273).  A typed value is serialised for
\* its field (_serialize_attr_value), a raw one by the plain serializer;
\* normalize_set makes a scalar a one-element set.
UStep(acc, u) ==
    LET f == u.field
        a == UpdateNameRef(acc, f)
        listOk == f \notin Encrypted /\ Plain(f)
    IN IF acc.err \/ a.err THEN a
       ELSE CASE u.kind = "SET" -> UPart(a, "SET", "=", f, <<f, u.value>>, None)
              [] u.kind = "SET_IF_NOT_EXISTS" ->
                    UPart(a, "SET", "if_not_exists", f, <<f, u.value>>, None)
              [] u.kind = "REMOVE" -> RPart(a, f, None)
              [] u.kind = "ADD" ->
                    IF f \in Encrypted THEN Fail(a)
                    ELSE IF f \in SetField THEN UPart(a, "ADD", "add", f, <<f, {u.value}>>, None)
                    ELSE IF u.value \notin Number THEN Fail(a)
                    ELSE UPart(a, "ADD", "add", f, <<"raw", u.value>>, None)
              [] u.kind = "DELETE" ->
                    IF f \in Encrypted \/ f \notin SetField THEN Fail(a)
                    ELSE UPart(a, "DELETE", "delete", f, <<f, {u.value}>>, None)
              [] u.kind \in {"APPEND_LIST", "PREPEND_LIST"} ->
                    IF ~listOk THEN Fail(a)
                    ELSE UPart(a, "SET", u.kind, f, <<"raw", u.value>>, None)
              [] u.kind = "REMOVE_LIST_AT" ->
                    IF ~listOk \/ u.index < 0 THEN Fail(a) ELSE RPart(a, f, u.index)
              [] u.kind = "SET_LIST_ELEMENT" ->
                    IF ~listOk \/ u.index < 0 THEN Fail(a)
                    ELSE UPart(a, "SET", "element", f, <<"raw", u.value>>, u.index)

\* The operator spellings _build_condition_term accepts (after .upper()),
\* and the term each compiles to.
TermForm ==
    ("ATTRIBUTE_EXISTS" :> "exists") @@ ("EXISTS" :> "exists")
    @@ ("ATTRIBUTE_NOT_EXISTS" :> "not_exists") @@ ("NOT_EXISTS" :> "not_exists")
    @@ ("=" :> "=") @@ ("EQ" :> "=") @@ ("!=" :> "<>") @@ ("<>" :> "<>")
    @@ ("NE" :> "<>") @@ ("<" :> "<") @@ ("LT" :> "<") @@ ("<=" :> "<=")
    @@ ("LE" :> "<=") @@ (">" :> ">") @@ ("GT" :> ">") @@ (">=" :> ">=")
    @@ ("GE" :> ">=") @@ ("BETWEEN" :> "BETWEEN") @@ ("IN" :> "IN")
    @@ ("BEGINS_WITH" :> "begins_with") @@ ("CONTAINS" :> "contains")

\* str(operator).strip().upper() on the lower-case spellings callers use.
LowerSpelling ==
    ("attribute_exists" :> "ATTRIBUTE_EXISTS")
    @@ ("attribute_not_exists" :> "ATTRIBUTE_NOT_EXISTS")
    @@ ("between" :> "BETWEEN") @@ ("in" :> "IN")
Upper(op) == IF op \in DOMAIN LowerSpelling THEN LowerSpelling[op] ELSE op

\* condition_name_ref: unknown and encrypted fields refused; "#c_<field>".
CondNameRef(acc, f) ==
    IF f \notin Field \/ f \in Encrypted THEN Fail(acc)
    ELSE [acc EXCEPT !.names = @ @@ (CondRef(f) :> AttrName[f])]

\* Mutant: condition values numbered in the ":u" namespace of the updates.
CPartSharedPrefix(acc, lw, tf, f, vs) ==
    LET refs == [i \in 1..Len(vs) |-> <<":u", acc.cc + i>>]
        vals == [i \in 1..Len(vs) |-> <<f, vs[i]>>]
    IN [acc EXCEPT !.cc = @ + Len(vs),
            !.cvals = @ @@ [r \in ToSet(refs) |-> <<f, vs[r[2] - acc.cc]>>],
            !.terms = Append(@, [form |-> tf, name |-> CondRef(f), vals |-> refs,
                                 src |-> vals, index |-> None]),
            !.ops = IF acc.terms = <<>> THEN @ ELSE Append(@, lw)]

\* A term with its value placeholders ":c<n>" (condition_value_ref), and
\* the logic word before it when it is not the first (lines 292-303).
CPart(acc, lw, tf, f, vs) ==
    LET refs == [i \in 1..Len(vs) |-> <<":c", acc.cc + i>>]
        vals == [i \in 1..Len(vs) |-> <<f, vs[i]>>]
    IN [acc EXCEPT !.cc = @ + Len(vs),
            !.cvals = @ @@ [r \in ToSet(refs) |-> <<f, vs[r[2] - acc.cc]>>],
            !.terms = Append(@, [form |-> tf, name |-> CondRef(f), vals |-> refs,
                                 src |-> vals, index |-> None]),
            !.ops = IF acc.terms = <<>> THEN @ ELSE Append(@, lw)]

\* One entry of _conditions: its name, then _build_condition_term.
CStep(acc, c) ==
    LET a == CondNameRef(acc, c.field)
        op == Upper(c.op)
        v == c.value
        form == IF op \in DOMAIN TermForm THEN TermForm[op] ELSE "unsupported"
    IN IF acc.err \/ a.err THEN a
       ELSE CASE form \in {"exists", "not_exists"} ->
                    IF v # None THEN Fail(a) ELSE CPart(a, c.logic, form, c.field, <<>>)
              [] form = "BETWEEN" ->
                    IF v # Pair THEN Fail(a) ELSE CPart(a, c.logic, form, c.field, PairItems)
              [] form = "IN" ->
                    IF v # Pair THEN Fail(a) ELSE CPart(a, c.logic, form, c.field, PairItems)
              [] form = "unsupported" -> Fail(a)
              [] OTHER ->
                    IF v = None THEN Fail(a) ELSE CPart(a, c.logic, form, c.field, <<v>>)

\* Mutant: a clause written even when it has no parts.
ClausesKeepEmpty(acc) ==
    <<<<"SET", acc.SET>>, <<"REMOVE", acc.REMOVE>>, <<"ADD", acc.ADD>>, <<"DELETE", acc.DELETE>>>>

\* The four clauses in their fixed order, empty ones omitted (276-284).
Clauses(acc) ==
    SelectSeq(<<<<"SET", acc.SET>>, <<"REMOVE", acc.REMOVE>>,
                <<"ADD", acc.ADD>>, <<"DELETE", acc.DELETE>>>>,
              LAMBDA c : c[2] # <<>>)

\* The request: merged_values takes the update values, then the condition
\* values over them (dict.update).
Request(acc) ==
    [update |-> Clauses(acc), names |-> acc.names, values |-> acc.cvals @@ acc.uvals,
     terms |-> acc.terms, ops |-> acc.ops, returnValues |-> returnValues]

Compile(us, cs) == FoldLeft(CStep, FoldLeft(UStep, Start, us), cs)

\* execute: "no updates provided", compile, send update_item.
Execute ==
    /\ status = "building"
    /\ LET acc == Compile(updates, conditions) IN
         IF updates = <<>> \/ acc.err \/ Clauses(acc) = <<>>
         THEN /\ status' = "ValidationError" /\ UNCHANGED request
         ELSE /\ status' = "sent" /\ request' = Request(acc)
    /\ UNCHANGED <<updates, conditions, returnValues>>

Init ==
    /\ updates = <<>> /\ conditions = <<>> /\ returnValues = "NONE"
    /\ status = "building" /\ request = NoRequest

Next ==
    \/ \E k \in {"SET", "SET_IF_NOT_EXISTS", "ADD", "DELETE"}, f \in Names, v \in Value :
          SetLike(k, f, v)
    \/ \E k \in {"REMOVE", "APPEND_LIST", "PREPEND_LIST"}, f \in Names : FieldOnly(k, f)
    \/ \E f \in Names, i \in Index : AtIndex("REMOVE_LIST_AT", f, i, None)
    \/ \E f \in Names, i \in Index, v \in Value : AtIndex("SET_LIST_ELEMENT", f, i, v)
    \/ \E l \in {"AND", "OR"}, f \in Names, o \in CondOp, v \in CondValue : Cond(l, f, o, v)
    \/ \E v \in Number : ConditionVersion(v)
    \/ SetReturnValues("ALL_NEW")
    \/ Execute

Spec == Init /\ [][Next]_vars

-----------------------------------------------------------------------------
(* Properties                                                              *)

ClauseName == <<"SET", "REMOVE", "ADD", "DELETE">>
ClausePos(c) == CHOOSE k \in 1..4 : ClauseName[k] = c

\* The UpdateExpression is made of non-empty clauses, each at most once,
\* in the order SET, REMOVE, ADD, DELETE.
TypeOK ==
    /\ updates \in Seq(Update) /\ Len(updates) <= MaxUpdates
    /\ conditions \in Seq(Condition) /\ Len(conditions) <= MaxConditions
    /\ returnValues \in {"NONE", "ALL_NEW"}
    /\ status \in {"building", "sent", "ValidationError"}
    /\ status = "sent" =>
         /\ \A i \in DOMAIN request.update : request.update[i][2] # <<>>
         /\ \A i, j \in DOMAIN request.update :
              i < j => ClausePos(request.update[i][1]) < ClausePos(request.update[j][1])

\* Every part of every clause and of the condition in the sent request.
Parts(r) == UNION {ToSet(c[2]) : c \in ToSet(r.update)} \cup ToSet(r.terms)

\* Placeholders (spec 4.2): every name placeholder the expressions use is
\* bound to its field's attribute name, every value placeholder is bound to
\* the value the caller passed at that position, and nothing unused is
\* bound (DynamoDB refuses unused placeholders); one AND / OR word stands
\* between consecutive condition terms.  Update and condition values are
\* numbered by separate counters and merged into one map.
PlaceholdersBound ==
    status = "sent" =>
      LET parts == Parts(request) IN
      /\ \A p \in parts :
           /\ p.name \in DOMAIN request.names
           /\ request.names[p.name] = AttrName[p.name[2]]
           /\ \A i \in DOMAIN p.vals : /\ p.vals[i] \in DOMAIN request.values
                                      /\ request.values[p.vals[i]] = p.src[i]
      /\ DOMAIN request.names = {p.name : p \in parts}
      /\ DOMAIN request.values = UNION {ToSet(p.vals) : p \in parts}
      /\ request.terms # <<>> => Len(request.ops) = Len(request.terms) - 1

\* Spec invariants of the compiler: no key field is updated, and no
\* encrypted field appears in a condition, in ADD / DELETE or in a list
\* operation, whatever the builder calls were.
GuardsHold ==
    status = "sent" =>
      /\ \A c \in ToSet(request.update) : \A p \in ToSet(c[2]) :
           /\ p.name[2] \notin KeyField
           /\ (\/ c[1] \in {"ADD", "DELETE"}
               \/ p.form \in {"APPEND_LIST", "PREPEND_LIST", "element"}
               \/ p.index # None)
              => p.name[2] \notin Encrypted
      /\ \A t \in ToSet(request.terms) : t.name[2] \notin Encrypted

\* How DynamoDB evaluates one term on an item (attribute name -> value,
\* None when absent); comparisons with an absent attribute are false.
EvalTerm(t, item) ==
    LET x == item[request.names[t.name]]
        vs == [i \in DOMAIN t.vals |-> request.values[t.vals[i]][2]]
    IN CASE t.form = "exists" -> x # None
         [] t.form = "not_exists" -> x = None
         [] t.form = "=" -> x = vs[1]
         [] t.form = "<>" -> x # vs[1]
         [] t.form = "<" -> x # None /\ x < vs[1]
         [] t.form = "<=" -> x # None /\ x <= vs[1]
         [] t.form = ">" -> x # None /\ x > vs[1]
         [] t.form = ">=" -> x # None /\ x >= vs[1]
         [] t.form = "BETWEEN" -> x # None /\ vs[1] <= x /\ x <= vs[2]
         [] t.form = "IN" -> \E i \in DOMAIN vs : x = vs[i]
         [] OTHER -> x = vs[1]

\* DynamoDB's reading of "t1 op1 t2 op2 t3 ...": AND binds tighter than OR,
\* so the condition holds when some maximal AND-run of terms all hold.
DynamoEval(item) ==
    LET ts == request.terms  os == request.ops IN
    \E i, j \in 1..Len(ts) :
       /\ i <= j
       /\ i = 1 \/ os[i - 1] = "OR"
       /\ j = Len(ts) \/ os[j] = "OR"
       /\ \A k \in i..(j - 1) : os[k] = "AND"
       /\ \A k \in i..j : EvalTerm(ts[k], item)

\* The chained calls read in call order: each condition / or_condition
\* combines with everything before it.
ChainEval(item) ==
    LET ts == request.terms  os == request.ops IN
    FoldLeft(LAMBDA acc, k : IF os[k - 1] = "AND" THEN acc /\ EvalTerm(ts[k], item)
                                                ELSE acc \/ EvalTerm(ts[k], item),
             EvalTerm(ts[1], item), [i \in 1..(Len(ts) - 1) |-> i + 1])

Items == [{AttrName[f] : f \in Field} -> {None} \cup Number]

\* Spec 4.2: conditions are composed into AND / OR groups with explicit
\* parentheses, with no implicit precedence.  So the ConditionExpression
\* DynamoDB evaluates means what the chained condition / or_condition
\* calls say, in call order.
ConditionMeansChain ==
    (status = "sent" /\ request.terms # <<>>) =>
        \A item \in Items : DynamoEval(item) = ChainEval(item)
====
