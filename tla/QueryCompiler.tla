--------------------------- MODULE QueryCompiler ---------------------------
(***************************************************************************)
(* The read side of the expression compiler (table.py): query and scan     *)
(* build their request from the caller's arguments with _resolve_index,    *)
(* _apply_sort_condition (the KeyConditionExpression), _projection_        *)
(* expression and _filter_expression, and send it.  DynamoDB then selects  *)
(* the items whose key satisfies the key condition and, of those, the ones *)
(* the FilterExpression accepts, and projects them.                        *)
(*                                                                         *)
(* Expressions are kept as the structure their strings spell.  A name      *)
(* placeholder is <<prefix, field>> ("#f_n" is <<"#f", "n">>, "#pk" is     *)
(* <<"#k", "pk">>), a value placeholder <<prefix, n>> (":f3" is            *)
(* <<":f", 3>>, ":sk" is <<":sk", 0>>, ":sk1" is <<":sk", 1>>).  A filter  *)
(* is the sequence of tokens of its string: "(", ")", "AND", "OR" and      *)
(* terms.  A caller's Python value carries its type: <<"int", 1>>,        *)
(* <<"str", "a">>, <<"list", seq>>; it is serialised to a typed            *)
(* AttributeValue <<"N", 1>>, <<"S", "a">>.                                *)
(* The cursor argument is left to Pagination (it is None here).            *)
(***************************************************************************)
EXTENDS Integers, Sequences, SequencesExt, FiniteSets

CONSTANTS
    Field,        \* python names of the model's attributes
    Unknown,      \* a field name the model does not declare
    AttrName,     \* python name -> DynamoDB attribute name
    PkField, SkField,
    Encrypted,    \* encrypted fields
    NoDefault,    \* dataclass fields without a default or default_factory
    Index,        \* the model's indexes: [name, partition, sort, type]
    StrLess,      \* pairs <<a, b>> of string values with a < b
    Prefix,       \* pairs <<p, s>> of string values, p a proper prefix of s
    MaxIn,        \* the most values IN takes (100)
    Items,        \* stored items: attribute name -> AttributeValue or Absent
    QueryArgs,    \* the arguments callers pass to query
    ScanArgs,     \* the arguments callers pass to scan
    None

ASSUME {PkField, SkField} \subseteq Field /\ Unknown \notin Field
ASSUME NoDefault \subseteq Field

VARIABLES
    qcall,    \* the arguments of the caller's query / scan call
    qstatus,  \* "idle", "sent" or "ValidationError"
    qreq      \* the request sent

qvars == <<qcall, qstatus, qreq>>

Absent == <<"absent">>
NoRequest == [names |-> None]

\* self._serializer.serialize of a scalar: {"N": ...} or {"S": ...}.
Av(v) == <<IF v[1] = "int" THEN "N" ELSE "S", v[2]>>

\* Mutant: the filter's values sent without serialisation.
SerializeAttrRaw(f, v) == v

\* _to_item of the model's fields; the filter's values go through
\* _serialize_attr_value, which for these fields (no converter, set, json
\* or encryption) is the plain serializer.
SerializeAttr(f, v) == Av(v)

-----------------------------------------------------------------------------
(* The compilers.  An accumulator threads the placeholder maps and the     *)
(* value counter; err is raised ValidationError.                           *)

Fail(acc) == [acc EXCEPT !.err = TRUE]

\* _resolve_index: the base table's keys, or the named index's; an unknown
\* name raises.
ResolveIndex(name) ==
    IF name = None
    THEN [ok |-> TRUE, partition |-> AttrName[PkField], sort |-> AttrName[SkField],
          type |-> "TABLE"]
    ELSE IF \E i \in Index : i.name = name
         THEN LET i == CHOOSE j \in Index : j.name = name IN
              [ok |-> TRUE, partition |-> i.partition, sort |-> i.sort, type |-> i.type]
         ELSE [ok |-> FALSE, partition |-> None, sort |-> None, type |-> None]

SortOne == {"=", "<", "<=", ">", ">="}

\* The sort key term and its values: ":sk" for one value, ":sk1" and ":sk2"
\* for two.
SortTerm(acc, fm, vs) ==
    LET refs == IF Len(vs) = 1 THEN <<<<":sk", 0>>>> ELSE <<<<":sk", 1>>, <<":sk", 2>>>> IN
    [acc EXCEPT !.values = @ @@ [r \in ToSet(refs) |-> Av(vs[Max({r[2], 1})])],
                !.key = Append(@, [form |-> fm, name |-> <<"#k", "sk">>, vals |-> refs])]

\* _apply_sort_condition: "<prefix> AND #sk <op> :sk", "... AND #sk BETWEEN
\* :sk1 AND :sk2" or "... AND begins_with(#sk, :sk)"; a wrong number of
\* values or another operator raises.
ApplySortCondition(acc, cond) ==
    LET n == Len(cond.values) IN
    CASE cond.op \in SortOne -> IF n # 1 THEN Fail(acc) ELSE SortTerm(acc, cond.op, cond.values)
      [] cond.op = "between" -> IF n # 2 THEN Fail(acc) ELSE SortTerm(acc, "BETWEEN", cond.values)
      [] cond.op = "begins_with" -> IF n # 1 THEN Fail(acc) ELSE SortTerm(acc, "begins_with", cond.values)
      [] OTHER -> Fail(acc)

\* name_ref: unknown and encrypted fields raise; "#f_<field>", refused if
\* already bound to another attribute.
NameRef(acc, f) ==
    LET ref == <<"#f", f>> IN
    IF f \notin Field \/ f \in Encrypted THEN Fail(acc)
    ELSE IF ref \in DOMAIN acc.names /\ acc.names[ref] # AttrName[f] THEN Fail(acc)
    ELSE [acc EXCEPT !.names = (ref :> AttrName[f]) @@ @]

\* value_ref: ":f<counter>" after incrementing the counter, refused if bound.
ValueRefs(acc, f, vs) ==
    LET refs == [i \in DOMAIN vs |-> <<":f", acc.counter + i>>] IN
    IF \E i \in DOMAIN refs : refs[i] \in DOMAIN acc.values THEN Fail(acc)
    ELSE [acc EXCEPT !.counter = @ + Len(vs),
                     !.values = @ @@ [r \in ToSet(refs) |-> SerializeAttr(f, vs[r[2] - acc.counter])],
                     !.last = refs]

\* The filter operators build accepts (upper-cased) and the function or
\* comparator each one is written as.
FilterForm ==
    [o \in {"=", "EQ"} |-> "="] @@ [o \in {"!=", "<>", "NE"} |-> "<>"]
    @@ [o \in {"<", "LT"} |-> "<"] @@ [o \in {"<=", "LE"} |-> "<="]
    @@ [o \in {">", "GT"} |-> ">"] @@ [o \in {">=", "GE"} |-> ">="]
    @@ ("BETWEEN" :> "BETWEEN") @@ ("IN" :> "IN")
    @@ ("BEGINS_WITH" :> "begins_with") @@ ("CONTAINS" :> "contains")
    @@ [o \in {"EXISTS", "ATTRIBUTE_EXISTS"} |-> "attribute_exists"]
    @@ [o \in {"NOT_EXISTS", "ATTRIBUTE_NOT_EXISTS"} |-> "attribute_not_exists"]

\* str.upper() of the operator spellings callers use.
Upper(op) ==
    LET lower == ("between" :> "BETWEEN") @@ ("in" :> "IN") @@ ("begins_with" :> "BEGINS_WITH")
                 @@ ("contains" :> "CONTAINS") @@ ("exists" :> "EXISTS")
                 @@ ("not_exists" :> "NOT_EXISTS") @@ ("like" :> "LIKE")
    IN IF op \in DOMAIN lower THEN lower[op] ELSE op

Tok(k) == [kind |-> k]
Term(fm, ref, refs) == [kind |-> "term", form |-> fm, name |-> ref, vals |-> refs]

\* Whether the argument of IN is a sequence (a list or tuple, not a str).
IsList(v) == v[1] = "list"

\* One FilterCondition: its name, then its operator's arity, then its values.
BuildLeaf(node, acc) ==
    LET a == NameRef(acc, node.field)
        op == Upper(node.op)
        vs == node.values
        ref == <<"#f", node.field>>
        fm == IF op \in DOMAIN FilterForm THEN FilterForm[op] ELSE "unsupported"
        Out(b, ts) == [acc |-> b, toks |-> ts]
        Values(xs) == LET b == ValueRefs(a, node.field, xs) IN Out(b, <<Term(fm, ref, b.last)>>)
    IN IF a.err THEN Out(a, <<>>)
       ELSE CASE fm \in {"=", "<>", "<", "<=", ">", ">=", "begins_with", "contains"} ->
                   IF Len(vs) # 1 THEN Out(Fail(a), <<>>) ELSE Values(vs)
              [] fm = "BETWEEN" ->
                   IF Len(vs) # 2 THEN Out(Fail(a), <<>>) ELSE Values(vs)
              [] fm = "IN" ->
                   IF Len(vs) # 1 \/ ~IsList(vs[1]) \/ Len(vs[1][2]) > MaxIn
                   THEN Out(Fail(a), <<>>) ELSE Values(vs[1][2])
              [] fm \in {"attribute_exists", "attribute_not_exists"} ->
                   IF vs # <<>> THEN Out(Fail(a), <<>>) ELSE Out(a, <<Term(fm, ref, <<>>)>>)
              [] OTHER -> Out(Fail(a), <<>>)

\* Mutant: a group's parts joined without their parentheses.
GroupBare(parts, op) ==
    FlattenSeq([i \in DOMAIN parts |-> IF i = 1 THEN parts[i] ELSE <<Tok(op)>> \o parts[i]])

\* "(" + " <op> ".join(parts) + ")".
Group(parts, op) ==
    <<Tok("(")>>
    \o FlattenSeq([i \in DOMAIN parts |-> IF i = 1 THEN parts[i] ELSE <<Tok(op)>> \o parts[i]])
    \o <<Tok(")")>>

\* build: a FilterGroup builds its members in order, drops the empty ones
\* and is empty itself when none is left; the first error ends the build.
RECURSIVE Build(_, _)
Build(node, acc) ==
    IF node.kind = "cond" THEN BuildLeaf(node, acc)
    ELSE LET st == FoldLeft(LAMBDA s, f :
                              IF s.acc.err THEN s
                              ELSE LET r == Build(f, s.acc) IN
                                   [acc |-> r.acc,
                                    parts |-> IF r.toks = <<>> THEN s.parts ELSE Append(s.parts, r.toks)],
                            [acc |-> acc, parts |-> <<>>], node.filters)
         IN [acc |-> st.acc, toks |-> IF st.parts = <<>> THEN <<>> ELSE Group(st.parts, node.op)]

\* Mutant: only the key fields counted as required.
RequiredFieldsKeysOnly == {PkField, SkField}

\* _required_fields: the keys and every dataclass field with no default.
RequiredFields == {PkField, SkField} \cup NoDefault

\* _projection_expression: the projection must name every required field
\* and only declared ones; "#p_<field>" for each, in order.
ProjectionExpression(acc, proj) ==
    IF RequiredFields \ ToSet(proj) # {} \/ \E i \in DOMAIN proj : proj[i] \notin Field
    THEN Fail(acc)
    ELSE [acc EXCEPT !.names = [r \in {<<"#p", f>> : f \in ToSet(proj)} |-> AttrName[r[2]]] @@ @,
                     !.proj = [i \in DOMAIN proj |-> <<"#p", proj[i]>>]]

-----------------------------------------------------------------------------
(* query and scan: the checks in the order the code makes them, then the   *)
(* request.                                                                *)

NoAcc == [err |-> FALSE, names |-> <<>>, values |-> <<>>, counter |-> 0,
          key |-> <<>>, proj |-> <<>>, last |-> <<>>]

\* Mutant: "#sk" bound to the table's sort key whatever the index.
SortNameOfTable(acc, ix) == [acc EXCEPT !.names = @ @@ (<<"#k", "sk">> :> AttrName[SkField])]

\* names["#sk"] = sort_attr of the resolved index.
SortName(acc, ix) == [acc EXCEPT !.names = @ @@ (<<"#k", "sk">> :> ix.sort)]

\* Projection, then filter, on an accumulator that has not failed.
ProjectAndFilter(acc, args) ==
    LET a == IF args.projection = None THEN acc ELSE ProjectionExpression(acc, args.projection)
        f == IF args.filter = None \/ a.err THEN [acc |-> a, toks |-> None]
             ELSE Build(args.filter, a)
    IN f

\* The request of a query call, or [err |-> TRUE].
CompileQuery(args) ==
    LET ix == ResolveIndex(args.index) IN
    IF \/ ~ix.ok
       \/ ix.type = "GSI" /\ args.consistent
       \/ args.partition = None
       \/ args.limit # None /\ args.limit <= 0
    THEN [err |-> TRUE]
    ELSE LET a0 == [NoAcc EXCEPT !.names = <<"#k", "pk">> :> ix.partition,
                                 !.values = <<":pk", 0>> :> Av(args.partition),
                                 !.key = <<Term("=", <<"#k", "pk">>, <<<<":pk", 0>>>>)>>]
             a1 == IF args.sort = None THEN a0
                   ELSE IF ix.sort = None THEN Fail(a0)
                   ELSE ApplySortCondition(SortName(a0, ix), args.sort)
             t == IF a1.err THEN [acc |-> a1, toks |-> None] ELSE ProjectAndFilter(a1, args)
         IN IF t.acc.err THEN [err |-> TRUE]
            ELSE [err |-> FALSE, index |-> args.index, key |-> t.acc.key,
                  proj |-> IF args.projection = None THEN None ELSE t.acc.proj,
                  filter |-> t.toks, names |-> t.acc.names, values |-> t.acc.values]

\* The request of a scan call: the segment arguments are checked after the
\* projection and the filter, and the maps are sent only when not empty.
CompileScan(args) ==
    LET ix == ResolveIndex(args.index)
        seg == args.segment  tot == args.total
    IN
    IF \/ ~ix.ok
       \/ ix.type = "GSI" /\ args.consistent
       \/ args.limit # None /\ args.limit <= 0
    THEN [err |-> TRUE]
    ELSE LET t == ProjectAndFilter(NoAcc, args) IN
         IF \/ t.acc.err
            \/ (seg = None) # (tot = None)
            \/ seg # None /\ (seg < 0 \/ tot <= 0 \/ seg >= tot)
         THEN [err |-> TRUE]
         ELSE [err |-> FALSE, index |-> args.index, key |-> <<>>,
               proj |-> IF args.projection = None THEN None ELSE t.acc.proj,
               filter |-> t.toks,
               names |-> IF t.acc.names = <<>> THEN None ELSE t.acc.names,
               values |-> IF t.acc.values = <<>> THEN None ELSE t.acc.values]

\* A call compiles to a request that is sent, or raises ValidationError.
Call(args, r) ==
    /\ qstatus = "idle"
    /\ qcall' = args
    /\ IF r.err THEN qstatus' = "ValidationError" /\ qreq' = NoRequest
       ELSE qstatus' = "sent" /\ qreq' = r

Query(args) == Call(args, CompileQuery(args))
Scan(args) == Call(args, CompileScan(args))

Init == qcall = None /\ qstatus = "idle" /\ qreq = NoRequest

Next == \/ \E args \in QueryArgs : Query(args)
        \/ \E args \in ScanArgs : Scan(args)

Spec == Init /\ [][Next]_qvars

-----------------------------------------------------------------------------
(* How DynamoDB reads a request.                                           *)

Lt(a, b) ==
    /\ a # Absent /\ b # Absent /\ a[1] = b[1]
    /\ IF a[1] = "N" THEN a[2] < b[2] ELSE <<a[2], b[2]>> \in StrLess
Le(a, b) == a # Absent /\ (a = b \/ Lt(a, b))
BeginsWith(x, p) == x # Absent /\ x[1] = "S" /\ p[1] = "S" /\ (x = p \/ <<p[2], x[2]>> \in Prefix)

\* A comparator or function applied to an attribute x (Absent when the item
\* has none) and the values of its placeholders.
Test(fm, x, vs) ==
    CASE fm = "=" -> x = vs[1]
      [] fm = "<>" -> x # vs[1]
      [] fm = "<" -> Lt(x, vs[1])
      [] fm = "<=" -> Le(x, vs[1])
      [] fm = ">" -> Lt(vs[1], x)
      [] fm = ">=" -> Le(vs[1], x)
      [] fm = "BETWEEN" -> Le(vs[1], x) /\ Le(x, vs[2])
      [] fm = "IN" -> \E i \in DOMAIN vs : x = vs[i]
      [] fm = "begins_with" -> BeginsWith(x, vs[1])
      [] fm = "attribute_exists" -> x # Absent
      [] fm = "attribute_not_exists" -> x = Absent
      [] OTHER -> FALSE

EvalTerm(req, t, it) ==
    Test(t.form, it[req.names[t.name]], [i \in DOMAIN t.vals |-> req.values[t.vals[i]]])

Bad == [ok |-> FALSE, val |-> FALSE, next |-> 0]

\* The FilterExpression grammar: a disjunction of conjunctions of terms and
\* parenthesised expressions; AND binds tighter than OR.  Each parser
\* returns whether it matched, the value on item it and where it stopped.
RECURSIVE PDisj(_, _, _), PConj(_, _, _), PAtom(_, _, _), More(_, _, _, _)

PAtom(req, i, it) ==
    LET ts == req.filter IN
    IF i > Len(ts) THEN Bad
    ELSE IF ts[i].kind = "term" THEN [ok |-> TRUE, val |-> EvalTerm(req, ts[i], it), next |-> i + 1]
    ELSE IF ts[i].kind = "(" THEN
         LET e == PDisj(req, i + 1, it) IN
         IF e.ok /\ e.next <= Len(ts) /\ ts[e.next].kind = ")" THEN [e EXCEPT !.next = @ + 1] ELSE Bad
    ELSE Bad

\* Continue a run of "AND" (or "OR") operands after the operand a.
More(req, word, a, it) ==
    LET ts == req.filter IN
    IF a.ok /\ a.next <= Len(ts) /\ ts[a.next].kind = word
    THEN LET b == IF word = "AND" THEN PAtom(req, a.next + 1, it) ELSE PConj(req, a.next + 1, it) IN
         IF ~b.ok THEN Bad
         ELSE More(req, word, [ok |-> TRUE, next |-> b.next,
                               val |-> IF word = "AND" THEN a.val /\ b.val ELSE a.val \/ b.val], it)
    ELSE a

PConj(req, i, it) == More(req, "AND", PAtom(req, i, it), it)
PDisj(req, i, it) == More(req, "OR", PConj(req, i, it), it)

Parses(req) == LET e == PDisj(req, 1, CHOOSE it \in Items : TRUE) IN
               e.ok /\ e.next = Len(req.filter) + 1

Terms(req) ==
    ToSet(req.key) \cup (IF req.filter = None THEN {} ELSE {t \in ToSet(req.filter) : t.kind = "term"})
Bound(m) == IF m = None THEN {} ELSE DOMAIN m

\* DynamoDB refuses a request whose expressions do not parse, that uses a
\* placeholder it does not define or defines one it does not use, that
\* sends an empty map, or whose BETWEEN bounds are reversed.
Accepted(req) ==
    /\ req.filter # None => req.filter # <<>> /\ Parses(req)
    /\ Bound(req.names) = {t.name : t \in Terms(req)} \cup (IF req.proj = None THEN {} ELSE ToSet(req.proj))
    /\ Bound(req.values) = UNION {ToSet(t.vals) : t \in Terms(req)}
    /\ req.names # None => req.names # <<>>
    /\ req.values # None => req.values # <<>>
    /\ \A t \in Terms(req) : t.form = "BETWEEN" => Le(req.values[t.vals[1]], req.values[t.vals[2]])

\* An item is in an index when it has the index's key attributes.
InIndex(name, it) ==
    LET ix == ResolveIndex(name) IN it[ix.partition] # Absent /\ it[ix.sort] # Absent

\* The items DynamoDB returns for an accepted request (before the limit).
Selected(req, it) ==
    /\ InIndex(req.index, it)
    /\ \A k \in DOMAIN req.key : EvalTerm(req, req.key[k], it)
    /\ req.filter = None \/ PDisj(req, 1, it).val

-----------------------------------------------------------------------------
(* What the caller asked for (spec 4.2, 4.3), read from the arguments.     *)

\* A FilterCondition on an item, by the spec's grammar.
CondHolds(c, it) ==
    LET x == it[AttrName[c.field]]  op == Upper(c.op)
        v(i) == Av(c.values[i])
    IN CASE op \in {"=", "EQ"} -> x = v(1)
         [] op \in {"!=", "<>", "NE"} -> x # v(1)
         [] op \in {"<", "LT"} -> Lt(x, v(1))
         [] op \in {"<=", "LE"} -> Le(x, v(1))
         [] op \in {">", "GT"} -> Lt(v(1), x)
         [] op \in {">=", "GE"} -> Le(v(1), x)
         [] op = "BETWEEN" -> Le(v(1), x) /\ Le(x, v(2))
         [] op = "IN" -> \E i \in DOMAIN c.values[1][2] : x = Av(c.values[1][2][i])
         [] op = "BEGINS_WITH" -> BeginsWith(x, v(1))
         [] op \in {"EXISTS", "ATTRIBUTE_EXISTS"} -> x # Absent
         [] op \in {"NOT_EXISTS", "ATTRIBUTE_NOT_EXISTS"} -> x = Absent

\* AND / OR groups, each its own parenthesised unit.
RECURSIVE Holds(_, _)
Holds(node, it) ==
    IF node.kind = "cond" THEN CondHolds(node, it)
    ELSE IF node.op = "AND" THEN \A i \in DOMAIN node.filters : Holds(node.filters[i], it)
    ELSE \E i \in DOMAIN node.filters : Holds(node.filters[i], it)

SortHolds(cond, x) ==
    LET v(i) == Av(cond.values[i]) IN
    CASE cond.op = "=" -> x = v(1)
      [] cond.op = "<" -> Lt(x, v(1))
      [] cond.op = "<=" -> Le(x, v(1))
      [] cond.op = ">" -> Lt(v(1), x)
      [] cond.op = ">=" -> Le(v(1), x)
      [] cond.op = "between" -> Le(v(1), x) /\ Le(x, v(2))
      [] cond.op = "begins_with" -> BeginsWith(x, v(1))

\* The items a call asks for: those of the index, in the partition and
\* satisfying the sort condition (query), that the filter accepts.
Wanted(args, it) ==
    LET ix == ResolveIndex(args.index) IN
    /\ InIndex(args.index, it)
    /\ "partition" \in DOMAIN args =>
         /\ it[ix.partition] = Av(args.partition)
         /\ args.sort # None => SortHolds(args.sort, it[ix.sort])
    /\ args.filter # None => Holds(args.filter, it)

\* The spec's arity of each filter operator: one value, two for BETWEEN, a
\* list of at most MaxIn for IN, none for EXISTS / NOT_EXISTS.
CondValid(c) ==
    LET op == Upper(c.op)  vs == c.values IN
    /\ c.field \in Field \ Encrypted
    /\ CASE op \in {"=", "EQ", "!=", "<>", "NE", "<", "LT", "<=", "LE", ">", "GT", ">=", "GE",
                   "BEGINS_WITH", "CONTAINS"} -> Len(vs) = 1
         [] op = "BETWEEN" -> Len(vs) = 2
         [] op = "IN" -> Len(vs) = 1 /\ IsList(vs[1]) /\ Len(vs[1][2]) <= MaxIn
         [] op \in {"EXISTS", "ATTRIBUTE_EXISTS", "NOT_EXISTS", "ATTRIBUTE_NOT_EXISTS"} -> vs = <<>>
         [] OTHER -> FALSE

RECURSIVE FilterValid(_)
FilterValid(node) ==
    IF node.kind = "cond" THEN CondValid(node)
    ELSE \A i \in DOMAIN node.filters : FilterValid(node.filters[i])

\* A call the spec allows: a known index, no strongly consistent read of a
\* GSI, a positive limit, a well-formed sort condition on an index with a
\* sort key, a projection that keeps every field the item's dataclass
\* needs (keys and fields with no default), a well-formed filter, and
\* segment arguments given together and in range.
ValidCall(args) ==
    LET ix == ResolveIndex(args.index) IN
    /\ ix.ok
    /\ ~(ix.type = "GSI" /\ args.consistent)
    /\ args.limit = None \/ args.limit > 0
    /\ "partition" \in DOMAIN args =>
         /\ args.partition # None
         /\ args.sort # None =>
              /\ ix.sort # None
              /\ \/ args.sort.op \in SortOne \cup {"begins_with"} /\ Len(args.sort.values) = 1
                 \/ args.sort.op = "between" /\ Len(args.sort.values) = 2
    /\ args.projection # None =>
         {PkField, SkField} \cup NoDefault \subseteq ToSet(args.projection)
         /\ ToSet(args.projection) \subseteq Field
    /\ args.filter # None => FilterValid(args.filter)
    /\ "segment" \in DOMAIN args =>
         IF args.segment = None THEN args.total = None
         ELSE args.total # None /\ 0 <= args.segment /\ args.segment < args.total

-----------------------------------------------------------------------------
(* Properties                                                              *)

Attrs == {AttrName[f] : f \in Field}
IsAV(x) == (x[1] = "N" /\ x[2] \in Int) \/ (x[1] = "S" /\ x[2] \in STRING)

\* Every placeholder of a sent request is bound to an attribute name or to
\* a typed AttributeValue.
TypeOK ==
    /\ qstatus \in {"idle", "sent", "ValidationError"}
    /\ qstatus = "sent" =>
         /\ \A r \in Bound(qreq.names) : qreq.names[r] \in Attrs
         /\ \A r \in Bound(qreq.values) : IsAV(qreq.values[r])

\* Spec 4.2 / 4.3: a sent query or scan is one DynamoDB accepts (its
\* expressions parse, every placeholder is defined and used, no map is
\* empty), and the items it selects are exactly the ones the call asks
\* for: in the index, in the partition, satisfying the sort condition, and
\* accepted by the filter tree read as explicitly parenthesised AND / OR
\* groups, although DynamoDB itself binds AND tighter than OR.
QueryMeansCaller ==
    qstatus = "sent" =>
        /\ Accepted(qreq)
        /\ \A it \in Items : Selected(qreq, it) = Wanted(qcall, it)

\* query and scan refuse exactly the calls the spec calls invalid: no
\* valid call raises (through a placeholder collision or a guard too
\* strict) and none that is invalid is sent.
ValidCallSent ==
    qstatus # "idle" => (qstatus = "sent" <=> ValidCall(qcall))
====
