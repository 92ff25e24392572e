------------------------- MODULE MCExpressionCompiler -------------------------
(***************************************************************************)
(* The expression compiler (spec 2, 4.2): a caller builds one update       *)
(* (MCUpdateCompiler's model) or makes one query or scan call.             *)
(*                                                                         *)
(* The query side's model has a partition key pk and a sort key sk         *)
(* (strings), a GSI byG on g / sk, an LSI byT on pk / t, a number n with   *)
(* no default and an encrypted e.  The stored items cover every presence   *)
(* of g, t and n in two partitions.  The calls are slices of the argument  *)
(* space: every key argument with three filters, and every filter (leaves, *)
(* malformed leaves, flat and nested AND / OR groups) with a few key       *)
(* arguments.  Empty groups, reversed BETWEEN bounds and contains are left *)
(* out: the code sends them and DynamoDB refuses them.                     *)
(***************************************************************************)
EXTENDS MCUpdateCompiler

VARIABLES qcall, qstatus, qreq

QField == {"pk", "sk", "g", "t", "n", "e"}
QAttrName == [f \in QField |-> CASE f = "pk" -> "PK" [] f = "sk" -> "SK" [] f = "g" -> "G"
                                   [] f = "t" -> "T" [] f = "n" -> "N" [] f = "e" -> "E"]
QIndex == {[name |-> "byG", partition |-> "G", sort |-> "SK", type |-> "GSI"],
            [name |-> "byT", partition |-> "PK", sort |-> "T", type |-> "LSI"]}

QStrLess == {<<"a", "ab">>}
QPrefix == {<<"a", "ab">>}

\* The IN bound scaled from 100 to 2, so that a list of three passes it.
QMaxIn == 2

\* Absent of QueryCompiler: an attribute the item does not have.
QAbsent == <<"absent">>

QItems ==
    {[a \in {"PK", "SK", "G", "T", "N", "E"} |->
        CASE a = "PK" -> <<"N", p>> [] a = "SK" -> <<"S", s>> [] a = "G" -> g
          [] a = "T" -> t [] a = "N" -> n [] a = "E" -> QAbsent] :
       p \in {1, 2}, s \in {"a", "ab"}, g \in {<<"N", 1>>, QAbsent}, t \in {<<"S", "a">>, QAbsent},
       n \in {<<"N", 1>>, <<"N", 2>>, QAbsent}}

I(n) == <<"int", n>>
S(x) == <<"str", x>>
Lst(xs) == <<"list", xs>>

C(f, o, vs) == [kind |-> "cond", field |-> f, op |-> o, values |-> vs]
G(o, fs) == [kind |-> "group", op |-> o, filters |-> fs]

L1 == C("n", "=", <<I(1)>>)
L2 == C("sk", ">", <<S("a")>>)
L3 == C("g", "exists", <<>>)
Leaves == {L1, L2, L3, C("n", "between", <<I(1), I(2)>>), C("n", "in", <<Lst(<<I(2)>>)>>),
           C("t", "begins_with", <<S("a")>>), C("n", "NE", <<I(2)>>)}
\* An encrypted field, an unknown one, a wrong arity, an unsupported
\* operator, IN of a scalar, IN of too many values, EXISTS with a value.
BadLeaves == {C("e", "=", <<I(1)>>), C("zz", "exists", <<>>), C("n", "between", <<I(1)>>),
              C("n", "like", <<I(1)>>), C("n", "in", <<I(1)>>), C("n", "in", <<Lst(<<I(1), I(2), I(1)>>)>>),
              C("n", "exists", <<I(1)>>)}
Nested(o1, o2) == G(o1, <<G(o2, <<L1, L2>>), L3>>)
Filters ==
    Leaves \cup BadLeaves
    \cup {G(o, <<a, b>>) : o \in {"AND", "OR"}, a \in {L1, L2, L3}, b \in {L1, L2, L3}}
    \cup {Nested(o1, o2) : o1 \in {"AND", "OR"}, o2 \in {"AND", "OR"}}
    \cup {G(o1, <<L3, G(o2, <<L1, L2>>)>>) : o1 \in {"AND", "OR"}, o2 \in {"AND", "OR"}}
    \cup {G("AND", <<C("n", "between", <<I(1), I(2)>>)>>), G("OR", <<L1, C("e", "=", <<I(1)>>)>>)}

Sorts == {None, [op |-> "=", values |-> <<S("a")>>], [op |-> "<", values |-> <<S("ab")>>],
          [op |-> "between", values |-> <<S("a"), S("ab")>>], [op |-> "begins_with", values |-> <<S("a")>>],
          [op |-> ">=", values |-> <<>>], [op |-> "like", values |-> <<S("a")>>]}
Projections == {None, <<"pk", "sk", "n">>, <<"pk", "sk">>, <<"pk", "sk", "n", "zz">>}
Indexes == {None, "byG", "byT", "nope"}

QArg(i, c, p, s, l, pr, f) ==
    [index |-> i, consistent |-> c, partition |-> p, sort |-> s, limit |-> l,
     projection |-> pr, filter |-> f]
SArg(i, c, l, pr, f, sg, tt) ==
    [index |-> i, consistent |-> c, limit |-> l, projection |-> pr, filter |-> f,
     segment |-> sg, total |-> tt]

MCQueryArgs ==
    {QArg(i, c, p, s, l, pr, f) : i \in Indexes, c \in BOOLEAN, p \in {I(1), None}, s \in Sorts,
        l \in {None, 0}, pr \in Projections, f \in {None, L1, Nested("OR", "AND")}}
    \cup {QArg(i, FALSE, I(1), s, None, None, f) : i \in {None, "byG"},
            s \in {None, [op |-> "between", values |-> <<S("a"), S("ab")>>]}, f \in Filters}
MCScanArgs ==
    {SArg(i, c, l, pr, f, sg[1], sg[2]) : i \in Indexes, c \in BOOLEAN, l \in {None, 0},
        pr \in Projections, f \in {None, L1, Nested("OR", "AND")},
        sg \in {<<None, None>>, <<0, 2>>, <<2, 2>>, <<0, None>>}}
    \cup {SArg(None, FALSE, None, None, f, None, None) : f \in Filters}

Q == INSTANCE QueryCompiler WITH
        Field <- QField, Unknown <- "zz", AttrName <- QAttrName, PkField <- "pk",
        SkField <- "sk", Encrypted <- {"e"}, NoDefault <- {"pk", "sk", "n"},
        Index <- QIndex, StrLess <- QStrLess, Prefix <- QPrefix, MaxIn <- QMaxIn,
        Items <- QItems, QueryArgs <- MCQueryArgs, ScanArgs <- MCScanArgs

\* One builder or one read call: the update side moves only while no call
\* is made, the query side only while the builder is untouched.
ExprInit == Init /\ Q!Init

ExprNext ==
    \/ qstatus = "idle" /\ Next /\ UNCHANGED <<qcall, qstatus, qreq>>
    \/ Init /\ Q!Next /\ UNCHANGED vars

ExprSpec == ExprInit /\ [][ExprNext]_<<vars, qcall, qstatus, qreq>>

\* Every placeholder of a sent query or scan is bound to an attribute name
\* or a typed AttributeValue (QueryCompiler's TypeOK).
QTypeOK == Q!TypeOK

\* A sent query or scan is accepted by DynamoDB and selects exactly the
\* items the call asks for, filter groups read as parenthesised units
\* (QueryCompiler's QueryMeansCaller).
QueryMeansCaller == Q!QueryMeansCaller

\* query and scan raise ValidationError exactly for the calls the spec
\* calls invalid (QueryCompiler's ValidCallSent).
ValidCallSent == Q!ValidCallSent
=============================================================================
