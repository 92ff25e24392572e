--------------------------- MODULE MCAttributeCodec ---------------------------
(* Declarations for from_dataclass and the put / get round trip.  Each     *)
(* field carries the values a caller's object may hold in it.              *)
EXTENDS AttributeCodec

\* A plain str field; the declarations below override its options.
Fld(n, roles, type, values) ==
    [name |-> n, attr |-> None, roles |-> roles, omitempty |-> FALSE, set |-> FALSE,
     json |-> FALSE, encrypted |-> FALSE, ignore |-> FALSE, converter |-> FALSE,
     default |-> NoDefault, type |-> type, values |-> values]

S(x) == <<"str", x>>
I(x) == <<"int", x>>
Ix(n, t, p, s) == [name |-> n, type |-> t, partition |-> p, sort |-> s]

PK == Fld("id", {"pk"}, "str", {S("a")})
SK == [Fld("n", {"sk"}, "int", {I(0), I(3)}) EXCEPT !.attr = "N", !.converter = TRUE]

\* Every codec option on the non-key fields: an omitempty int with a
\* default, a set field, a JSON map, an encrypted str with a converter, an
\* encrypted int and an ignored field; a GSI and an LSI on known fields.
Rich ==
    [fields |-> <<PK, SK,
                  [Fld("count", {"index_pk:g"}, "int", {I(0), I(2)}) EXCEPT !.omitempty = TRUE, !.default = I(5)],
                  [Fld("tags", {}, "set", {<<"set", {}>>, <<"set", {"x"}>>}) EXCEPT !.set = TRUE],
                  [Fld("doc", {}, "dict", {PyNone, <<"dict", 1>>}) EXCEPT !.json = TRUE, !.default = PyNone],
                  [Fld("secret", {}, "str", {S(""), S("s")}) EXCEPT !.encrypted = TRUE, !.converter = TRUE],
                  [Fld("level", {}, "int", {I(2)}) EXCEPT !.encrypted = TRUE, !.attr = "lvl"],
                  [Fld("cache", {"pk"}, "str", {S("c")}) EXCEPT !.ignore = TRUE, !.default = S("")]>>,
     indexes |-> <<Ix("byCount", "GSI", "count", "n"), Ix("byLevel", "LSI", "__TABLE_PK__", "n")>>]

\* Declarations from_dataclass must refuse, one per rule of spec 3.
Refusals ==
    { [fields |-> <<[PK EXCEPT !.encrypted = TRUE]>>, indexes |-> <<>>],
      [fields |-> <<PK, SK, [SK EXCEPT !.name = "m"]>>, indexes |-> <<>>],
      [fields |-> <<[PK EXCEPT !.ignore = TRUE, !.default = S("")]>>, indexes |-> <<>>],
      [fields |-> <<PK, SK>>, indexes |-> <<Ix("i", "GSI", "n", None), Ix("i", "GSI", "id", None)>>],
      [fields |-> <<PK, SK>>, indexes |-> <<Ix("i", "LSI", "n", None)>>],
      [fields |-> <<PK, SK, [Fld("e", {}, "str", {S("e")}) EXCEPT !.encrypted = TRUE]>>,
       indexes |-> <<Ix("i", "GSI", "id", "e")>>],
      [fields |-> <<PK, [Fld("g", {}, "str", {S("g")}) EXCEPT !.ignore = TRUE, !.default = S("")]>>,
       indexes |-> <<Ix("i", "GSI", "g", None)>>] }

MCDecls == {Rich} \cup Refusals

\* An encrypted set field, holding an empty set or not.
EncryptedSet ==
    [fields |-> <<PK, [Fld("keys", {}, "set", {<<"set", {}>>, <<"set", {"k"}>>})
                       EXCEPT !.set = TRUE, !.encrypted = TRUE, !.default = PyNone]>>,
     indexes |-> <<>>]
MCEncryptedSet == {EncryptedSet}
====
