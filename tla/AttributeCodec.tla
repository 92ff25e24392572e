---------------------------- MODULE AttributeCodec ----------------------------
(***************************************************************************)
(* The attribute codec of Table (table.py): a caller declares a model      *)
(* (from_dataclass), puts one object and gets it back by its key.  put     *)
(* writes _to_item's item, each attribute through _serialize_attr_value     *)
(* (converter, the empty-set rule, JSON, boto3's TypeSerializer, the       *)
(* envelope); get reads it through _to_key and _from_item (envelope,       *)
(* TypeDeserializer, JSON, converter, _coerce_value, the dataclass).       *)
(*                                                                         *)
(* Python values are <<type, v>>: <<"none">>, <<"str", s>>, <<"int", n>>,  *)
(* <<"dec", n>> (a Decimal), <<"set", S>>, <<"dict", d>>.  AttributeValues *)
(* are <<"NULL">>, <<"S", s>>, <<"N", n>>, <<"SS", S>>, <<"M", d>>.  The   *)
(* caller's converter turns a value into a string and back; json.dumps    *)
(* gives a JSON text json.loads reads back; the envelope is the map        *)
(* encrypt_attribute_value writes, opened only under its attribute name   *)
(* (Envelope checks that part).                                            *)
(***************************************************************************)
EXTENDS ModelRegistry

CONSTANT Decls   \* the declarations callers make: [fields, indexes]

VARIABLES
    decl,   \* the declaration made
    model,  \* from_dataclass's ModelDefinition, or Refused
    obj,    \* the object put
    table,  \* key -> stored item
    phase,  \* "start", "declared", "refused", "stored", "put_error", "read"
    got     \* what get returned: [ok, obj] or [ok |-> FALSE]

cvars == <<decl, model, obj, table, phase, got>>

PyNone == <<"none">>
Fail == [ok |-> FALSE]

\* _is_empty: None, False, 0 and empty str / collections.
IsEmpty(v) ==
    \/ v = PyNone
    \/ v[1] \in {"int", "dec"} /\ v[2] = 0
    \/ v[1] = "str" /\ v[2] = ""
    \/ v[1] = "set" /\ v[2] = {}
    \/ v[1] = "dict" /\ v[2] = 0

\* boto3's TypeSerializer / TypeDeserializer (a number comes back a Decimal).
Ser(v) ==
    CASE v[1] = "none" -> <<"NULL">>  [] v[1] = "str" -> <<"S", v[2]>>
      [] v[1] = "int" -> <<"N", v[2]>> [] v[1] = "set" -> <<"SS", v[2]>>
      [] v[1] = "dict" -> <<"M", v[2]>>
Deser(av) ==
    CASE av[1] = "NULL" -> PyNone       [] av[1] = "S" -> <<"str", av[2]>>
      [] av[1] = "N" -> <<"dec", av[2]>> [] av[1] = "SS" -> <<"set", av[2]>>
      [] av[1] = "M" -> <<"dict", av[2]>>

ToDynamodb(v) == <<"str", <<"conv", v>>>>
FromDynamodb(v) == v[2][2]
Dumps(v) == <<"str", <<"json", v>>>>
Loads(v) == v[2][2]
Seal(av, a) == <<"dict", <<"env", a, av>>>>
Open(env, a) == IF env[2][2] = a THEN env[2][3] ELSE <<"NULL">>

\* _serialize_attr_value: an empty set on a set field returns NULL at once,
\* before JSON and encryption.
SerializeAttr(ad, v) ==
    LET v1 == IF ad.converter /\ v # PyNone THEN ToDynamodb(v) ELSE v IN
    IF ad.set /\ v1[1] = "set" /\ v1[2] = {} THEN Ser(PyNone)
    ELSE LET av == Ser(IF ad.json /\ v1 # PyNone THEN Dumps(v1) ELSE v1) IN
         IF ad.encrypted THEN Ser(Seal(av, ad.attr)) ELSE av

\* _to_item: the attributes in declaration order, omitempty ones skipped
\* when empty; the pk and sk must be in the item.
ToItem(m, fields, o) ==
    LET item == FoldLeft(LAMBDA it, f :
                           IF f.name \notin DOMAIN m.attributes THEN it
                           ELSE LET ad == m.attributes[f.name] IN
                                IF ad.omitempty /\ IsEmpty(o[f.name]) THEN it
                                ELSE (ad.attr :> SerializeAttr(ad, o[f.name])) @@ it,
                         <<>>, fields)
    IN IF m.pk.attr \notin DOMAIN item \/ (m.sk # None /\ m.sk.attr \notin DOMAIN item)
       THEN Fail ELSE [ok |-> TRUE, item |-> item]

\* _to_key: the key attributes, serialised as _to_item does.
ToKey(m, pkv, skv) ==
    IF pkv = PyNone \/ (m.sk # None /\ skv = PyNone) THEN Fail
    ELSE [ok |-> TRUE,
          key |-> (m.pk.attr :> SerializeAttr(m.pk, pkv))
                  @@ (IF m.sk = None THEN <<>> ELSE m.sk.attr :> SerializeAttr(m.sk, skv))]

\* _coerce_value: a Decimal read for an int field becomes an int.
Coerce(v, type) == IF type = "int" /\ v[1] = "dec" THEN <<"int", v[2]>> ELSE v

\* Mutant: the converter's from_dynamodb not applied on read.
ReadFieldNoConverter(ad, av, type) ==
    LET raw0 == IF ~ad.encrypted THEN [ok |-> TRUE, v |-> Deser(av)]
                ELSE LET env == Deser(av) IN
                     IF env[1] # "dict" THEN Fail ELSE [ok |-> TRUE, v |-> Deser(Open(env, ad.attr))]
        raw1 == IF ad.json /\ raw0.v[1] = "str" THEN Loads(raw0.v) ELSE raw0.v
    IN IF ~raw0.ok THEN Fail ELSE [ok |-> TRUE, v |-> Coerce(raw1, type)]

\* One field of _from_item: the stored value decrypted (an encrypted field
\* must hold an envelope map), deserialised, JSON-parsed, converted back.
ReadField(ad, av, type) ==
    LET raw0 == IF ~ad.encrypted THEN [ok |-> TRUE, v |-> Deser(av)]
                ELSE LET env == Deser(av) IN
                     IF env[1] # "dict" THEN Fail ELSE [ok |-> TRUE, v |-> Deser(Open(env, ad.attr))]
        raw1 == IF ad.json /\ raw0.v[1] = "str" THEN Loads(raw0.v) ELSE raw0.v
        raw2 == IF ad.converter /\ raw1 # PyNone THEN FromDynamodb(raw1) ELSE raw1
    IN IF ~raw0.ok THEN Fail ELSE [ok |-> TRUE, v |-> Coerce(raw2, type)]

\* _from_item: the fields found in the item become keyword arguments; the
\* dataclass fills the others from their defaults and raises TypeError
\* (ValidationError) when one has none.
FromItem(m, fields, item) ==
    LET kw == FoldLeft(LAMBDA s, f :
                         IF ~s.ok \/ f.name \notin DOMAIN m.attributes
                            \/ m.attributes[f.name].attr \notin DOMAIN item THEN s
                         ELSE LET r == ReadField(m.attributes[f.name], item[m.attributes[f.name].attr], f.type)
                              IN IF r.ok THEN [s EXCEPT !.args = (f.name :> r.v) @@ @] ELSE Fail,
                       [ok |-> TRUE, args |-> <<>>], fields)
    IN IF ~kw.ok \/ \E i \in DOMAIN fields : fields[i].name \notin DOMAIN kw.args /\ fields[i].default = NoDefault
       THEN Fail
       ELSE [ok |-> TRUE, obj |-> FoldLeft(LAMBDA o, f :
                 (f.name :> IF f.name \in DOMAIN kw.args THEN kw.args[f.name] ELSE f.default) @@ o,
                 <<>>, fields)]

\* The objects of a declaration: every choice of each field's values.
RECURSIVE Objects(_)
Objects(fields) ==
    IF fields = <<>> THEN {<<>>}
    ELSE {(Head(fields).name :> v) @@ o : o \in Objects(Tail(fields)), v \in Head(fields).values}

-----------------------------------------------------------------------------

Declare(d) ==
    /\ phase = "start"
    /\ decl' = d /\ model' = FromDataclass(d.fields, d.indexes)
    /\ phase' = IF model'.ok THEN "declared" ELSE "refused"
    /\ UNCHANGED <<obj, table, got>>

\* put: _to_item, then the item is written under its key.
Put(o) ==
    /\ phase = "declared"
    /\ obj' = o
    /\ LET r == ToItem(model, decl.fields, o)
           keyAttrs == {model.pk.attr} \cup (IF model.sk = None THEN {} ELSE {model.sk.attr})
       IN IF r.ok THEN /\ table' = [a \in keyAttrs |-> r.item[a]] :> r.item
                       /\ phase' = "stored"
          ELSE UNCHANGED table /\ phase' = "put_error"
    /\ UNCHANGED <<decl, model, got>>

\* get(pk, sk) of the object put.
Get ==
    /\ phase = "stored"
    /\ LET pkv == obj[model.pk.python]
           skv == IF model.sk = None THEN PyNone ELSE obj[model.sk.python]
           k == ToKey(model, pkv, skv)
       IN got' = IF ~k.ok \/ k.key \notin DOMAIN table THEN Fail
                 ELSE FromItem(model, decl.fields, table[k.key])
    /\ phase' = "read"
    /\ UNCHANGED <<decl, model, obj, table>>

Init ==
    /\ decl = [fields |-> <<>>, indexes |-> <<>>] /\ model = Refused /\ obj = <<>> /\ table = <<>>
    /\ phase = "start" /\ got = Fail

Next ==
    \/ \E d \in Decls : Declare(d)
    \/ \E o \in Objects(decl.fields) : Put(o)
    \/ Get

Spec == Init /\ [][Next]_cvars

-----------------------------------------------------------------------------
(* Spec 3, 4.1 and 8.                                                      *)

\* What a get should return for the object put: an ignored field, or an
\* omitempty field left out because it was empty, takes its default; an
\* empty set on a set field was stored as NULL and reads as None; every
\* other field reads back as written.
Expected(fields, o) ==
    FoldLeft(LAMBDA e, f :
               (f.name :> CASE f.ignore -> f.default
                            [] f.omitempty /\ IsEmpty(o[f.name]) -> f.default
                            [] f.set /\ o[f.name] = <<"set", {}>> -> PyNone
                            [] OTHER -> o[f.name]) @@ e,
             <<>>, fields)

\* Python equality of two values: an int equals the Decimal of the same
\* number.
PyEq(a, b) == a = b \/ ({a[1], b[1]} \subseteq {"int", "dec"} /\ a[2] = b[2])

\* from_dataclass accepts a declaration exactly when spec 3's invariants
\* hold for it (one pk and at most one sk among the fields that are not
\* ignored, no encrypted key or index key, unique, well-formed indexes).
ModelMeetsSpec ==
    phase # "start" => (model.ok <=> ValidDecl(decl.fields, decl.indexes))

\* When get returns an object for the key of the one put, every field of
\* it equals what was put, after the converter, JSON, the envelope,
\* boto3's Decimal numbers and _coerce_value on the way out and back.
GetReturnsPut ==
    phase = "read" /\ got.ok =>
        LET e == Expected(decl.fields, obj) IN \A n \in DOMAIN e : PyEq(got.obj[n], e[n])

\* Spec 8's round trip: an object put successfully can be got back.
ItemReadable == phase = "read" => got.ok
====
