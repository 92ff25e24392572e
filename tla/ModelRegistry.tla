---------------------------- MODULE ModelRegistry ----------------------------
(***************************************************************************)
(* ModelDefinition.from_dataclass (model.py): a dataclass's fields, with   *)
(* their theorydb_field options, and the caller's IndexSpecs resolve to    *)
(* the attribute map, the pk / sk definitions and the IndexDefinitions, or *)
(* raise ModelDefinitionError.                                             *)
(*                                                                         *)
(* A field declaration is a record: the python name, the name option (or   *)
(* None), roles (a set: "pk", "sk", "index_pk:<i>", "index_sk:<i>", ...),  *)
(* the flags omitempty, set, json, encrypted, ignore, whether a converter  *)
(* is given, its default (NoDefault when it has none) and its annotation.  *)
(* An IndexSpec is [name, type, partition, sort]; lsi() gives the          *)
(* partition "__TABLE_PK__".                                               *)
(***************************************************************************)
EXTENDS Integers, Sequences, SequencesExt, FiniteSets

CONSTANTS None, NoDefault

\* The roles that make a field an index key.
IndexRoles == {"index_pk:g", "index_sk:g"}
KeyRole(r) == r \in {"pk", "sk"} \cup IndexRoles

\* AttributeDefinition of a field: its wire name is the name option or the
\* python name.
AttrDef(f) ==
    [python |-> f.name, attr |-> IF f.attr = None THEN f.name ELSE f.attr,
     roles |-> f.roles, omitempty |-> f.omitempty, set |-> f.set, json |-> f.json,
     encrypted |-> f.encrypted, converter |-> f.converter]

\* Mutant: an ignored field's roles counted before the ignore check.
FieldStepCountsIgnored(s, f) ==
    IF s.err THEN s
    ELSE LET s1 == [s EXCEPT !.pks = IF "pk" \in f.roles THEN Append(@, f.name) ELSE @,
                             !.sks = IF "sk" \in f.roles THEN Append(@, f.name) ELSE @]
         IN IF f.ignore THEN s1
            ELSE IF f.encrypted /\ \E r \in f.roles : KeyRole(r) THEN [s1 EXCEPT !.err = TRUE]
            ELSE [s1 EXCEPT !.attrs = @ @@ (f.name :> AttrDef(f))]

\* One iteration of the fields loop: ignored fields are skipped; pk / sk
\* roles are collected; an encrypted field with a key or index-key role
\* raises; the field's AttributeDefinition is added.
FieldStep(s, f) ==
    IF s.err \/ f.ignore THEN s
    ELSE LET s1 == [s EXCEPT !.pks = IF "pk" \in f.roles THEN Append(@, f.name) ELSE @,
                             !.sks = IF "sk" \in f.roles THEN Append(@, f.name) ELSE @]
         IN IF f.encrypted /\ \E r \in f.roles : KeyRole(r) THEN [s1 EXCEPT !.err = TRUE]
            ELSE [s1 EXCEPT !.attrs = @ @@ (f.name :> AttrDef(f))]

\* One iteration of the indexes loop, given the attributes and the pk's
\* python name: duplicate names, other types, an unknown or encrypted
\* partition or sort field and an LSI not on the table pk raise.
IndexStep(attrs, pk, s, spec) ==
    LET pf == IF spec.type = "LSI" /\ spec.partition = "__TABLE_PK__" THEN pk ELSE spec.partition
        Bad == \/ spec.name \in s.seen
               \/ spec.type \notin {"GSI", "LSI"}
               \/ pf \notin DOMAIN attrs
               \/ attrs[pf].encrypted
               \/ spec.type = "LSI" /\ pf # pk
               \/ spec.sort # None /\ (spec.sort \notin DOMAIN attrs \/ attrs[spec.sort].encrypted)
    IN IF s.err THEN s
       ELSE IF Bad THEN [s EXCEPT !.err = TRUE]
       ELSE [s EXCEPT !.seen = @ \cup {spec.name},
                      !.indexes = Append(@, [name |-> spec.name, type |-> spec.type,
                                             partition |-> attrs[pf].attr,
                                             sort |-> IF spec.sort = None THEN None
                                                      ELSE attrs[spec.sort].attr])]

Refused == [ok |-> FALSE]

\* from_dataclass: the ModelDefinition, or Refused (ModelDefinitionError,
\* or the KeyError of attributes[pk_fields[0]] for a pk with no attribute).
FromDataclass(fields, specs) ==
    LET st == FoldLeft(FieldStep, [err |-> FALSE, pks |-> <<>>, sks |-> <<>>, attrs |-> <<>>], fields)
    IN IF st.err \/ Len(st.pks) # 1 \/ Len(st.sks) > 1 \/ st.pks[1] \notin DOMAIN st.attrs THEN Refused
       ELSE LET pk == st.pks[1]
                ix == FoldLeft(LAMBDA s, spec : IndexStep(st.attrs, pk, s, spec),
                               [err |-> FALSE, seen |-> {}, indexes |-> <<>>], specs)
            IN IF ix.err THEN Refused
               ELSE [ok |-> TRUE, pk |-> st.attrs[pk],
                     sk |-> IF st.sks = <<>> THEN None ELSE st.attrs[st.sks[1]],
                     attributes |-> st.attrs, indexes |-> ix.indexes]

-----------------------------------------------------------------------------
(* Spec 3: what a ModelDefinition is.                                      *)

\* A declaration the spec accepts: exactly one pk and at most one sk among
\* the fields that are not ignored, no encrypted key or index key, unique
\* index names, and every index of a known type on known, unencrypted
\* fields, an LSI on the table's pk.
ValidDecl(fields, specs) ==
    LET live == {fields[i] : i \in {j \in DOMAIN fields : ~fields[j].ignore}}
        byName(n) == CHOOSE f \in live : f.name = n
        pks == {f \in live : "pk" \in f.roles}
        Known(n) == \E f \in live : f.name = n
        Plain(n) == Known(n) /\ ~byName(n).encrypted
        Part(spec) == IF spec.type = "LSI" /\ spec.partition = "__TABLE_PK__"
                      THEN (CHOOSE f \in pks : TRUE).name ELSE spec.partition
    IN /\ Cardinality(pks) = 1
       /\ Cardinality({f \in live : "sk" \in f.roles}) <= 1
       /\ \A f \in live : f.encrypted => \A r \in f.roles : ~KeyRole(r)
       /\ Cardinality({specs[i].name : i \in DOMAIN specs}) = Len(specs)
       /\ \A i \in DOMAIN specs :
            /\ specs[i].type \in {"GSI", "LSI"}
            /\ Plain(Part(specs[i]))
            /\ specs[i].type = "LSI" => "pk" \in byName(Part(specs[i])).roles
            /\ specs[i].sort # None => Plain(specs[i].sort)
====
