---------------------------- MODULE MCItemWrites ----------------------------
(* Two items of a model with a key field pk and data fields n (stored as  *)
(* "count") and s (stored as "tags"); one value.  Callers' conditions   *)
(* use their own placeholders #v / :v or the generated #d_n / :d_n.        *)
EXTENDS ItemWrites

CONSTANTS k1, k2

MCKey == {k1, k2}
MCAttrName == ("pk" :> "PK") @@ ("n" :> "count") @@ ("s" :> "tags")

Eq(n, v) == [kind |-> "eq", name |-> n, value |-> v]
Exists == [kind |-> "exists", name |-> None, value |-> None]
NotExists == [kind |-> "not_exists", name |-> None, value |-> None]

MCConds == {NoCond, Exists, NotExists, Eq("#v", ":v"), Eq("#d_n", ":v")}
MCNames == {EmptyMap, "#v" :> "count", "#d_n" :> "tags"}
MCValues == {EmptyMap, ":v" :> 1, ":d_n" :> 1}
MCUpdates == {"n" :> 1, "n" :> None, ("n" :> 1) @@ ("s" :> None), "pk" :> 1,
              "zz" :> 1, EmptyMap}
PutCount == [x \in DataAttr |-> IF x = "count" THEN 1 ELSE Missing]
MCPutItems == {PutCount}

\* Actions of transactions: conditional put, update, delete and condition
\* check over both items, and an update of the key field.
MCTxActions ==
    {Action("Put", k1, PutCount, EmptyMap, NotExists,
            EmptyMap, EmptyMap),
     Action("Update", k2, None, "n" :> 1, Exists, EmptyMap, EmptyMap),
     Action("Delete", k1, None, EmptyMap, Exists, EmptyMap, EmptyMap),
     Action("ConditionCheck", k2, None, EmptyMap, NotExists, EmptyMap, EmptyMap),
     Action("Update", k1, None, "pk" :> 1, NoCond, EmptyMap, EmptyMap)}
====
