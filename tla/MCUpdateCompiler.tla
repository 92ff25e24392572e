-------------------------- MODULE MCUpdateCompiler --------------------------
(* A model with a key field, a number field stored under another attribute *)
(* name (also the version field), a set field and an encrypted field.      *)
EXTENDS UpdateCompiler

CONSTANTS str, pair

MCField == {"pk", "n", "s", "e"}
MCAttrName == ("pk" :> "PK") @@ ("n" :> "count") @@ ("s" :> "tags") @@ ("e" :> "secret")
MCValue == {1, str}
MCCondValue == {None, 1, pair}
MCPairItems == <<0, 1>>
MCIndex == {0, -1}
=============================================================================
