----------------------------- MODULE MCEnvelope -----------------------------
(* Two encrypted attributes; values of a scalar, a binary, a nested list  *)
(* and a map kind; rand_bytes returning one of two nonces.                 *)
(*                                                                         *)
(* Beside it, in a run of its own chosen at the start (mode), the codec:   *)
(* from_dataclass on the declarations of MCAttributeCodec, a put of one of *)
(* the declared model's objects and a get of it.                           *)
EXTENDS Envelope

CONSTANTS a1, a2, n1, n2, bytes1, None, NoDefault

VARIABLES mode, decl, model, obj, table, phase, got

MCAttr == {a1, a2}
MCNonce == {n1, n2}
MCValue == {"S" :> "x", "B" :> bytes1, "L" :> <<"N" :> "1", "L" :> <<"NULL" :> TRUE>>>>,
            "M" :> ("k" :> ("BOOL" :> TRUE))}

D == INSTANCE MCAttributeCodec WITH Decls <- {}
C == INSTANCE AttributeCodec WITH Decls <- D!MCDecls

codecVars == <<decl, model, obj, table, phase, got>>

EnvCodecInit == mode \in {"envelope", "codec"} /\ Init /\ C!Init

EnvCodecNext ==
    /\ \/ mode = "envelope" /\ Next /\ UNCHANGED codecVars
       \/ mode = "codec" /\ C!Next /\ UNCHANGED vars
    /\ UNCHANGED mode

EnvCodecSpec == EnvCodecInit /\ [][EnvCodecNext]_<<mode, vars, codecVars>>

\* from_dataclass accepts exactly the declarations spec 3 allows.
ModelMeetsSpec == C!ModelMeetsSpec

\* A get returns, field by field, the object put (defaults for ignored and
\* omitted fields, None for an empty set).
GetReturnsPut == C!GetReturnsPut
====
