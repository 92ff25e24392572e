------------------------------ MODULE Envelope ------------------------------
(***************************************************************************)
(* Per-attribute envelope encryption (src/py/src/theorydb_py/encryption.py *)
(* and its use in table.py _serialize_attr_value / _from_item).  A write   *)
(* asks KMS for a fresh data key, marshals the wire value to its JSON form *)
(* and seals it with AES-GCM under a nonce from rand_bytes and the AAD     *)
(* "theorydb:encrypted:v1|attr=<name>"; a read checks the version and the  *)
(* fields, asks KMS to unwrap the data key, opens the ciphertext with the  *)
(* same AAD and unmarshals the payload.                                    *)
(*                                                                         *)
(* AES-GCM is the ideal AEAD: a ciphertext opens only under the key, nonce *)
(* and AAD it was sealed with, and gives back its plaintext.  A wrapped    *)
(* key is the number of the data key KMS issued; KMS refuses any other.    *)
(* rand_bytes is injectable, so a nonce is any value of Nonce (a test may  *)
(* return the same bytes every time).  JSON text is kept as the JSON value *)
(* it denotes; base64 as a tagged byte string.  Anyone who can write the   *)
(* table may copy an envelope to another attribute or alter its fields.    *)
(***************************************************************************)
EXTENDS Integers, Sequences, FiniteSets, TLC

CONSTANTS
    Attr,        \* the encrypted attributes' attribute_names
    Value,       \* wire attribute values callers write
    Nonce,       \* values rand_bytes(12) may return
    MaxEncrypt,  \* bound on the writes (and the data keys KMS issues)
    Garbage      \* bytes that are not a valid ciphertext / wrapped key

ASSUME MaxEncrypt \in Nat \ {0}

VARIABLES
    store,     \* attribute -> the envelope stored for it, or Garbage
    issued,    \* data keys KMS has issued (they are 1..issued)
    written,   \* history: the <<attribute, envelope, value>> of every encryption
    used,      \* history: the <<data key, nonce>> pairs AES-GCM encrypted under
    writes,    \* encrypt_attribute_value calls made
    read,      \* the last decrypt_attribute_value outcome
    failures   \* history: the errors failed reads raised

vars == <<store, issued, written, used, writes, read, failures>>

Key == 1..MaxEncrypt
NoRead == [attr |-> Garbage, ok |-> FALSE, expect |-> Garbage, value |-> "none"]

-----------------------------------------------------------------------------
(* marshal_attribute_value_json / unmarshal_attribute_value_json (27-146). *)

Kind(av) == CHOOSE k \in DOMAIN av : TRUE

\* base64 of a byte string, and its decoding.
B64(b) == <<"b64", b>>
UnB64(s) == s[2]

RECURSIVE Marshal(_)
Marshal(av) ==
    LET t == Kind(av)  v == av[t] IN
    CASE t = "S"    -> [t |-> "S", s |-> v]
      [] t = "N"    -> [t |-> "N", n |-> v]
      [] t = "B"    -> [t |-> "B", b |-> B64(v)]
      [] t = "BOOL" -> [t |-> "BOOL", bool |-> v]
      [] t = "NULL" -> [t |-> "NULL", null |-> TRUE]
      [] t = "SS"   -> [t |-> "SS", ss |-> v]
      [] t = "L"    -> [t |-> "L", l |-> [i \in DOMAIN v |-> Marshal(v[i])]]
      [] t = "M"    -> [t |-> "M", m |-> [k \in DOMAIN v |-> Marshal(v[k])]]

\* Mutant: a list payload returned without unmarshalling its elements.
RECURSIVE UnmarshalFlatList(_)
UnmarshalFlatList(enc) ==
    CASE enc.t = "S"    -> "S" :> enc.s
      [] enc.t = "N"    -> "N" :> enc.n
      [] enc.t = "B"    -> "B" :> UnB64(enc.b)
      [] enc.t = "BOOL" -> "BOOL" :> enc.bool
      [] enc.t = "NULL" -> "NULL" :> TRUE
      [] enc.t = "SS"   -> "SS" :> enc.ss
      [] enc.t = "L"    -> "L" :> enc.l
      [] enc.t = "M"    -> "M" :> [k \in DOMAIN enc.m |-> UnmarshalFlatList(enc.m[k])]

RECURSIVE Unmarshal(_)
Unmarshal(enc) ==
    CASE enc.t = "S"    -> "S" :> enc.s
      [] enc.t = "N"    -> "N" :> enc.n
      [] enc.t = "B"    -> "B" :> UnB64(enc.b)
      [] enc.t = "BOOL" -> "BOOL" :> enc.bool
      [] enc.t = "NULL" -> "NULL" :> TRUE
      [] enc.t = "SS"   -> "SS" :> enc.ss
      [] enc.t = "L"    -> "L" :> [i \in DOMAIN enc.l |-> Unmarshal(enc.l[i])]
      [] enc.t = "M"    -> "M" :> [k \in DOMAIN enc.m |-> Unmarshal(enc.m[k])]

-----------------------------------------------------------------------------
(* The ideal AEAD.                                                         *)

Seal(dek, n, p, ad) == [key |-> dek, nonce |-> n, pt |-> p, aad |-> ad]
Opens(dek, nonce, ct, aad) ==
    ct # Garbage /\ ct.key = dek /\ ct.nonce = nonce /\ ct.aad = aad

\* Mutant: the AAD without the attribute name.
AadNoAttr(attrName) == <<"theorydb:encrypted:v1|attr=", "">>

\* _aad: the protocol tag and the attribute name.
Aad(attrName) == <<"theorydb:encrypted:v1|attr=", attrName>>

-----------------------------------------------------------------------------

TypeOK ==
    /\ issued \in 0..MaxEncrypt
    /\ used \subseteq Key \X Nonce
    /\ writes \in 0..MaxEncrypt
    /\ \A w \in written : w[1] \in Attr /\ w[3] \in Value
    /\ DOMAIN store = Attr
    /\ read.ok => read.value \in Value

\* Every attribute holds an envelope written before (by an earlier run
\* whose keys are not modelled): the model starts from garbage in each.
Init ==
    /\ store = [a \in Attr |-> Garbage]
    /\ issued = 0
    /\ written = {}
    /\ used = {}
    /\ writes = 0
    /\ read = NoRead
    /\ failures = {}

\* Mutant: one data key fetched and reused for every encryption.
DataKeyReused == IF issued = 0 THEN 1 ELSE issued

\* generate_data_key(KeyId=kms_key_arn, KeySpec="AES_256") on every call:
\* KMS issues a fresh data key.
DataKey == issued + 1

\* _serialize_attr_value of an encrypted attribute: encrypt_attribute_value
\* (data key, marshal, nonce, seal) and store the envelope {v, edk, nonce, ct}.
Encrypt(a, av) ==
    /\ writes < MaxEncrypt
    /\ \E nonce \in Nonce :
         LET dek == DataKey
             env == [v |-> 1, edk |-> dek, nonce |-> nonce,
                     ct |-> Seal(dek, nonce, Marshal(av), Aad(a))]
         IN /\ store' = [store EXCEPT ![a] = env]
            /\ issued' = IF dek > issued THEN dek ELSE issued
            /\ used' = used \cup {<<dek, nonce>>}
            /\ written' = written \cup {<<a, env, av>>}
    /\ writes' = writes + 1
    /\ UNCHANGED <<read, failures>>

\* _from_item of an encrypted attribute, then decrypt_attribute_value:
\* the envelope must be a map, v must be 1, edk / nonce / ct bytes, KMS
\* must unwrap edk, and AES-GCM must open ct under the attribute's AAD.
DecryptOutcome(a) ==
    LET env == store[a] IN
    CASE env = Garbage                  -> "ValidationError: envelope must be a map"
      [] env.v # 1                      -> "ValidationError: unsupported envelope version"
      [] env.nonce = "missing"          -> "ValidationError: field is not bytes"
      [] env.edk \notin 1..issued       -> "AwsError: InvalidCiphertextException"
      [] ~Opens(env.edk, env.nonce, env.ct, Aad(a))
                                        -> "ValidationError: failed to decrypt"
      [] OTHER                          -> "ok"

\* The value an envelope was written with for attribute a, or Garbage when
\* no encryption for a produced it.
WrittenValue(a, env) ==
    IF \E w \in written : w[1] = a /\ w[2] = env
    THEN (CHOOSE w \in written : w[1] = a /\ w[2] = env)[3]
    ELSE Garbage

Decrypt(a) ==
    LET out == DecryptOutcome(a) IN
    /\ read' = [attr |-> a, ok |-> out = "ok", expect |-> WrittenValue(a, store[a]),
                value |-> IF out = "ok" THEN Unmarshal(store[a].ct.pt) ELSE out]
    /\ failures' = IF out = "ok" THEN failures ELSE failures \cup {out}
    /\ UNCHANGED <<store, issued, written, used, writes>>

\* Whoever can write the table copies another attribute's envelope here,
\* or alters one field of an envelope as written.
Tamper(a) ==
    /\ \/ \E b \in Attr \ {a} : store' = [store EXCEPT ![a] = store[b]]
       \/ /\ \E w \in written : w[2] = store[a]
          /\ \/ store' = [store EXCEPT ![a].v = 2]
             \/ store' = [store EXCEPT ![a].edk = Garbage]
             \/ store' = [store EXCEPT ![a].nonce = "missing"]
             \/ store' = [store EXCEPT ![a].ct = Garbage]
    /\ UNCHANGED <<issued, written, used, writes, read, failures>>

Next ==
    \/ \E a \in Attr, av \in Value : Encrypt(a, av)
    \/ \E a \in Attr : Decrypt(a) \/ Tamper(a)

Spec == Init /\ [][Next]_vars

-----------------------------------------------------------------------------
(* Properties                                                              *)

\* Spec §8: a read decrypts an attribute exactly when its envelope is the
\* one written for that attribute, untouched, and then returns the written
\* value; an envelope moved from another attribute fails authentication.
DecryptMeansWritten ==
    /\ read.ok <=> read.expect # Garbage
    /\ read.ok => read.value = read.expect

\* AES-GCM never encrypts twice under one data key and nonce, even with a
\* rand_bytes that repeats: every encryption fetches a fresh data key.
NoKeyNonceReuse == Cardinality(used) = writes

\* Spec §7: decryption failures reveal no cause; every failed read raises
\* the same generic error.
OneGenericError == Cardinality(failures) <= 1
====
