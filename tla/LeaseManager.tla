---------------------------- MODULE LeaseManager ----------------------------
(***************************************************************************)
(* LeaseManager (src/py/src/theorydb_py/lease.py): a distributed lock held  *)
(* as one DynamoDB row per lease key.  acquire is a conditional PutItem,   *)
(* refresh a conditional UpdateItem and release a conditional DeleteItem.  *)
(* Every caller owns its own LeaseManager; they share nothing but the row  *)
(* and the wall clock.                                                     *)
(*                                                                         *)
(* One lease key is modelled (keys are independent rows).  A call has      *)
(* three steps: the caller reads int(now()) and sends the request, the     *)
(* table evaluates the condition and applies the write atomically, and the *)
(* caller receives the answer.  The clock may tick between any two steps.  *)
(* The SDK (botocore) re-sends a request whose answer did not arrive, with *)
(* the same parameters, up to MaxAttempts times; a lost answer on the last *)
(* attempt surfaces as an AwsError.                                        *)
(***************************************************************************)
EXTENDS Integers, FiniteSets

CONSTANTS
    Client,        \* the LeaseManager instances contending for the key
    LeaseSeconds,  \* lease_seconds values callers pass (all > 0)
    TTLBuffer,     \* ttl_buffer_seconds (0 disables the ttl attribute)
    MaxTime,       \* bound on the integer clock
    MaxTokens,     \* bound on the tokens (uuid4) handed out
    MaxAttempts    \* SDK attempts per request

ASSUME LeaseSeconds \subseteq Nat \ {0} /\ LeaseSeconds # {}
ASSUME TTLBuffer \in Nat /\ MaxTime \in Nat /\ MaxTokens \in Nat
ASSUME MaxAttempts \in Nat \ {0}

VARIABLES
    clock,   \* int(time.time()), shared by all callers
    row,     \* the lease row of the table, or NoRow
    lease,   \* the Lease object each caller last obtained, or NoLease
    call,    \* the request a caller has in flight, or NoCall
    result,  \* how each caller's last call ended
    issued   \* tokens handed out so far (tokens are 1..issued)

vars == <<clock, row, lease, call, result, issued>>

NoToken == 0
NoTTL == -1
NoRow == [token |-> NoToken, exp |-> 0, ttl |-> NoTTL]
NoLease == [token |-> NoToken, exp |-> 0]
NoCall == [op |-> "none", token |-> NoToken, now |-> 0, exp |-> 0,
           phase |-> "none", attempts |-> 0, outcome |-> "none"]

Token == 1..MaxTokens
MaxLeaseSeconds == CHOOSE m \in LeaseSeconds : \A s \in LeaseSeconds : s <= m
Time == 0..(MaxTime + MaxLeaseSeconds + TTLBuffer)
Ops == {"acquire", "refresh", "release"}
Results == {"none", "ok", "LeaseHeld", "LeaseNotOwned", "released", "AwsError"}

\* The ttl attribute written with an expiry: expires_at + ttl_buffer_seconds,
\* present only when the buffer is positive (lease.py 80-82, 122-126).
TTLFor(exp) == IF TTLBuffer > 0 THEN exp + TTLBuffer ELSE NoTTL

TypeOK ==
    /\ clock \in 0..MaxTime
    /\ row \in {NoRow} \cup [token : Token, exp : Time, ttl : Time \cup {NoTTL}]
    /\ lease \in [Client -> {NoLease} \cup [token : Token, exp : Time]]
    /\ call \in [Client -> {NoCall} \cup
                 [op : Ops, token : Token, now : 0..MaxTime, exp : Time,
                  phase : {"sent", "executed"}, attempts : 1..MaxAttempts,
                  outcome : {"none", "ok", "condfail"}]]
    /\ result \in [Client -> Results]
    /\ issued \in 0..MaxTokens

Init ==
    /\ clock = 0
    /\ row = NoRow
    /\ lease = [c \in Client |-> NoLease]
    /\ call = [c \in Client |-> NoCall]
    /\ result = [c \in Client |-> "none"]
    /\ issued = 0

Idle(c) == call[c] = NoCall

-----------------------------------------------------------------------------
(* The caller side: compute now and expires_at, build the request, send.  *)

\* acquire: now = int(now()), expires_at = now + lease_seconds, a fresh token.
Acquire(c, ls) ==
    /\ Idle(c)
    /\ issued < MaxTokens
    /\ issued' = issued + 1
    /\ call' = [call EXCEPT ![c] =
                  [op |-> "acquire", token |-> issued + 1, now |-> clock,
                   exp |-> clock + ls, phase |-> "sent", attempts |-> 1,
                   outcome |-> "none"]]
    /\ UNCHANGED <<clock, row, lease, result>>

\* refresh: requires a Lease object; same token, new expiry from now.
Refresh(c, ls) ==
    /\ Idle(c)
    /\ lease[c] # NoLease
    /\ call' = [call EXCEPT ![c] =
                  [op |-> "refresh", token |-> lease[c].token, now |-> clock,
                   exp |-> clock + ls, phase |-> "sent", attempts |-> 1,
                   outcome |-> "none"]]
    /\ UNCHANGED <<clock, row, lease, result, issued>>

\* release: conditional delete on the caller's token.
Release(c) ==
    /\ Idle(c)
    /\ lease[c] # NoLease
    /\ call' = [call EXCEPT ![c] =
                  [op |-> "release", token |-> lease[c].token, now |-> clock,
                   exp |-> 0, phase |-> "sent", attempts |-> 1,
                   outcome |-> "none"]]
    /\ UNCHANGED <<clock, row, lease, result, issued>>

-----------------------------------------------------------------------------
(* The table side: one attempt of a request is evaluated atomically.       *)

\* Mutants used to check that the properties below can fail: a release
\* without the token condition, and a refresh that forgets to move the ttl.
ReleaseWriteAnyToken(r) ==
    IF row # NoRow THEN [ok |-> TRUE, row |-> NoRow] ELSE [ok |-> FALSE, row |-> row]
RefreshWriteKeepTTL(r) ==
    IF row # NoRow /\ row.token = r.token /\ row.exp > r.now
    THEN [ok |-> TRUE, row |-> [row EXCEPT !.exp = r.exp]]
    ELSE [ok |-> FALSE, row |-> row]

\* Mutant: the expiry compared with the new expiry (:exp) instead of :now.
AcquireWriteComparesExp(r) ==
    IF row = NoRow \/ row.exp <= r.exp
    THEN [ok |-> TRUE, row |-> [token |-> r.token, exp |-> r.exp,
                                ttl |-> TTLFor(r.exp)]]
    ELSE [ok |-> FALSE, row |-> row]

\* put_item with "attribute_not_exists(#pk) OR #exp <= :now": the new item
\* replaces an absent or expired row.
AcquireWrite(r) ==
    IF row = NoRow \/ row.exp <= r.now
    THEN [ok |-> TRUE, row |-> [token |-> r.token, exp |-> r.exp,
                                ttl |-> TTLFor(r.exp)]]
    ELSE [ok |-> FALSE, row |-> row]

\* update_item "SET #exp = :exp[, #ttl = :ttl]" with
\* "#tok = :tok AND #exp > :now".
RefreshWrite(r) ==
    IF row # NoRow /\ row.token = r.token /\ row.exp > r.now
    THEN [ok |-> TRUE,
          row |-> [row EXCEPT !.exp = r.exp,
                              !.ttl = IF TTLBuffer > 0 THEN TTLFor(r.exp) ELSE @]]
    ELSE [ok |-> FALSE, row |-> row]

\* delete_item with "#tok = :tok".
ReleaseWrite(r) ==
    IF row # NoRow /\ row.token = r.token
    THEN [ok |-> TRUE, row |-> NoRow]
    ELSE [ok |-> FALSE, row |-> row]

Applied(r) ==
    CASE r.op = "acquire" -> AcquireWrite(r)
      [] r.op = "refresh" -> RefreshWrite(r)
      [] r.op = "release" -> ReleaseWrite(r)

Execute(c) ==
    /\ call[c].phase = "sent"
    /\ LET a == Applied(call[c]) IN
         /\ row' = a.row
         /\ call' = [call EXCEPT ![c].phase = "executed",
                                 ![c].outcome = IF a.ok THEN "ok" ELSE "condfail"]
    /\ UNCHANGED <<clock, lease, result, issued>>

-----------------------------------------------------------------------------
(* The caller receives the answer of the attempt that was executed.        *)

\* acquire returns a Lease, or maps ConditionalCheckFailed to LeaseHeld.
\* refresh returns a Lease, or maps it to LeaseNotOwned.
\* release returns None either way (best-effort).  A caller discards its
\* Lease once it has released it or been told LeaseNotOwned.
Return(c) ==
    /\ call[c].phase = "executed"
    /\ LET r == call[c] IN
         /\ lease' = [lease EXCEPT ![c] =
                        CASE r.op = "release" -> NoLease
                          [] r.outcome = "ok" -> [token |-> r.token, exp |-> r.exp]
                          [] r.op = "refresh" -> NoLease
                          [] OTHER -> lease[c]]
         /\ result' = [result EXCEPT ![c] =
                        CASE r.op = "release" -> "released"
                          [] r.outcome = "ok" -> "ok"
                          [] r.op = "acquire" -> "LeaseHeld"
                          [] OTHER -> "LeaseNotOwned"]
    /\ call' = [call EXCEPT ![c] = NoCall]
    /\ UNCHANGED <<clock, row, issued>>

\* Mutant: the attempt budget compared with <= (one re-send too many).
TimeoutOneMore(c) ==
    /\ call[c] # NoCall
    /\ IF call[c].attempts <= MaxAttempts
       THEN /\ call' = [call EXCEPT ![c].phase = "sent",
                                    ![c].attempts = @ + 1,
                                    ![c].outcome = "none"]
            /\ UNCHANGED <<lease, result>>
       ELSE /\ call' = [call EXCEPT ![c] = NoCall]
            /\ result' = [result EXCEPT ![c] = "AwsError"]
            /\ lease' = IF call[c].op = "release"
                         THEN [lease EXCEPT ![c] = NoLease] ELSE lease
    /\ UNCHANGED <<clock, row, issued>>

\* The answer of an attempt (executed or not) is lost: the SDK re-sends the
\* identical request, or gives up after MaxAttempts and the call raises
\* AwsError.  A caller whose release raised no longer counts on its lease.
Timeout(c) ==
    /\ call[c] # NoCall
    /\ IF call[c].attempts < MaxAttempts
       THEN /\ call' = [call EXCEPT ![c].phase = "sent",
                                    ![c].attempts = @ + 1,
                                    ![c].outcome = "none"]
            /\ UNCHANGED <<lease, result>>
       ELSE /\ call' = [call EXCEPT ![c] = NoCall]
            /\ result' = [result EXCEPT ![c] = "AwsError"]
            /\ lease' = IF call[c].op = "release"
                         THEN [lease EXCEPT ![c] = NoLease] ELSE lease
    /\ UNCHANGED <<clock, row, issued>>

-----------------------------------------------------------------------------
(* The environment: time passes; DynamoDB TTL deletes a row whose ttl has  *)
(* passed, at some point after it passed.                                  *)

Tick ==
    /\ clock < MaxTime
    /\ clock' = clock + 1
    /\ UNCHANGED <<row, lease, call, result, issued>>

TTLDelete ==
    /\ row # NoRow
    /\ row.ttl # NoTTL
    /\ clock >= row.ttl
    /\ row' = NoRow
    /\ UNCHANGED <<clock, lease, call, result, issued>>

Next ==
    \/ \E c \in Client, ls \in LeaseSeconds : Acquire(c, ls) \/ Refresh(c, ls)
    \/ \E c \in Client : Release(c) \/ Execute(c) \/ Return(c) \/ Timeout(c)
    \/ Tick
    \/ TTLDelete

Spec == Init /\ [][Next]_vars

-----------------------------------------------------------------------------
(* Properties                                                              *)

\* A caller holds the lock while its Lease object has not expired and it
\* is not in the middle of releasing it.
HoldsValid(c) ==
    /\ lease[c] # NoLease
    /\ clock < lease[c].exp
    /\ call[c].op # "release"

\* Mutual exclusion (spec §8): with a shared clock, no two callers hold
\* unexpired leases at once, whatever the interleaving of their acquire,
\* refresh and release requests, the SDK's re-sends and TTL deletion.
MutualExclusion ==
    \A c1, c2 \in Client : c1 # c2 => ~(HoldsValid(c1) /\ HoldsValid(c2))

\* A caller that holds an unexpired lease is the one named in the row, and
\* the row does not expire before the caller's Lease object says: the
\* caller's belief (the Lease returned by acquire/refresh) never runs ahead
\* of the table, across lost answers, retried refreshes and TTL deletion.
HolderMatchesRow ==
    \A c \in Client :
        HoldsValid(c) => /\ row # NoRow
                         /\ row.token = lease[c].token
                         /\ row.exp >= lease[c].exp

\* An acquire that ends in LeaseHeld was refused because someone else holds
\* the row (spec §4.5: "condition failure -> LeaseHeld"): the row never
\* carries the token of an acquire whose answer is LeaseHeld.  The SDK's
\* re-send of a put_item whose first attempt succeeded breaks this: the
\* caller is told LeaseHeld while the row holds its own, now unknown, token.
LeaseHeldMeansOtherHolder ==
    \A c \in Client :
        (call[c].op = "acquire" /\ call[c].outcome = "condfail")
            => row.token # call[c].token
=============================================================================
