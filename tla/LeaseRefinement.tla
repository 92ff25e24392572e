-------------------------- MODULE LeaseRefinement --------------------------
(***************************************************************************)
(* LeaseManager implements LeaseAbstract.  The owner of the key is the     *)
(* caller that generated the token the lease row carries (nobody when      *)
(* there is no row), the lease lasts until the row's expires_at, and a     *)
(* caller's pending operation is the one it has in flight.                 *)
(*                                                                         *)
(* uuid4 tokens name no caller, so the history variable issuer records who *)
(* generated each token: token n was generated by issuer[n].               *)
(***************************************************************************)
EXTENDS LeaseManager, Sequences

VARIABLE issuer

refVars == <<vars, issuer>>

Nobody == "nobody"

InitR == Init /\ issuer = <<>>

NextR ==
    \/ \E c \in Client, ls \in LeaseSeconds : Acquire(c, ls) /\ issuer' = Append(issuer, c)
    \/ /\ \/ \E c \in Client, ls \in LeaseSeconds : Refresh(c, ls)
          \/ \E c \in Client : Release(c) \/ Execute(c) \/ Return(c) \/ Timeout(c)
          \/ Tick
          \/ TTLDelete
       /\ UNCHANGED issuer

SpecR == InitR /\ [][NextR]_refVars

Abstract == INSTANCE LeaseAbstract WITH
    owner <- IF row = NoRow THEN Nobody ELSE issuer[row.token],
    until <- row.exp,
    pending <- [c \in Client |-> call[c].op]

\* The lease row only ever changes as the abstract lease allows: it passes
\* to a caller only by that caller's acquire when the row is absent or
\* expired, its expiry moves only by its owner's refresh, and it goes away
\* only by its owner's release or once expired (TTL deletion), across
\* stale now values, SDK re-sends and lost answers.
LeaseRefines == Abstract!Spec
=============================================================================
