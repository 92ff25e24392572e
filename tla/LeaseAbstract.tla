---------------------------- MODULE LeaseAbstract ----------------------------
(***************************************************************************)
(* What a lease key promises its callers (spec 4.5, 8), with no table, no  *)
(* tokens and no SDK: the key is owned by one caller or by nobody, until   *)
(* some time.  The ownership passes to a caller only while that caller is  *)
(* acquiring and the key is free or its lease has run out; it is extended *)
(* only by its owner while refreshing; it is given up by its owner while   *)
(* releasing, or lapses once its time has passed.                          *)
(*                                                                         *)
(* pending[c] is the operation caller c has under way ("none" when idle);  *)
(* a caller starts and ends operations freely.                             *)
(***************************************************************************)
EXTENDS Integers

CONSTANTS Client, Nobody, Time

VARIABLES owner, until, clock, pending

Ops == {"acquire", "refresh", "release"}

Expired == until <= clock

Begin(c, op) ==
    /\ pending[c] = "none"
    /\ pending' = [pending EXCEPT ![c] = op]
    /\ UNCHANGED <<owner, until, clock>>

End(c) ==
    /\ pending[c] # "none"
    /\ pending' = [pending EXCEPT ![c] = "none"]
    /\ UNCHANGED <<owner, until, clock>>

Take(c, t) ==
    /\ pending[c] = "acquire"
    /\ owner = Nobody \/ Expired
    /\ owner' = c /\ until' = t
    /\ UNCHANGED <<clock, pending>>

\* No expiry check: a refresh compares the expiry with the now it read
\* before sending, so a lease nobody has taken since it ran out can be
\* extended by its owner.
Extend(c, t) ==
    /\ pending[c] = "refresh"
    /\ owner = c
    /\ until' = t
    /\ UNCHANGED <<owner, clock, pending>>

GiveUp(c) ==
    /\ pending[c] = "release"
    /\ owner = c
    /\ owner' = Nobody /\ until' = 0
    /\ UNCHANGED <<clock, pending>>

Lapse ==
    /\ owner # Nobody /\ Expired
    /\ owner' = Nobody /\ until' = 0
    /\ UNCHANGED <<clock, pending>>

Tick ==
    /\ clock' = clock + 1
    /\ UNCHANGED <<owner, until, pending>>

Init ==
    /\ owner = Nobody /\ until = 0 /\ clock = 0
    /\ pending = [c \in Client |-> "none"]

Next ==
    \/ \E c \in Client : \/ \E op \in Ops : Begin(c, op)
                         \/ End(c) \/ GiveUp(c)
                         \/ \E t \in Time : Take(c, t) \/ Extend(c, t)
    \/ Lapse
    \/ Tick

Spec == Init /\ [][Next]_<<owner, until, clock, pending>>
=============================================================================
