---------------------------- MODULE TableLifecycle ----------------------------
(***************************************************************************)
(* schema.py: callers running ensure_table, create_table and delete_table  *)
(* on one table, each with wait_for_active / wait_for_delete, against      *)
(* DynamoDB's table status.  A create makes the table CREATING, and        *)
(* DynamoDB makes it ACTIVE within CreateTime ticks; a delete makes it     *)
(* DELETING, gone within DeleteTime ticks.  Just after CreateTable,        *)
(* DescribeTable may still answer ResourceNotFoundException (the table is  *)
(* not yet visible).                                                       *)
(*                                                                         *)
(* A wait loop's deadline is time.monotonic() + wait_timeout_seconds; it  *)
(* is kept as the ticks left, a tick being one poll_interval_seconds       *)
(* sleep.                                                                  *)
(***************************************************************************)
EXTENDS Integers

CONSTANTS
    Procs,       \* the callers
    Role,        \* caller -> "ensure", "create" or "delete"
    Timeout,     \* wait_timeout_seconds, in polls
    CreateTime,  \* ticks DynamoDB takes to make a table ACTIVE
    DeleteTime   \* ticks DynamoDB takes to delete it

VARIABLES
    status,    \* "NONE", "CREATING", "ACTIVE", "DELETING"
    timer,     \* ticks until the CREATING / DELETING table settles
    visible,   \* DescribeTable sees the table
    pc,        \* caller -> where it is in its call
    left,      \* caller -> polls before its deadline
    deleted    \* history: a DeleteTable was accepted

tvars == <<status, timer, visible, pc, left, deleted>>

Waiting == {"waitActive", "waitGone"}
Sleeping == {"sleepActive", "sleepGone"}

\* DescribeTable's answer: the status, or ResourceNotFoundException.
Describe == IF status = "NONE" \/ ~visible THEN "NotFound" ELSE status

Init ==
    /\ status \in {"NONE", "ACTIVE"} /\ timer = 0 /\ visible = TRUE
    /\ pc = [p \in Procs |-> Role[p]] /\ left = [p \in Procs |-> Timeout]
    /\ deleted = FALSE

\* Starting a wait loop: the deadline is Timeout polls away.
StartWait(p, w) == pc' = [pc EXCEPT ![p] = w] /\ left' = [left EXCEPT ![p] = Timeout]

\* ensure_table: describe_table; ResourceNotFoundException leads to
\* create_table, any status to the wait for ACTIVE.
Ensure(p) ==
    /\ pc[p] = "ensure"
    /\ IF Describe = "NotFound" THEN pc' = [pc EXCEPT ![p] = "create"] /\ UNCHANGED left
                                ELSE StartWait(p, "waitActive")
    /\ UNCHANGED <<status, timer, visible, deleted>>

\* Mutant: ResourceInUseException raised instead of waited out.
CreateRaisesInUse(p) ==
    /\ pc[p] = "create"
    /\ IF status = "NONE"
       THEN /\ status' = "CREATING" /\ timer' = CreateTime /\ visible' = FALSE
            /\ StartWait(p, "waitActive")
       ELSE /\ pc' = [pc EXCEPT ![p] = "error"]
            /\ UNCHANGED <<status, timer, visible, left>>
    /\ UNCHANGED deleted

\* create_table: CreateTable; ResourceInUseException (the table exists in
\* any status) is ignored, and both go on to the wait for ACTIVE.
Create(p) ==
    /\ pc[p] = "create"
    /\ IF status = "NONE"
       THEN status' = "CREATING" /\ timer' = CreateTime /\ visible' = FALSE
       ELSE UNCHANGED <<status, timer, visible>>
    /\ StartWait(p, "waitActive")
    /\ UNCHANGED deleted

\* delete_table (ignore_missing=False): DeleteTable on an ACTIVE table
\* starts the deletion; ResourceNotFoundException and ResourceInUseException
\* (CREATING or DELETING) raise.
Delete(p) ==
    /\ pc[p] = "delete"
    /\ IF status = "ACTIVE"
       THEN /\ status' = "DELETING" /\ timer' = DeleteTime /\ deleted' = TRUE
            /\ StartWait(p, "waitGone")
       ELSE /\ pc' = [pc EXCEPT ![p] = "error"]
            /\ UNCHANGED <<status, timer, deleted, left>>
    /\ UNCHANGED visible

\* One round of _wait_for_table_active: past the deadline it raises the
\* timeout; otherwise describe_table (NotFound counts as no status) returns
\* on ACTIVE or sleeps.
PollActive(p) ==
    /\ pc[p] = "waitActive"
    /\ pc' = [pc EXCEPT ![p] = IF left[p] = 0 THEN "timeout"
                               ELSE IF Describe = "ACTIVE" THEN "ok" ELSE "sleepActive"]
    /\ UNCHANGED <<status, timer, visible, left, deleted>>

\* One round of _wait_for_table_deleted: returns on NotFound.
PollGone(p) ==
    /\ pc[p] = "waitGone"
    /\ pc' = [pc EXCEPT ![p] = IF left[p] = 0 THEN "timeout"
                               ELSE IF Describe = "NotFound" THEN "ok" ELSE "sleepGone"]
    /\ UNCHANGED <<status, timer, visible, left, deleted>>

\* One poll interval passes: sleepers wake with one poll less before their
\* deadline, a settling table's timer runs down and a new table becomes
\* visible.  Time does not pass a settling that is due.
Tick ==
    /\ \/ \E p \in Procs : pc[p] \in Sleeping
       \/ timer > 0
    /\ timer > 0 \/ status \notin {"CREATING", "DELETING"}
    /\ timer' = IF timer > 0 THEN timer - 1 ELSE 0
    /\ visible' = TRUE
    /\ pc' = [p \in Procs |-> CASE pc[p] = "sleepActive" -> "waitActive"
                                [] pc[p] = "sleepGone" -> "waitGone"
                                [] OTHER -> pc[p]]
    /\ left' = [p \in Procs |-> IF pc[p] \in Sleeping THEN left[p] - 1 ELSE left[p]]
    /\ UNCHANGED <<status, deleted>>

\* DynamoDB finishes creating or deleting the table.
Settle ==
    /\ status \in {"CREATING", "DELETING"} /\ timer = 0
    /\ status' = IF status = "CREATING" THEN "ACTIVE" ELSE "NONE"
    /\ UNCHANGED <<timer, visible, pc, left, deleted>>

Step(p) == Ensure(p) \/ Create(p) \/ Delete(p) \/ PollActive(p) \/ PollGone(p)

Next == (\E p \in Procs : Step(p)) \/ Tick \/ Settle

\* Callers' threads run (a sleep returns), time passes and DynamoDB
\* settles a table it is creating or deleting.
Fairness == (\A p \in Procs : WF_tvars(Step(p))) /\ WF_tvars(Tick) /\ WF_tvars(Settle)

Spec == Init /\ [][Next]_tvars /\ Fairness

-----------------------------------------------------------------------------

\* Concurrent ensure_table calls all return: whoever's CreateTable loses the
\* race gets ResourceInUseException and waits, a describe that does not
\* see the new table yet leads to a create that waits too, and the
\* deadline (checked with <) leaves room for CreateTime.  Only a
\* delete_table accepted meanwhile may make one time out.
EnsureReturns ==
    \A p \in Procs : Role[p] \in {"ensure", "create"} => <>(pc[p] = "ok" \/ deleted)
====
