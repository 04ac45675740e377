------------------------------ MODULE Supervision ------------------------------
(***************************************************************************)
(* What the two coordinators promise, without ledgers, sessions, snapshots *)
(* or records: a bounded number of attempts, each judged afresh, and a run *)
(* that is accepted only while every required check stands passed.         *)
(***************************************************************************)
EXTENDS Naturals

CONSTANT RequiredChecks

VARIABLES
    budget,     \* attempts the caller allows
    attempts,   \* attempts begun
    passing,    \* the checks that stand passed for the current attempt
    status      \* "running", a verdict the caller was given, or "failed"

vars == <<budget, attempts, passing, status>>

Init ==
    /\ budget \in Nat \ {0}
    /\ attempts = 1
    /\ passing = {}
    /\ status = "running"

\* Verification of the current attempt moves the standing of the checks.
Judge ==
    /\ status = "running"
    /\ passing' \in SUBSET RequiredChecks
    /\ UNCHANGED <<budget, attempts, status>>

\* A retry forgets everything the attempt before it has earned.
Retry ==
    /\ status = "running"
    /\ attempts < budget
    /\ attempts' = attempts + 1
    /\ passing' = {}
    /\ UNCHANGED <<budget, status>>

Accept ==
    /\ status = "running"
    /\ RequiredChecks # {}
    /\ passing = RequiredChecks
    /\ status' = "accept"
    /\ UNCHANGED <<budget, attempts, passing>>

\* A request for revision is final only when no attempt is left.
Refuse(verdict) ==
    /\ status = "running"
    /\ verdict = "revise" => attempts = budget
    /\ status' = verdict
    /\ UNCHANGED <<budget, attempts, passing>>

Fail ==
    /\ status = "running"
    /\ status' = "failed"
    /\ UNCHANGED <<budget, attempts, passing>>

Next ==
    \/ Judge \/ Retry \/ Accept \/ Fail
    \/ \E verdict \in {"revise", "block", "escalate"} : Refuse(verdict)

Spec == Init /\ [][Next]_vars

\* Every run comes to an end.
Concludes == <>(status # "running")
===============================================================================
