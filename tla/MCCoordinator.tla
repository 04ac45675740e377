----------------------------- MODULE MCCoordinator -----------------------------
(* Small instances of the coordinator for TLC. *)
EXTENDS CoordinatorProperties

CONSTANTS
    Required,     \* the required checks of the contract
    Unresolved    \* whether it has an unresolved material question

MCTaskContract == [required |-> Required, unresolved |-> Unresolved]

MCCheckIds == {"policy.command", "tests", "scope"}

MCRevisions == (1..MaxAttempts) \X Digests

MCProposalIds == {ProposalId(n) : n \in 1..MaxAttempts}

MCActionIds == {ActionId(c, n) : c \in MCCheckIds, n \in 1..MaxAttempts}

MCAuthorizationId == [a \in MCActionIds |-> <<"authorization", a[1], a[2]>>]

MCObservationId == [pair \in MCActionIds \X MCCheckIds |->
                       <<"observation", pair[2], pair[1][2]>>]

MCUnknownEvidence == <<"unknown", "none", 0>>

MCEvidenceIds ==
    {<<source, c, n>> : source \in {"authorization", "observation", "report"},
                        c \in MCCheckIds, n \in 1..MaxAttempts}
    \cup {MCUnknownEvidence}

MCFindingIds ==
    {"runner", "denied", "drift", "wall-time", "reported"} \X (0..MaxAttempts)

MCNoRef == <<>>

MCToolChecks == <<"tests">>

Scope(passed) == [check |-> "scope", passed |-> passed, fresh |-> TRUE]

StaleScope == [check |-> "scope", passed |-> TRUE, fresh |-> FALSE]

Reported(severity, numbered, cites) ==
    [name |-> "reported", severity |-> severity, numbered |-> numbered, cites |-> cites]

Report(items, found) == [evidence |-> items, findings |-> found]

\* What the two verifiers of the repository report, and what the protocol
\* allows a third one: failing, outdated and repeated evidence, a finding of
\* each kind.
MCReports ==
    {Report(<<>>, {}),
     Report(<<Scope(TRUE)>>, {}),
     Report(<<Scope(FALSE)>>, {}),
     Report(<<StaleScope>>, {}),
     Report(<<Scope(TRUE), Scope(FALSE)>>, {}),
     Report(<<Scope(TRUE)>>, {Reported("revision", TRUE, FALSE)}),
     Report(<<Scope(FALSE)>>, {Reported("revision", FALSE, FALSE)}),
     Report(<<Scope(TRUE)>>, {Reported("blocking", TRUE, FALSE)}),
     Report(<<Scope(TRUE)>>, {Reported("info", TRUE, TRUE)})}

\* Enough to be asked for a revision, accepted or refused in each attempt.
MCBriefReports ==
    {Report(<<>>, {}),
     Report(<<Scope(TRUE)>>, {}),
     Report(<<StaleScope>>, {}),
     Report(<<Scope(TRUE)>>, {Reported("escalation", TRUE, FALSE)})}
===============================================================================
