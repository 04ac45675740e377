------------------------------- MODULE Decision -------------------------------
(***************************************************************************)
(* The decision policy of sheath/decision.py: a pure function of the task  *)
(* contract, the ledger and the findings.  Findings are a set: their order *)
(* only orders the reason codes.                                           *)
(***************************************************************************)
EXTENDS EvidenceLedger

CONSTANTS
    FindingIds

\* The two fields of a TaskContract that a decision reads.
Contract == [required : SUBSET CheckIds, unresolved : BOOLEAN]

Severities == {"info", "warning", "revision", "blocking", "escalation"}

Finding == [id : FindingIds, severity : Severities, refs : SUBSET EvidenceIds]

Verdicts == {"accept", "revise", "block", "escalate"}

OfSeverity(findings, severity) == {f \in findings : f.severity = severity}

\* _finding_ids
FindingRefs(findings) == UNION {f.refs : f \in findings}

\* Mutant: an informational finding may cite what it likes.
DanglingUnlessInfo(findings) ==
    {f \in findings : f.severity # "info" /\ ~(f.refs \subseteq evidenceIds)}

\* Findings that cite evidence the ledger has never recorded.
Dangling(findings) == {f \in findings : ~(f.refs \subseteq evidenceIds)}

\* How the loop over required_checks judges one check.
CheckStatus(c) ==
    IF CurrentEvidence(c) = {} THEN IF EverRecorded(c) THEN "stale" ELSE "missing"
    ELSE IF evidence[LatestCurrent(c)].passed THEN "passed" ELSE "failed"

Obstacles(contract) == {c \in contract.required : CheckStatus(c) # "passed"}

\* Mutant: every item of a required check is cited.
CitedEverything(contract) ==
    {evidence[i].id : i \in {n \in DOMAIN evidence : evidence[n].check \in contract.required}}

\* Ids of the latest current item of every required check that has one.
CitedEvidence(contract) ==
    {evidence[LatestCurrent(c)].id : c \in {k \in contract.required : CurrentEvidence(k) # {}}}

\* A reason code is the pair of its prefix and what it names.
ReasonsOf(prefix, findings) == {<<prefix, f.id>> : f \in findings}

\* Mutant: the loop stops at the first obstacle.
FirstCheckReason(contract) ==
    IF Obstacles(contract) = {} THEN {}
    ELSE LET c == CHOOSE k \in Obstacles(contract) : TRUE IN {<<CheckStatus(c), c>>}

CheckReasons(contract) == {<<CheckStatus(c), c>> : c \in Obstacles(contract)}

Outcome(verdict, reasons, refs) ==
    [verdict |-> verdict, reasons |-> reasons, refs |-> refs]

\* The early returns of decide, in their order of precedence.
Decide(contract, findings) ==
    LET blocking    == OfSeverity(findings, "blocking")
        escalations == OfSeverity(findings, "escalation")
        revisions   == OfSeverity(findings, "revision")
        reasons     == ReasonsOf("finding.revision", revisions) \cup CheckReasons(contract)
    IN  IF Dangling(findings) # {}
          THEN Outcome("escalate", ReasonsOf("finding.unknown_evidence", Dangling(findings)), {})
        ELSE IF blocking # {}
          THEN Outcome("block", ReasonsOf("finding.blocking", blocking), FindingRefs(blocking))
        ELSE IF contract.unresolved
          THEN Outcome("escalate", {<<"contract.unresolved_material_question", "contract">>}, {})
        ELSE IF escalations # {}
          THEN Outcome("escalate", ReasonsOf("finding.escalation", escalations),
                       FindingRefs(escalations))
        ELSE IF contract.required = {}
          THEN Outcome("escalate", {<<"contract.no_required_checks", "contract">>}, {})
        ELSE IF reasons # {}
          THEN Outcome("revise", reasons, FindingRefs(revisions) \cup CitedEvidence(contract))
        ELSE Outcome("accept", {<<"mandatory_checks.current_and_passed", "contract">>},
                     CitedEvidence(contract))

-------------------------------------------------------------------------------
\* What an acceptance is worth, said without the policy's own notions of
\* latest item and status: the contract has checks and no open question, for
\* every check there is a passing item at the current revision that no later
\* one of that check and revision follows, and no finding objects.
Earned(contract, findings) ==
    /\ contract.required # {}
    /\ ~contract.unresolved
    /\ \A c \in contract.required :
          \E i \in DOMAIN evidence :
             /\ evidence[i].passed
             /\ evidence[i].check = c
             /\ evidence[i].revision = revision
             /\ \A j \in DOMAIN evidence :
                   j > i => ~(evidence[j].check = c /\ evidence[j].revision = revision)
    /\ \A f \in findings :
          f.severity \in {"info", "warning"} /\ f.refs \subseteq evidenceIds
===============================================================================
