---------------------------- MODULE LedgerDecisions ----------------------------
(***************************************************************************)
(* Any program on top of the ledger and the decision policy, such as       *)
(* usage/examples and the scenario tests: it appends in whatever order it  *)
(* likes, at whatever revision it likes, and may ask for a decision        *)
(* between any two appends.  The clock it injected may raise.              *)
(***************************************************************************)
EXTENDS Decision

CONSTANTS
    InitialRevision,
    Contracts,      \* the contracts a run may be given
    FindingSets,    \* the findings a decision may be asked about
    MaxEvents       \* bound: no append once the trail has this many events

ASSUME LedgerDecisionsAssumption ==
    /\ InitialRevision \in Revisions
    /\ Contracts \subseteq Contract
    /\ FindingSets \subseteq SUBSET Finding

VARIABLES
    contract,
    clockFailed     \* history: some append's clock has raised

vars == <<ledgerVars, contract, clockFailed>>

Init ==
    /\ LedgerInit(InitialRevision)
    /\ contract \in Contracts
    /\ clockFailed = FALSE

Room == Len(events) < MaxEvents

AppendRevision(r) ==
    /\ Room
    /\ RecordRevision(r)
    /\ UNCHANGED <<contract, clockFailed>>

AppendEvidence(e) ==
    /\ Room
    /\ RecordEvidence(e)
    /\ UNCHANGED <<contract, clockFailed>>

AppendProposal(p) ==
    /\ Room
    /\ RecordProposal(p)
    /\ UNCHANGED <<contract, clockFailed>>

LoseRevision(r) ==
    /\ Room
    /\ RecordRevisionClockFails(r)
    /\ clockFailed' = TRUE
    /\ UNCHANGED contract

LoseEvidence(e) ==
    /\ Room
    /\ RecordEvidenceClockFails(e)
    /\ clockFailed' = TRUE
    /\ UNCHANGED contract

Next ==
    \/ \E r \in Revisions : AppendRevision(r) \/ LoseRevision(r)
    \/ \E e \in Evidence : AppendEvidence(e) \/ LoseEvidence(e)
    \/ \E p \in ProposalIds : AppendProposal(p)

Spec == Init /\ [][Next]_vars

-------------------------------------------------------------------------------
(* What a reader of the exported trail can recompute *)

OfKind(kind) == {i \in DOMAIN events : events[i].kind = kind}

LatestOf(S) == CHOOSE i \in S : \A j \in S : j <= i

TrailRevision == events[LatestOf(OfKind("revision"))].revision

\* The item an evidence event refers to.
ItemOf(id) == CHOOSE e \in {evidence[i] : i \in DOMAIN evidence} : e.id = id

TrailOf(c, revisions) ==
    {i \in OfKind("evidence") :
        ItemOf(events[i].ref).check = c /\ events[i].revision \in revisions}

TrailStatus(c) ==
    IF TrailOf(c, {TrailRevision}) # {}
      THEN IF ItemOf(events[LatestOf(TrailOf(c, {TrailRevision}))].ref).passed
             THEN "passed" ELSE "failed"
    ELSE IF TrailOf(c, Revisions) # {} THEN "stale" ELSE "missing"

-------------------------------------------------------------------------------
TypeOK ==
    /\ LedgerTypeOK
    /\ contract \in Contract
    /\ clockFailed \in BOOLEAN

\* The evidence the policy judges by and the event trail the run record
\* exports are separate structures.  As long as no clock has raised, replaying
\* the trail gives the judgement of every check, so a decision can be audited
\* from the record alone (decision.decide against ledger.events).
AuditTrailReplays ==
    ~clockFailed =>
        /\ TrailRevision = revision
        /\ \A c \in CheckIds : TrailStatus(c) = CheckStatus(c)

\* Fail-closed: a verdict of accept needs all of: every required check passed
\* by its latest item at the current revision, at least one required check, no
\* open question, no finding that blocks, escalates, asks for a revision or
\* cites unknown evidence; and it is given whenever all of that holds.
AcceptIffEarned ==
    \A findings \in FindingSets :
        Decide(contract, findings).verdict = "accept" <=> Earned(contract, findings)

\* The reason codes become the next attempt's feedback.  They name every
\* obstacle: resolving exactly the findings and checks they name, and nothing
\* else, leaves nothing that stands against acceptance.
FeedbackIsSufficient ==
    \A findings \in FindingSets :
        LET decision == Decide(contract, findings)
            named    == {reason[2] : reason \in
                            {r \in decision.reasons : r[1] = "finding.revision"}}
            checks   == {reason[2] : reason \in
                            {r \in decision.reasons : r[1] \in {"missing", "stale", "failed"}}}
        IN  decision.verdict = "revise" =>
                /\ \A f \in findings : f.id \in named \/ f.severity \in {"info", "warning"}
                /\ \A c \in contract.required \ checks : CheckStatus(c) = "passed"

\* The evidence a decision cites exists, and every item an acceptance cites
\* is a passing one of the current revision.
CitationsHold ==
    \A findings \in FindingSets :
        LET decision == Decide(contract, findings)
        IN  /\ decision.refs \subseteq evidenceIds
            /\ decision.verdict = "accept" =>
                 \A id \in decision.refs : ItemOf(id).passed /\ ItemOf(id).revision = revision

\* One more passing item never takes an acceptance away, and only an append
\* of failing evidence or a change of revision can.
AcceptanceIsKept ==
    \A findings \in FindingSets :
        /\ Decide(contract, findings).verdict = "accept"
        /\ Decide(contract, findings)'.verdict # "accept"
        => \/ revision' # revision
           \/ /\ Len(evidence') > Len(evidence)
              /\ ~evidence'[Len(evidence')].passed

AcceptanceIsStable == [][AcceptanceIsKept]_vars

\* usage/Sheath_Stage0.md: "A revision invalidates older evidence for the
\* decision."  Every item an acceptance rests on was recorded after the last
\* revision event.
RevisionInvalidatesEvidence ==
    ~clockFailed /\ Decide(contract, {}).verdict = "accept" =>
        \A c \in contract.required :
            LatestOf(TrailOf(c, {revision})) > LatestOf(OfKind("revision"))
===============================================================================
