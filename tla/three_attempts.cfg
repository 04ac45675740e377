SPECIFICATION FairSpec
CONSTANTS
    Budgets = {1, 3}
    MaxAttempts = 3
    Required = {"tests", "scope"}
    Unresolved = FALSE
    TaskContract <- MCTaskContract
    Digests = {"d0", "d1"}
    ContractDigest = "d0"
    Revisions <- MCRevisions
    CheckIds <- MCCheckIds
    EvidenceIds <- MCEvidenceIds
    ProposalIds <- MCProposalIds
    ActionIds <- MCActionIds
    NoRef <- MCNoRef
    FindingIds <- MCFindingIds
    PolicyCheck = "policy.command"
    AuthorizationId <- MCAuthorizationId
    ObservationId <- MCObservationId
    ToolChecks <- MCToolChecks
    FindingNames = {"reported"}
    Reports <- MCBriefReports
    UnknownEvidence <- MCUnknownEvidence
    Lapses = {"close"}
INVARIANTS
    OnlyThisAttemptCounts
PROPERTIES
    Terminates
