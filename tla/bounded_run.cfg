SPECIFICATION Spec
CONSTANTS
    Budgets = {1, 2}
    MaxAttempts = 2
    Required = {"tests", "scope"}
    Unresolved = FALSE
    TaskContract <- MCTaskContract
    Digests = {"d0", "d1"}
    ContractDigest = "d0"
    Revisions <- MCRevisions
    CheckIds <- MCCheckIds
    EvidenceIds <- MCEvidenceIds
    ProposalIds <- MCProposalIds
    ActionIds <- MCActionIds
    NoRef <- MCNoRef
    FindingIds <- MCFindingIds
    PolicyCheck = "policy.command"
    AuthorizationId <- MCAuthorizationId
    ObservationId <- MCObservationId
    ToolChecks <- MCToolChecks
    FindingNames = {"reported"}
    Reports <- MCReports
    UnknownEvidence <- MCUnknownEvidence
    Lapses = {"clock", "store", "close", "drift"}
INVARIANTS
    MachineTrailAgrees
    AcceptedRunIsProven
    AttemptsChain
    NothingLeftBehind
    NoRetryPastAHardStop
    FeedbackNamesWhatFailed
    DecidedRunsAreRecorded
    UnrecordedIffCutShort
PROPERTIES
    KeepsPromise
