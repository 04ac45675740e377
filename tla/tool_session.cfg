SPECIFICATION FairSpec
CONSTANTS
    Threads = {"t1", "t2"}
    Sessions = {"s1", "s2"}
    Wirings <- MCWirings
    Commands <- MCCommands
    Revisions = {"r1", "r2"}
    InitialRevision = "r1"
    CheckIds = {"policy.command", "lint", "tests"}
    EvidenceIds <- MCEvidenceIds
    ProposalIds = {}
    ActionIds = {"a1", "a2"}
    NoRef = "none"
    PolicyCheck = "policy.command"
    AuthorizationId <- MCAuthorizationId
    ObservationId <- MCObservationId
    Nobody = "nobody"
    MaxRevisions = 2
INVARIANTS
    RegistryIsBacked
    EvidenceComesFromRuns
    NotHalfAnswered
PROPERTIES
    EveryCallReturns
