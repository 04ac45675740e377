SPECIFICATION Spec
CONSTANTS
    Revisions = {"r1", "r2"}
    InitialRevision = "r1"
    CheckIds = {"lint", "tests"}
    EvidenceIds = {"e1", "e2"}
    ProposalIds = {"p1"}
    ActionIds = {"a1"}
    NoRef = "none"
    FindingIds = {"f1", "f2"}
    Contracts <- MCContracts
    FindingSets <- MCFindingSets
    MaxEvents = 5
INVARIANTS
    RevisionInvalidatesEvidence
CHECK_DEADLOCK FALSE
