SPECIFICATION PhaseSpec
CONSTANTS
    Occasions = {"archive", "probe", "load", "canary", "schedule", "review", "capture"}
    Acquirers = {n1, n2}
    Chunks = 2
    MaxOutside = 1
    Stagers = {n1, n2}
    Members = {"exe", "txt"}
    Candidates = {"exe"}
    ServicePids = {1, 2}
    MaxBirths = 4
    MaxUserSteps = 2
    Invokers = {n1, n2}
    Launches = {n1, n2}
    Tasks <- OneTask
    Samples = 2
    Authors = {n1, n2}
    CandidateIds = {c1, c2}
    Instances = {c1, c2}
    Images = {c1, c2}
    MaxLines = 3
    MaxReplaced = 1
    Connections = {x1, x2}
    MaxRequests = 2
SYMMETRY Alike
CHECK_DEADLOCK FALSE
INVARIANTS
    AcquiredIsWhole
    StagedIsThePinnedArchive
    ClassifiedIsGenuine
    AcceptedOnItsOwn
    OneShotsAreSpentOnce
    ReviewsAreInformed
    EvidenceStands
PROPERTY
    CanaryReleases
