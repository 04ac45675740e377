SPECIFICATION FairSpec
CONSTANTS
    MaxOutput = 3
    ChunkSize = 2
    MaxWritten = 3
INVARIANTS
    PassedIsWholeAndUndisturbed
    OutputWithinBudget
    NoChildLeftRunning
PROPERTIES
    Returns
