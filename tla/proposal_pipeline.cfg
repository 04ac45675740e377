SPECIFICATION Spec
CONSTANTS
    Paths <- MCPaths
    Contents = {"1", "2"}
    UnsafePaths <- MCUnsafePaths
    ProtectedRoots <- MCProtectedRoots
    MaxPatchFiles = 1
    Sources <- MCSources
    Results <- MCResults
    Edits <- MCEdits
    MaxWrites = 3
CHECK_DEADLOCK FALSE
INVARIANTS
    AppliedIsWhatWasShown
    UndisturbedRunsArrive
    ProtectedRootsAreRestored
