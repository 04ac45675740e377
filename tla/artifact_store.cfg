SPECIFICATION FairSpec
CONSTANTS
    Stores = {"s1", "s2"}
    Contents = {"bytes", "nothing"}
    Empty = {"nothing"}
    Faults = {"crash", "disk", "tamper"}
INVARIANTS
    RegisteredIsWhole
PROPERTIES
    KeepsOneMap
    HalfWrittenHeals
