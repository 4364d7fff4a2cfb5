SPECIFICATION Spec
CONSTANTS
    Segments <- MCSegments
    Keys <- MCKeys
    Values = {v1, v2}
    NoValue = NoValue
    Times <- MCTimes
    NanosPerSecond = 10
    Monotonic = TRUE
INVARIANTS
    ListsLatest
    ListsHistory
    ListsDirectories
    CurrentIsNewest
PROPERTIES
    VersionsKept
    ImplementsStore
CHECK_DEADLOCK FALSE
