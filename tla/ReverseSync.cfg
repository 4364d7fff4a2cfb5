SPECIFICATION FairSpec
CONSTANTS
    Creates = {c1, c2}
    Sends = {s1, s2}
    Forwards = {s2}
    Capacity = 1
    Retries = 1
INVARIANTS
    OneReader
    HandledInOrder
PROPERTIES
    AcceptedHandled
    RequestsEnd
CHECK_DEADLOCK FALSE
