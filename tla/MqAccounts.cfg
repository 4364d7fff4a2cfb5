SPECIFICATION Spec
CONSTANTS
    Requests = {1, 2, 3, 4}
    Users = {"alice", "bob"}
    UserOf <- MCUserOf
    MaxFaults = 3
    None = None
INVARIANTS
    UrisUsable
    NothingWasted
    OldAccountsGone
PROPERTIES
    ServesInTheEnd
CHECK_DEADLOCK FALSE
