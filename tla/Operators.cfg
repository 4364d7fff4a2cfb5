SPECIFICATION Spec
CONSTANTS
    Users = {u1, u2}
    NoUser = NoUser
    Instances = {i1, i2, i3}
    Stops = {s1, s2}
    NoInstance = NoInstance
    Faulty = TRUE
INVARIANTS
    ListedIsRecorded
    RunningIsListed
    StoppedIsGone
PROPERTIES
    RunsInstalled
SYMMETRY Symmetry
CHECK_DEADLOCK FALSE
