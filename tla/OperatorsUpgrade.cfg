SPECIFICATION Spec
CONSTANTS
    Users = {u1, u2}
    NoUser = NoUser
    Instances = {i1, i2}
    Stops = {s1}
    NoInstance = NoInstance
    Faulty = FALSE
PROPERTIES
    UpgradeSparesRunning
CHECK_DEADLOCK FALSE
