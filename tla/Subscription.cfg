SPECIFICATION Spec
CONSTANTS
    Writers = {w1, w2}
    Subscribers = {s1, s2}
    Starts = {0, 2}
    MaxVersions = 3
    Brokers = {"redis", "rabbitmq"}
    Faulty = TRUE
    Strangers = TRUE
INVARIANTS
    EveryVersionOnce
    StoredFirst
    NothingLost
    CountIsExact
PROPERTY
    ImplementsFeed
SYMMETRY MCSymmetry
CHECK_DEADLOCK FALSE
