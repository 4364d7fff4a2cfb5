SPECIFICATION Spec
CONSTANTS
    Tasks = {t1, t2}
    Confirmed = {"approved", "rejected"}
    Settled = {"started"}
    Faulty = TRUE
INVARIANTS
    UndisturbedInPlace
    ListedAtLatest
SYMMETRY MCSymmetry
CHECK_DEADLOCK FALSE
