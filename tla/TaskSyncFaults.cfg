SPECIFICATION Spec
CONSTANTS
    N = 3
    RequireAgreement = TRUE
    Lossy = TRUE
    Expiring = TRUE
    Prefilling = TRUE
INVARIANTS
    Agreement
    DecisionsGenuine
    ListsMatchStatus
    StartedOnce
PROPERTIES
    Finality
    ImplementsAgreement
CHECK_DEADLOCK FALSE
