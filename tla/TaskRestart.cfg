SPECIFICATION RestartSpec
CONSTANTS
    N = 3
    RequireAgreement = TRUE
    Lossy = TRUE
    Expiring = TRUE
    Prefilling = TRUE
    MaxRestarts = 1
INVARIANTS
    ApprovedByAll
    IntactLists
PROPERTIES
    IntactOutcome
CHECK_DEADLOCK FALSE
