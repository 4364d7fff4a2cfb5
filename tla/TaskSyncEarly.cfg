SPECIFICATION FairSpec
CONSTANTS
    N = 3
    RequireAgreement = TRUE
    Lossy = FALSE
    Expiring = FALSE
    Prefilling = FALSE
PROPERTIES
    CompleteStarts
CHECK_DEADLOCK FALSE
