SPECIFICATION FairSpec
CONSTANTS
    N = 4
    RequireAgreement = TRUE
    Lossy = FALSE
    Expiring = FALSE
    Prefilling = FALSE
PROPERTIES
    ApprovalStarts
    RejectionSpreads
CHECK_DEADLOCK FALSE
