SPECIFICATION FairSpec
CONSTANTS
    ProtocolNum = 2
    After <- MCAfter
    OperatorNum = 1
    ImportNum = 2
INVARIANTS
    InitializedMeansReported
    OperatorsOrdered
PROPERTIES
    ImportInitializes
CHECK_DEADLOCK FALSE
