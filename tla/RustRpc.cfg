CONSTANTS
    Script   <- StreamAndUnary
    FaultSets <- DropsOrExits
    MaxItems  = 1
    TxCap     = 1
    StreamCap = 1
    OutCap    = 1
    ItemCap   = 1
SPECIFICATION FairSpec
PROPERTIES
    ImplementsContract
    AnswersArrive
    CancelReachesHandler
CHECK_DEADLOCK FALSE
