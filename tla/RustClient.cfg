CONSTANTS
    MaxCalls  = 2
    TxCap     = 2
    StreamCap = 1
    b1        = b1
    Bodies   <- OneBody
    NoBody    = NoBody
SPECIFICATION FairSpec
INVARIANTS
    TypeOK
    NoLostAnswer
    ExitReleasesCalls
    CancelFollowsRequest
    AbandonedCallsForgotten
PROPERTY ExitWakesCallers
CHECK_DEADLOCK FALSE
