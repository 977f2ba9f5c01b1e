CONSTANTS
    MaxCalls  = 2
    TxCap     = 1
    StreamCap = 1
    b1        = b1
    Bodies   <- OneBody
    NoBody    = NoBody
SPECIFICATION Spec
INVARIANT NoPanic
CHECK_DEADLOCK FALSE
