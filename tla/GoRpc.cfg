CONSTANTS
    Script   <- StreamAndUnary
    Faults   <- Everything
    MaxItems  = 1
    StreamCap = 2
SPECIFICATION Spec
PROPERTY ImplementsContract
CHECK_DEADLOCK FALSE
