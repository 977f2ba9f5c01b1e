CONSTANTS
    MaxCalls = 2
    MaxItems = 2
    MaxRecvs = 3
SPECIFICATION Spec
INVARIANTS
    ItemsInOrder
    RecvsAreServed
    EveryCallEnds
    CallsAreForgotten
CHECK_DEADLOCK FALSE
