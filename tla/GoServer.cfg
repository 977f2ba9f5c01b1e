CONSTANTS
    MaxCalls = 2
    MaxItems = 2
SPECIFICATION Spec
INVARIANTS
    CallsEndOnce
    LiveCallsCanBeCancelled
CHECK_DEADLOCK FALSE
