CONSTANTS
    MaxCalls = 2
    MaxItems = 2
    OutCap   = 1
    ItemCap  = 1
SPECIFICATION FairSpec
INVARIANTS
    CallsEndOnce
    RepliesAreKept
PROPERTIES
    DropStopsHandlers
    ForwardersEnd
CHECK_DEADLOCK FALSE
