CONSTANTS
    MaxCalls  = 2
    MaxItems  = 0
    StreamCap = 1
SPECIFICATION FairSpec
INVARIANTS
    AnswersAreKept
    CallsAreForgotten
PROPERTY ContextEndsCalls
CHECK_DEADLOCK FALSE
