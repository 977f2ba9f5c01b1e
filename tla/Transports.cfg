SPECIFICATION Spec
CONSTANTS
  Group = 1
  Bits64 = 5
  Packets <- MCPackets
  MaxSent = 3
  WsCap = 1
  MaxItems = 2
  WireCap = 4
  SqCap = 1
  EventCap = 1
INVARIANT EndsAreHonest
PROPERTIES ImplementsChannel PacketsArrive HttpImplementsContract DroppedCallsStop OutcomesArrive
CHECK_DEADLOCK FALSE
