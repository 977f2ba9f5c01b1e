SPECIFICATION Spec
CONSTANTS
  Group = 2
  Bits16 = 4
  Bits32 = 7
  Bits64 = 11
  Trailer <- MCTrailer
  Few = TRUE
  Cases <- MCCases
  Root <- MCRoot
INVARIANT UnknownFieldsAreSkipped
CHECK_DEADLOCK FALSE
