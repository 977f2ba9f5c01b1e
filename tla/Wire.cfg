SPECIFICATION Spec
CONSTANTS
  Group = 2
  Bits16 = 4
  Bits32 = 7
  Bits64 = 11
  Trailer <- MCTrailer
  Few = FALSE
  Cases <- MCCases
  Root <- MCRoot
INVARIANTS ReadsToTheEnd WritersAgree OnlyUnknownVariantsAreRefused
PROPERTIES ArrivesAsDocumented TruncationIsSeen
CHECK_DEADLOCK FALSE
