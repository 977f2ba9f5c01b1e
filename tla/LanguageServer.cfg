CONSTANTS
  Uris = {u}
  Texts <- SomeTexts
  Edited <- EditedOnes
  Typed <- TypedOnes
  NewName = "Fresh"
  MaxSent = 3
  MaxAsked = 1
SPECIFICATION Spec
INVARIANTS
  DiagnosticsSettle
  AnswersAreExact
  EditsAreAccepted
  KeysAreComparable
  DerivesAreExact
PROPERTY RequestsAreAnswered
CHECK_DEADLOCK FALSE
