SPECIFICATION Spec
CONSTANTS
  Inputs <- ManyPartInputs
  prefixParselets <- PrefixTable
  infixParselets <- InfixTable
  USE_MUSTTAIL = FALSE
  AbortAllowed = FALSE
INVARIANTS
  WellFormed
  ContinuationAsserts
  AssertsHold
  StackDiscipline
  EndOfFileNotTaken
  Lossless
