SPECIFICATION FairSpec
CONSTANTS
  Inputs <- AbortInputs
  prefixParselets <- PrefixTable
  infixParselets <- InfixTable
  USE_MUSTTAIL = TRUE
  AbortAllowed = TRUE
INVARIANTS
  Quiescent
  StackDiscipline
PROPERTIES
  Terminates
