SPECIFICATION FairSpec
CONSTANTS
  Inputs <- AbortInputs
  prefixParselets <- PrefixTable
  infixParselets <- InfixTable
  USE_MUSTTAIL = FALSE
  AbortAllowed = TRUE
INVARIANTS
  TypeOK
  Quiescent
PROPERTIES
  ImplementsMusttail
  AbortOnlyUnwinds
  Terminates
