SPECIFICATION Spec
CONSTANTS
  Inputs <- CompoundInputs
  prefixParselets <- PrefixTable
  infixParselets <- InfixTable
  USE_MUSTTAIL = FALSE
  AbortAllowed = FALSE
INVARIANTS
  CompoundExpressionStaysOnLine
