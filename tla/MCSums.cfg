SPECIFICATION Spec
CONSTANTS
  Inputs <- SumInputs
  prefixParselets <- PrefixTable
  infixParselets <- InfixTable
  USE_MUSTTAIL = FALSE
  AbortAllowed = FALSE
INVARIANTS
  FlatInfix
