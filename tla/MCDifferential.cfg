SPECIFICATION Spec
CONSTANTS
  Inputs <- DifferentialInputs
  prefixParselets <- PrefixTable
  infixParselets <- InfixTable
  USE_MUSTTAIL = FALSE
  AbortAllowed = FALSE
INVARIANTS
  DifferentialEndsIntegrand
