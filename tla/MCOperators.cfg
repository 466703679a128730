SPECIFICATION Spec
CONSTANTS
  Inputs <- OneOperatorInputs
  prefixParselets <- PrefixTable
  infixParselets <- InfixTable
  USE_MUSTTAIL = FALSE
  AbortAllowed = FALSE
INVARIANTS
  PrecedenceRespected
  AssertsHold
  WellFormed
  GroupsMatchContexts
  ContextsNest
  IdentityReturnsToOwner
  LinesDelimit
