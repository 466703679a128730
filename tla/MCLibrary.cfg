SPECIFICATION Spec
CONSTANTS
  LookBy <- CurrentTokenBy
  Calls <- LibraryCalls
  MaxCalls = 3
INVARIANTS
  SourceOutlivesNodes
  NoDanglingIssues
  OnlyLostCopiesLeft
  CallsAreIndependent
PROPERTIES
  ImplementsLifecycle
  EveryCallReturns
