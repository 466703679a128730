SPECIFICATION Spec
CONSTANTS
  LookBy <- CurrentTokenBy
  Calls <- SlotCalls
  MaxCalls = 1
INVARIANTS
  NotAShebangIsKept
