SPECIFICATION Spec
CONSTANTS
  LookBy <- CurrentTokenBy
  KindSequences <- NoKinds
  Sources <- ContinuedBaseSources
  SessionOptions <- TokenOptions
INVARIANTS
  ContinuedBases
