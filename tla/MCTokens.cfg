SPECIFICATION Spec
CONSTANTS
  LookBy <- CurrentTokenBy
  KindSequences <- PairsOfKinds
  Sources <- ReadSources
  SessionOptions <- TokenOptions
INVARIANTS
  LookingAgainChangesNothing
  PlaceIsKept
  IssuesArePlaced
  TokenAsserts
  CrossingsAreMarked
  TokensStandAlone
  ContinuationsAreTransparent
  ReadAsSpelled
