SPECIFICATION Spec
CONSTANTS
  Sources <- BytesSources
  SessionOptions <- BytesOptions
INVARIANTS
  EndNeverPassed
  DecodingIsExact
  LocationsIncrease
  UnsafeIsReported
  ReadingAgainChangesNothing
