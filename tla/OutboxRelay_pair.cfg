\* Two API processes against one database and one stream, two faults.
SPECIFICATION Spec
CONSTANTS
  Rows <- TwoRows
  Relays = {r1, r2}
  BatchSize = 2
  MaxAttempts = 2
  RedisRetries = 1
  FaultKinds <- AllFaults
  MaxFaults = 2
SYMMETRY RelaySymmetry
INVARIANTS
  TypeOK
  DispatchedIsPublished
  DistinctAttempts
  CopiesBounded
  DuplicatesNeedFaultOrRace
PROPERTIES
  ClaimsAreCounted
  UndoingTakesRaceAndFault
