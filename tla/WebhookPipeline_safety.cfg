\* One relay, two workers, two faults of any kind but the re-sent SETNX.
SPECIFICATION Spec
CONSTANTS
  Rows <- TwoRows
  Relays = {r1}
  Workers = {w1, w2}
  BatchSize = 2
  MaxAttempts = 2
  RedisRetries = 1
  FaultKinds <- RecordedFaults
  MaxFaults = 2
INVARIANTS
  DispatchedIsTraceable
  UndeliveredStaysPending
PROPERTIES
  AtMostOnceDelivery
