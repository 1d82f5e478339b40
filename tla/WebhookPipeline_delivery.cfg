\* One process, and only faults the code recovers from; the batch holds one of the two rows.
SPECIFICATION FairSpec
CONSTANTS
  Rows <- TwoRows
  Relays = {r1}
  Workers = {w1}
  BatchSize = 1
  MaxAttempts = 4
  RedisRetries = 1
  FaultKinds <- ToleratedFaults
  MaxFaults = 3
PROPERTIES
  EventuallyDelivered
  EventuallySettled
