\* One process, and one failed POST.
SPECIFICATION FairSpec
CONSTANTS
  Rows <- OneRow
  Relays = {r1}
  Workers = {w1}
  BatchSize = 2
  MaxAttempts = 2
  RedisRetries = 1
  FaultKinds <- TargetFaults
  MaxFaults = 1
PROPERTIES
  EventuallyDelivered
