\* Two workers in one group, every kind of fault; rows are in the stream more than once.
SPECIFICATION FairSpec
CONSTANTS
  Rows = {o1, o2}
  Workers = {w1, w2}
  RedisRetries = 1
  FaultKinds <- AllFaults
  MaxFaults = 3
  MaxStream = 3
INVARIANTS
  TypeOK
  AtMostOncePerKey
  OneSenderPerRow
  VanishedNeedFaults
PROPERTIES
  EveryEntryHandled
