\* Two lists and two writes at a time, and a fault of any kind.
SPECIFICATION FairSpec
CONSTANTS
  Readers = {l1, l2}
  Writers = {u1, u2}
  FaultKinds <- AllFaults
  MaxFaults = 1
  MaxWrites = 2
INVARIANTS
  TypeOK
  ListIsFresh
  QuietCacheIsCurrent
PROPERTIES
  EventuallyCurrent
