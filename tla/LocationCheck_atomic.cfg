\* Three checks around two incidents, over two connections that two faults can leak.
SPECIFICATION FairSpec
CONSTANTS
  Requests = {c1, c2, c3}
  Incidents = {i1, i2}
  Limit = 2
  MaxOpenConns = 2
  FaultKinds <- AllFaults
  MaxFaults = 2
INVARIANTS
  TypeOK
  EventsMatchChecks
  OkIsRecorded
PROPERTIES
  ChecksAreWhole
  EveryRequestAnswered
