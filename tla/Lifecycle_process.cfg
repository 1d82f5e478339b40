\* A health request, two outages and two signals, each at any time.
SPECIFICATION FairSpec
CONSTANTS
  Requests = {h1}
  MaxOutages = 2
  MaxSignals = 2
INVARIANTS
  UsersHavePools
  ExitedIsClean
PROPERTIES
  HealthIsHonest
  OrphanStaysUp
  SignalStops
  StartEnds
