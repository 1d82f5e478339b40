\* An incident without a description, and a check near it.
SPECIFICATION Spec
CONSTANTS
  Requests = {q1, q2}
  Ids <- TwoIds
  Titles <- SomeTitles
  Descriptions <- SomeDescriptions
  Users <- SomeUsers
  Points <- AllPoints
  Radii <- AllRadii
  Creates <- GoodCreates
  Updates <- AllUpdates
  Checks <- GoodChecks
  RequestIds <- GoodIds
  Pages <- AnyPages
  Unstorable <- WithNul
  StatsWindow = 60
  MaxLat = 1
  MaxLon = 2
  MaxLimit = 8
  MaxInt4 = 2
  MaxFaults = 0
INVARIANTS
  ChecksSucceed
