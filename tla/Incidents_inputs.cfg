\* Three requests, valid or not, race for two ids.
SPECIFICATION Spec
CONSTANTS
  Requests = {q1, q2, q3}
  Ids <- TwoIds
  Titles <- SomeTitles
  Descriptions <- SomeDescriptions
  Users <- SomeUsers
  Points <- AllPoints
  Radii <- AllRadii
  Creates <- AllCreates
  Updates <- AllUpdates
  Checks <- AllChecks
  RequestIds <- AllIds
  Pages <- AnyPages
  Unstorable <- WithNul
  StatsWindow = 60
  MaxLat = 1
  MaxLon = 2
  MaxLimit = 8
  MaxInt4 = 2
  MaxFaults = 1
SYMMETRY RequestSymmetry
INVARIANTS
  TypeOK
  StoredIsValid
  OneDeactivation
  AnswerTellsTheEffect
PROPERTIES
  UpdatesMerge
  InternalHasACause
