\* Two rows, two relays whose clocks may be a second late; two seconds
\* squared are cut, and cubed they overflow.
SPECIFICATION Spec
CONSTANTS
  Rows = {1, 2}
  Relays = {r1, r2}
  BatchSize = 2
  MaxAttempts = 3
  Second = 3
  Longest = 3
  Range64 = 32
  Skew = 1
  MaxLost = 1
  MaxSeconds = 4
SYMMETRY RelaySymmetry
INVARIANTS
  WaitIsOwed
  AttemptsTakeTime
