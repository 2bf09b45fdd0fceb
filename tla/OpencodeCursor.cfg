\* A message, a part, two milliseconds, one rebuild and one fault.
SPECIFICATION FairSpec
CONSTANTS
  m1 = m1  p1 = p1
  Message = {m1}
  Part = {p1}
  Ties = TRUE
  MaxTime = 2
  MaxRebuilds = 1
  MaxFaults = 1
INVARIANTS TypeOK OnlyLateRows
PROPERTY EverythingRead
