SPECIFICATION Spec
CONSTANTS
  m1 = m1  p1 = p1
  Message = {m1}
  Part = {p1}
  Ties = FALSE
  MaxTime = 3
  MaxRebuilds = 0
  MaxFaults = 0
INVARIANT CoherentWatermark
