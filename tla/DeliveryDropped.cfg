\* The server refuses a kind of records, once.
SPECIFICATION Spec
CONSTANTS
  u1 = u1  u2 = u2  e1 = e1  e2 = e2
  NumFiles = 1
  MaxLines = 2
  Reparse = {}
  Usage = {u1}
  Edit = {e1}
  NoRecord = NoRecord
  Line <- MCMixedLine
  NumSlots = 2
  MaxFaults = 1
  BatchSize = 1
  HasBuffer = TRUE
  Once = FALSE
INVARIANT SpooledIsSafe
