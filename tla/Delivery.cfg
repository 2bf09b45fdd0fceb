\* Two transcripts sharing a record, batches of one, everything may fail twice.
SPECIFICATION Spec
CONSTANTS
  u1 = u1  u2 = u2  e1 = e1  e2 = e2
  NumFiles = 2
  MaxLines = 2
  Reparse = {2}
  Usage = {u1, u2}
  Edit = {e1}
  NoRecord = NoRecord
  Line <- MCLine
  NumSlots = 2
  MaxFaults = 2
  BatchSize = 1
  HasBuffer = TRUE
  Once = FALSE
INVARIANTS TypeOK CheckpointCovered CountedOnce
PROPERTY LedgerHolds
