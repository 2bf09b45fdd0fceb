\* Liveness: one transcript with a usage record and an edit; two users with a
\* key and a watcher each.
SPECIFICATION LiveSpec
CONSTANTS
  u1 = u1  u2 = u2  e1 = e1  e2 = e2
  NumFiles = 1
  MaxLines = 2
  Reparse = {}
  Usage = {u1}
  Edit = {e1}
  NoRecord = NoRecord
  Line <- MCMixedLine
  NumSlots = 2
  MaxFaults = 2
  BatchSize = 1
  HasBuffer = TRUE
  Once = FALSE
  k1 = k1  k2 = k2  x = x  y = y  w1 = w1  w2 = w2  p1 = p1  p2 = p2  r = r  e = e
  Person = {p1, p2}
  APIKey = {k1, k2}
  PrefixOf <- MCPrefixOf
  MintedFor <- MCMintedFor
  FirstKey <- MCFirstKey
  UsageKey = {r}
  EditKey = {e}
  Client = {w1, w2}
  Batches <- MCBatches
  MaxHitches = 2
  Nobody = Nobody
INVARIANTS AccessTypeOK CountedForOwner AnswersTrue
PROPERTIES Delivered SpoolDrains RotationLosesNothing
