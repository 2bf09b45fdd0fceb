\* Two handlers, both loops, three records in two daily rows of two days, one
\* fault; two users, two ranges, two loads at once, two choices and one miss.
SPECIFICATION ServerFairSpec
CONSTANTS
  a = a  b = b  c = c  p = p  q = q  i1 = i1  i2 = i2
  Record = {a, b, c}
  Bucket = {p, q}
  BucketOf <- MCBucketOf
  Absent = Absent
  Ingester = {i1, i2}
  NumDays = 2
  DayOf <- MCTwoDays
  Loops = {"today", "deep"}
  DeepDays = 2
  Codex = {a, c}
  Miscounted = {a, c}
  MaxFaults = 1
  u1 = u1  u2 = u2  d1 = d1  d2 = d2  clock = clock
  User = {u1, u2}
  Everybody = Everybody
  RangeOption = {d1, d2}
  FirstRange = d2
  HasUsage <- MCHasUsage
  Cards = {clock}
  MaxLoads = 2
  MaxClicks = 2
  MaxMisses = 1
  Nothing = Nothing
INVARIANTS TypeOK DailyIsDetail PageTypeOK
PROPERTIES TotalsHold Corrected PageSettles BoxIsFilter
