\* A rebuild meets a record of a new row.
SPECIFICATION Spec
CONSTANTS
  a = a  b = b  c = c  p = p  q = q  i1 = i1  i2 = i2
  Record = {a, b}
  Bucket = {p, q}
  BucketOf <- MCPairOf
  Absent = Absent
  Ingester = {i1}
  NumDays = 1
  DayOf <- MCOneDay
  Loops = {"today"}
  DeepDays = 1
  Codex = {}
  Miscounted = {}
  MaxFaults = 1
PROPERTY NextPassCorrects
