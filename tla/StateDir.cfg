\* A service and a manual watcher, a cleanup with or without the checkpoint,
\* any two faults. When the checkpoint cannot be read and no cleanup is left,
\* no watcher can start any more.
SPECIFICATION FairSpec
CONSTANTS
  s = s  m = m
  Service = {s}
  Manual = {m}
  MaxLines = 1
  MaxCleanups = 1
  MaxFaults = 2
  Absent = Absent  Empty = Empty  Torn = Torn
INVARIANTS TypeOK Covered SaveIsAtomic
PROPERTY Recovered
CHECK_DEADLOCK FALSE
