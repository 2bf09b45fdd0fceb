\* A rate that is confirmed on the first day and changes on the second.
SPECIFICATION Spec
CONSTANTS
  NumPrefixes = 2
  NumNames = 4
  PrefixOf <- MCPrefixOf
  Vendor <- MCVendor
  Rate <- MCRate
  Unlisted = Unlisted
  Default <- MCDefault
  DayLength = 2
  MaxTime = 5
  MaxChanges = 2
  MaxFaults = 0
PROPERTY KnownDaysKeepTheirPrice
CHECK_DEADLOCK FALSE
