\* Four turns of at most two tokens of a kind with two restarts; one call with
\* any output of at most two exit codes, or two calls that end with a word; or
\* prices for two and a half days, with three changes of the list and one
\* fault. The clock stops at the bound, and no sync begins without it moving.
SPECIFICATION AccountingSpec
CONSTANTS
  MaxTokens = 2
  MaxRestarts = 2
  MaxTurns = 4
  c1 = c1  c2 = c2
  Call = {c1, c2}
  Patches <- MCPatches
  MaxCodes = 2
  NumPrefixes = 2
  NumNames = 4
  PrefixOf <- MCPrefixOf
  Vendor <- MCVendor
  Rate <- MCRate
  Unlisted = Unlisted
  Default <- MCDefault
  DayLength = 2
  MaxTime = 5
  MaxChanges = 3
  MaxFaults = 1
INVARIANTS TokenTypeOK AddsUp NeverTooMuch
INVARIANTS PatchTypeOK EventsStable EditsAreChanges NothingMissing
INVARIANTS TypeOK EveryDayPriced HistoryIsChange
PROPERTIES PastDaysKeepTheirPrice
SYMMETRY Symmetry
CHECK_DEADLOCK FALSE
