\* One call with any output of at most two exit codes, or two calls that end
\* with a word. A script whose patch fails and whose last command succeeds is
\* recorded as an edit.
SPECIFICATION MCPatchSpec
CONSTANTS
  c1 = c1  c2 = c2
  Call = {c1, c2}
  Patches <- MCPatches
  MaxCodes = 2
INVARIANTS EditsAreConfirmed
SYMMETRY Symmetry
CHECK_DEADLOCK FALSE
