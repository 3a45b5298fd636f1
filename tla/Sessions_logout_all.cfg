SPECIFICATION Spec
CONSTANTS
  Account = {a1}
  MaxTokens = 4
  Call = {c1, c2, c3}
  None = None
  MaxFaults = 1
CHECK_DEADLOCK FALSE
SYMMETRY Symmetry
INVARIANTS RevokeAllLeavesNone
