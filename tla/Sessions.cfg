SPECIFICATION Spec
CONSTANTS
  Account = {a1}
  MaxTokens = 4
  Call = {c1, c2, c3}
  None = None
  MaxFaults = 2
SYMMETRY Symmetry
CHECK_DEADLOCK FALSE
INVARIANTS TypeOK OneLivePerFamily BlockedGetNoTokens
PROPERTIES RevocationIsFinal
