SPECIFICATION Spec
CONSTANTS
  Account = {a1}
  Store = {s1}
  Customer = {c1}
  Till = {k1, k2, k3}
  Principal = {p1, p2}
  Nobody = Nobody
  MaxTokens = 1
  TTL = 3
  IssueCooldown = 1
  ConsumeCooldown = 1
  ClaimTTL = 2
  RequestTimeout = 1
  Repeats = {"release"}
  MaxFaults = 2
SYMMETRY Symmetry
INVARIANTS ResolvedOnce
