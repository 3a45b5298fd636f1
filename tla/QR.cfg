SPECIFICATION Spec
CONSTANTS
  Account = {a1}
  Store = {s1}
  Customer = {c1, c2}
  Till = {k1, k2, k3}
  Principal = {p1, p2}
  Nobody = Nobody
  MaxTokens = 2
  TTL = 3
  IssueCooldown = 1
  ConsumeCooldown = 1
  ClaimTTL = 2
  RequestTimeout = 1
  Repeats = {"set token", "claim", "release", "finalize"}
  MaxFaults = 2
SYMMETRY Symmetry
INVARIANTS TypeOK OnlyRepeatsTakeClaims OnlyRepeatsReuseCodes AnswersAreLinked
