SPECIFICATION Spec
CONSTANTS
  Phone = {p1, p2}
  IP = {i1}
  Request = {r1, r2, r3}
  Verify = {}
  Nobody = Nobody
  RequestTimeout = 1
  ResendCooldown = 2
  CodeTTL = 3
  RateLimitWindow = 3
  MaxAttempts = 2
  MaxRequestsPerPhone = 1
  MaxRequestsPerIP = 1
  MaxWindows = 2
  MaxFaults = 2
SYMMETRY Symmetry
INVARIANTS OnlyRepeatsLetIn TextsBounded
