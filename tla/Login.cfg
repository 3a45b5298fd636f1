SPECIFICATION Spec
CONSTANTS
  Phone = {p1}
  IP = {i1}
  Request = {r1, r2}
  Verify = {v1, v2}
  Nobody = Nobody
  RequestTimeout = 1
  ResendCooldown = 2
  CodeTTL = 3
  RateLimitWindow = 3
  MaxAttempts = 2
  MaxRequestsPerPhone = 2
  MaxRequestsPerIP = 1
  MaxWindows = 2
  MaxFaults = 2
SYMMETRY Symmetry
INVARIANTS TypeOK OnlyRepeatsLetIn GuessesBounded OneLoginPerCode TextsBounded
