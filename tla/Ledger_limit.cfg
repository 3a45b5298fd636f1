CONSTANTS
  Cent = 1
  s1 = s1
  s2 = s2
  c1 = c1
  c2 = c2
  Store = {s1}
  Ext <- Receipts
  Client = {c1}
  Phone = {c1}
  StoreOf <- AllInS1
  PhoneOf <- OwnPhone
  Requests <- LimitRequests
  Rules <- OpenRules
  DailyLimit = 3
  Window = 2
  None = None
  Proc = {p1, p2, p3}
  MaxRules = 1
  MaxTime = 3
SYMMETRY Symmetry
SPECIFICATION Spec
INVARIANTS
  DailyLimitHolds
