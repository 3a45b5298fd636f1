CONSTANTS
  Cent = 1
  s1 = s1
  s2 = s2
  c1 = c1
  c2 = c2
  Store = {s1, s2}
  Ext <- Receipts
  Client = {c1, c2}
  Phone = {"phone"}
  StoreOf <- TwoStores
  PhoneOf <- SharedPhone
  Requests <- InviteRequests
  Rules <- PlainRules
  DailyLimit = 0
  Window = 1
  None = None
  Proc = {p1, p2, p3}
  MaxRules = 0
  MaxTime = 0
SPECIFICATION FairSpec
PROPERTIES
  EveryRequestAnswered
