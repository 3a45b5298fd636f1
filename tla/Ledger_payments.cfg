CONSTANTS
  Cent = 1
  s1 = s1
  s2 = s2
  c1 = c1
  c2 = c2
  Store = {s1}
  Ext <- Receipts
  Client = {c1}
  Phone = {c1}
  StoreOf <- AllInS1
  PhoneOf <- OwnPhone
  Requests <- PaymentRequests
  Rules <- BothRules
  DailyLimit = 0
  Window = 1
  None = None
  Proc = {p1, p2, p3}
  MaxRules = 2
  MaxTime = 0
SYMMETRY Symmetry
SPECIFICATION Spec
INVARIANTS
  TypeOK
  AccountsBalance
  RedeemsWithinRules
  DebtComesFromRefund
  NotifiedIffPosted
  AnswersAreRecorded
  CommitsAreCurrent
PROPERTIES
  ImplementsAtomicLedger
