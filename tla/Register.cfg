SPECIFICATION Spec
CONSTANTS
  sale1 = sale1
  sale2 = sale2
  back1 = back1
  Sale = {sale1, sale2}
  Refund = {back1}
  Original <- RefundOf
  Command = {c1}
  None = None
  Attempts = 2
  Limit = 2
  MaxFaults = 4
INVARIANTS NothingIsLost NothingOvertakes RefundsFindTheirSale
