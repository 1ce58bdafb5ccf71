SPECIFICATION FairSpec
CONSTANTS
  Payments = {p1}
  Workers = {w1}
  NoPayment = NoPayment
  DemoPayments = {}
  MaxAttempts = 2
  Surprises = {"rejection"}
CHECK_DEADLOCK FALSE
INVARIANTS
  OneRefundOrder
  NoMoneyOutOfReach
PROPERTIES
  PaidLinkIsCounted
  EverythingSettles
