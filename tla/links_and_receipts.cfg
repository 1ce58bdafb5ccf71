SPECIFICATION MCSpec
CONSTANTS
  Payments = {p1, p2}
  Workers = {w1, w2}
  NoPayment = NoPayment
  DemoPayments = {}
  MaxAttempts = 1
  Surprises = {"cabinet", "rejection"}
  Senders = {s1}
  MaxTries = 1
  MaxOrders = 0
  Spoilers = {"extra"}
SYMMETRY Symmetry
CHECK_DEADLOCK FALSE
INVARIANTS
  OneLinkToPay
  CountedMoneyIsSeen
  ReturnedMoneyIsReported
PROPERTY ReceiptsKnowTheMoney
