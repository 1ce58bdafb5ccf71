SPECIFICATION Spec
CONSTANTS
  Payments = {p1}
  Senders = {s1}
  MaxAttempts = 1
  MaxOrders = 2
  Surprises = {}
CHECK_DEADLOCK FALSE
INVARIANT DuplicateIsRuledOut
