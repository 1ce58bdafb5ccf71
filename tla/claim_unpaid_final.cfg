SPECIFICATION Spec
CONSTANTS
  Payments = {p1}
  Workers = {w1, w2}
  NoPayment = NoPayment
  DemoPayments = {}
  MaxAttempts = 0
  Surprises = {"cabinet", "rejection", "sum"}
CHECK_DEADLOCK FALSE
INVARIANT UnpaidFinalHasNoMoney
