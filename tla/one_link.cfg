SPECIFICATION Spec
CONSTANTS
  Payments = {p1}
  Workers = {w1, w2}
  NoPayment = NoPayment
  DemoPayments = {}
  MaxAttempts = 1
  Surprises = {"cabinet", "rejection", "sum"}
SYMMETRY Symmetry
CHECK_DEADLOCK FALSE
INVARIANTS
  TypeOK
  BooksFollowBank
  OrderIsPaidByMoney
  NothingIsForgotten
PROPERTIES
  ClosingTakesNothingBack
  OnlyForward
  BooksKeepThePromise
