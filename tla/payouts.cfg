SPECIFICATION Spec
CONSTANTS
  TBank = {t1}
  Cdek = {c1}
  Invoices = {i1}
  NoPayment = NoPayment
  Requests = {r1, r2}
SYMMETRY Symmetry
CHECK_DEADLOCK FALSE
INVARIANT DocumentsAreApproved
INVARIANT PaidOrderHasPayout
PROPERTY PayoutsKeepThePromise
