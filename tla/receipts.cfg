SPECIFICATION FairSpec
CONSTANTS
  Payments = {p1, p2}
  Senders = {s1}
  MaxAttempts = 2
  MaxOrders = 1
  Surprises = {"late", "extra", "unreadable"}
CHECK_DEADLOCK FALSE
INVARIANT OneReceiptPerOrder
INVARIANT OnePaymentIsClosed
INVARIANT RefusalsAreBounded
INVARIANT SentIsBackedOrTold
INVARIANT RefundIsFlagged
PROPERTY DueIsSettled
