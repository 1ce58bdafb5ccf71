SPECIFICATION Spec
CONSTANTS
  Events = {n1, n2}
  Subscriptions = {b1}
  Couriers = {k1, k2}
  BatchLimit = 2
  MaxTries = 2
  MaxCrashes = 1
  Callers = {x1, x2, x3}
  Threshold = 2
  Outages = 2
CHECK_DEADLOCK FALSE
INVARIANTS
  OneCourierPerDelivery
  SentWasTaken
PROPERTIES
  EveryDeliveryEnds
  BreakerLetsGo
