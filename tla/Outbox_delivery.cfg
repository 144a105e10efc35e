SPECIFICATION FairSpec
CONSTANTS
  p1 = p1  p2 = p2  c1 = c1  c2 = c2
  Events = {1, 2}
  Routable = {2}
  Publishers = {p1, p2}
  Consumers = {c1, c2}
  Limit = 2
  MaxAttempts = 2
  MaxCopies = 1
  MaxFailures = 2
  MaxCrashes = 1
CHECK_DEADLOCK FALSE
INVARIANTS
  NothingLost
PROPERTIES
  ImplementsDelivery
  OutboxDrains
  ImplementsLiveDelivery
