\* An event for two destinations, and a correction of it.
\* The copies come to rest once the bounded operator calls are used.
CHECK_DEADLOCK FALSE
SPECIFICATION FairSpec
CONSTANTS
  Events = {1, 2}
  Ordinary = {1}
  Scheduled = {}
  Deadlined = {}
  Dests = {d1, d2}
  Thresholds = {1}
  Calls = {r1}
  Sweepers = {s1}
  Null = Null
  MaxDeliveryAttempts = 2
  MaxRequeueCycles = 1
  MaxOperatorCalls = 2
INVARIANTS
  NothingToPullOnceAcknowledged
PROPERTIES
  AcknowledgedForGood
  CancelledForGood
  EventsSettle
