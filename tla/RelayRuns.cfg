\* Two events whose chains cross the same two destinations in opposite orders.
SPECIFICATION FairSpec
CONSTANTS
  d1 = d1
  d2 = d2
  e1 = e1
  e2 = e2
  Events = {e1, e2}
  Dests = {d1, d2}
  Chains <- Crossing
  Deadlined = {e1}
  Sweepers = {s1}
  Null = Null
  MaxStations = 2
  MaxDeliveryAttempts = 2
  MaxOperatorCalls = 1
INVARIANTS
  StationOnlyAfterAck
  NothingWaitsBehindAStop
PROPERTIES
  SkippedForGood
  RunsEnd
