\* CLAIM_SQL as it stands: deliver_by is not selected by picked.
SPECIFICATION FairSpec
CONSTANTS
  Dests = {d1}
  Copies = {c1, c2}
  Workers = {w1}
  Sweepers = {}
  Tokens = {t1, t2, t3}
  Null = Null
  DestOf <- OneDestination
  Corrections = {}
  Deadlined = {}
  Pausable = {}
  FailureThreshold = 2
  MaxDeliveryAttempts = 2
  MaxRequeueCycles = 1
  PickedHasDeliverBy = FALSE
  MaxOperatorCalls = 0
  MaxFaults = 0
CHECK_DEADLOCK FALSE
PROPERTIES
  QueueDrains
