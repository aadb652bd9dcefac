\* A copy with a deliver_by, two threads that may lose it to one another, and a
\* second destination that is paused or moves beside it; fair workers.
SPECIFICATION FairSpec
CONSTANTS
  Dests = {d1, d2}
  Copies = {c1}
  Workers = {w1, w2}
  Sweepers = {s1}
  Tokens = {t1, t2, t3}
  Null = Null
  DestOf <- OneDestination
  Corrections = {}
  Deadlined = {c1}
  Pausable = {d1, d2}
  FailureThreshold = 1
  MaxDeliveryAttempts = 2
  MaxRequeueCycles = 1
  PickedHasDeliverBy = TRUE
  MaxOperatorCalls = 1
  MaxFaults = 1
PROPERTIES
  OnlyOwnerConcludes
  NoAttemptAfterCutoff
  QueueDrains
