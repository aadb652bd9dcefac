\* Two threads and two copies of one destination: what the comment at CLAIM_SQL
\* says, on the snapshot the statement works with.
SPECIFICATION Spec
CONSTANTS
  Dests = {d1}
  Copies = {c1, c2}
  Workers = {w1, w2}
  Sweepers = {s1}
  Tokens = {t1, t2, t3}
  Null = Null
  DestOf <- OneDestination
  Corrections = {}
  Deadlined = {}
  Pausable = {}
  FailureThreshold = 1
  MaxDeliveryAttempts = 2
  MaxRequeueCycles = 0
  PickedHasDeliverBy = TRUE
  MaxOperatorCalls = 1
  MaxFaults = 1
SYMMETRY Symmetry
INVARIANT OneInFlightPerDestination
