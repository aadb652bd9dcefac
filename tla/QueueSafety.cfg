\* Two threads and a reconciler, two copies of one destination, the second a
\* correction; relocation, requeue and revive.
SPECIFICATION Spec
CONSTANTS
  Dests = {d1}
  Copies = {c1, c2}
  Workers = {w1, w2}
  Sweepers = {s1}
  Tokens = {t1, t2, t3}
  Null = Null
  DestOf <- OneDestination
  Corrections = {c2}
  Deadlined = {}
  Pausable = {}
  FailureThreshold = 1
  MaxDeliveryAttempts = 2
  MaxRequeueCycles = 0
  PickedHasDeliverBy = TRUE
  MaxOperatorCalls = 1
  MaxFaults = 1
SYMMETRY ThreadSymmetry
INVARIANTS
  FreshQueueIsSerial
  OneOwnerPerCopy
  NoOvertaking
  AttemptsLeftInQueue
  ActiveIsBelowThreshold
  CountdownOnlyAfterDelivery
PROPERTIES
  SecondFlightOnlyByOverlap
  ClosedStaysClosed
