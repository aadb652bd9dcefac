\* Two receipts race two sweeps over one copy and one legacy copy.
SPECIFICATION FairSpec
CONSTANTS
  Copies = {c1, c2}
  Legacy = {c2}
  Requests = {r1, r2}
  Sweepers = {s1, s2}
  Null = Null
  MaxRequeueCycles = 1
  MaxOperatorCalls = 1
  MaxFaults = 1
INVARIANTS
  AppliedOnce
  AcknowledgedIsDelivered
PROPERTIES
  TimedOutIsNotReversed
  AwaitingEnds
