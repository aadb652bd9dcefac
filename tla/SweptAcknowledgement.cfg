\* A receipt commits between the sweep's snapshot and its update.
SPECIFICATION Spec
CONSTANTS
  Copies = {c1}
  Legacy = {}
  Requests = {r1}
  Sweepers = {s1}
  Null = Null
  MaxRequeueCycles = 1
  MaxOperatorCalls = 1
  MaxFaults = 0
PROPERTIES
  AcknowledgedIsFinal
