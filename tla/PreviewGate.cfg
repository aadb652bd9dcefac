\* One gated event with a deliver_by; two threads and two rival answers.
SPECIFICATION FairSpec
CONSTANTS
  Gates = {1}
  Deadlined = {1}
  Workers = {w1, w2}
  Requests = {r1, r2}
  Null = Null
  MaxDeliveryAttempts = 2
  MaxOperatorCalls = 1
  MaxFaults = 1
INVARIANTS
  BodyOnlyAfterNod
  AnswerMatchesGate
  HeldHasAWayOut
PROPERTIES
  ActsAsConsentGate
  HeldEnds
