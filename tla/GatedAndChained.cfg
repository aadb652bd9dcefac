SPECIFICATION Spec
CONSTANTS
  r1 = r1
  a1 = a1
  a2 = a2
  Null = Null
  Requests = {r1}
  Keys = {"k1", "k2"}
  Payloads = {"one", "text"}
  Pushes <- MCPushes
  Filters = {"ones"}
  Matches <- MCMatches
  Dests = {1, 2}
  Shadow = {2}
  Chains <- MCChains
  Admins = {a1, a2}
  AckThreshold = 2
  MaxOperatorCalls = 2
  MaxFaults = 0
INVARIANT NeverGatedAndChained
CHECK_DEADLOCK FALSE
