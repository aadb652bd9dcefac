SPECIFICATION FairSpec
CONSTANTS
  r1 = r1
  r2 = r2
  a1 = a1
  Null = Null
  Requests = {r1, r2}
  Keys = {"k1", "k2"}
  Payloads = {"one", "text"}
  Pushes <- MCPushes
  Filters = {"ones"}
  Matches <- MCMatches
  Dests = {1, 2}
  Shadow = {2}
  Chains <- MCChains
  Admins = {a1}
  AckThreshold = 2
  MaxOperatorCalls = 1
  MaxFaults = 1
INVARIANTS QuorumWithinCopies FanOutsAreSerial ConditionLaws
PROPERTIES PublishesAtomically OnlyConfirmedAreServed RequestsEnd
\* Requests end; nothing need happen after the last.
CHECK_DEADLOCK FALSE
