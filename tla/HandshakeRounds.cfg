\* Two confirmers, one destination that moves to and fro.
SPECIFICATION FairSpec
CONSTANTS
  Dests = {d1}
  Urls = {u1, u2}
  Confirmers = {t1, t2}
  Challenges = {k1, k2, k3}
  Null = Null
  Wrong = Wrong
INVARIANTS
  ConfirmedAtLocation
  ChallengesStayHome
  RoundIsOpen
PROPERTIES
  ConfirmedInTime
  PendingIsProbed
  RoundsEnd
