SPECIFICATION FairSpec
CONSTANTS
  c1 = c1
  c2 = c2
  lock = lock
  fan = fan
  None = None
  Commands = {c1, c2}
  Keys = {lock, fan}
  Values = {0, 1}
  Asks <- EveryPair
  MaxCrashes = 1
  MaxArrivals = 2
INVARIANTS
  SentOnceAtMost
  DesiredWasSent
PROPERTIES
  ConfirmedByTheDevice
  LogHolds
