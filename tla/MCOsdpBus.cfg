SPECIFICATION BusFairSpec
CONSTANTS
  Badges = {}
  Requests = {r1, r2}
  MaxFaults = 2
  MaxLate = 0
  Nothing = Nothing
  Configs <- EveryConfig
  OfflineAfter = 2
  SupervisionSlots = 6
  RetrySlots = {1, 2}
  MinPollsPerStatus = 1
INVARIANTS
  BusTypeOK
  StrikesAtMostOnce
  ToldTheTruth
PROPERTIES
  KeepsItsCalls
  SealedSendIsHonest
  SendsAnswered
