SPECIFICATION BusFairSpec
CONSTANTS
  Badges = {1}
  Requests = {r1}
  MaxFaults = 2
  MaxLate = 0
  Nothing = Nothing
  Configs <- EveryConfig
  OfflineAfter = 2
  SupervisionSlots = 6
  RetrySlots = {1, 2}
  MinPollsPerStatus = 1
PROPERTIES
  ReaderRecovers
  BadgesAreCollected
