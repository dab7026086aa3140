SPECIFICATION BusFairSpec
CONSTANTS
  Badges = {1}
  Requests = {r1}
  MaxFaults = 4
  MaxLate = 0
  Nothing = Nothing
  Configs <- OnlyRequired
  OfflineAfter = 3
  SupervisionSlots = 6
  RetrySlots = {1, 2}
  MinPollsPerStatus = 1
PROPERTY ReaderAlwaysRecovers
