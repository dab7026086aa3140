SPECIFICATION BusSpec
CONSTANTS
  Badges = {1}
  Requests = {r1}
  MaxFaults = 3
  MaxLate = 1
  Nothing = Nothing
  Configs <- OnlyRequired
  OfflineAfter = 3
  SupervisionSlots = 6
  RetrySlots = {1, 2}
  MinPollsPerStatus = 1
INVARIANT EachBadgeServedOnce
PROPERTY CredentialOnlySecure
CHECK_DEADLOCK FALSE
