SPECIFICATION FPSpec
CONSTANTS
  RequiresFirstPerson = TRUE
  UnlockSeconds = 1
  GrantSeconds = {0, 2}
  ShuntSeconds = 2
  HeldOpenSeconds = 2
  FreshSeconds = 4
PROPERTY ScheduleNeedsAFreshArrival
