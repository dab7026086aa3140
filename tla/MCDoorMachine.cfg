SPECIFICATION FairSpec
CONSTANTS
  RequiresFirstPerson = TRUE
  UnlockSeconds = 1
  GrantSeconds = {0, 2}
  ShuntSeconds = 2
  HeldOpenSeconds = 2
INVARIANTS
  Sealed
  StrikeHasAReason
  FreeAccessEarned
  AlarmsAreAboutAnOpenDoor
PROPERTIES
  MovesAreReported
  StrikeDrops
  HeldOpenIsNoticed
