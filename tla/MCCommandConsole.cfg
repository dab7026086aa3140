SPECIFICATION FairSpec
CONSTANTS
  Commands = {c1, c2}
  None = None
INVARIANTS
  OutcomeWasRuled
  WaitsForTheRightCommand
PROPERTIES
  ShownBySending
  WaitingEnds
