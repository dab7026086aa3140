SPECIFICATION FairSpec
CONSTANT MaxRuns = 3
INVARIANTS
  OnlyTheCurrentRun
  ButtonIsHonest
PROPERTY ConnectingEnds
\* The tile is unmounted in the end.
CHECK_DEADLOCK FALSE
