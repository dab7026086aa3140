SPECIFICATION FairSpec
CONSTANTS
  Commands = {c1, c2}
  None = None
PROPERTY SpinnerEnds
