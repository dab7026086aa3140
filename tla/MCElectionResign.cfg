SPECIFICATION FairSpec
CONSTANTS
  Instances = {i1, i2, i3}
  None = None
  LeaseTTL = 3
  MaxFaults = 3
INVARIANT NeverTwo
