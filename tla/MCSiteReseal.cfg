SPECIFICATION SiteSpec
CONSTANTS
  b1 = b1
  b2 = b2
  d1 = d1
  d2 = d2
  None = None
  Buses = {b1, b2}
  Doors = {d1, d2}
  BusOf <- TwoWired
  AddressOf <- BothFirst
  Sealers = {s1}
  Openers = {o1}
PROPERTY UnlockRespectsLockdown
