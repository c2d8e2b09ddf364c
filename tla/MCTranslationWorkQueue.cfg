CONSTANTS
  w1 = w1
  w2 = w2
  u1 = u1
  u2 = u2
  u3 = u3
  Workers <- TwoWorkers
  Units <- ThreeUnits
  NoUnit = NoUnit
  NoOne = NoOne
  MaxSpurious = 1
SPECIFICATION FairSpec
CHECK_DEADLOCK FALSE
INVARIANTS
  OneOwner
  NoLostWakeup
  ValidUnitNotLost
  DestroyedIsQuiet
PROPERTIES
  QueueDrains
  DestroyReturns
  ImplementsWorkUnits
