CONSTANTS
  p1 = p1
  p2 = p2
  r1 = r1
  r2 = r2
  r3 = r3
  u1 = u1
  u2 = u2
  Pages <- TwoPages
  Written <- OnePage
  Slots <- TwoSlots
  SlotOf <- EachGuest
  Regions <- ThreeRegions
  Units <- TwoUnits
  None = None
  Guests <- EveryGuest
  MaxVersion = 1
  MaxLeaks = 1
SPECIFICATION Spec
SYMMETRY Interchangeable
CHECK_DEADLOCK FALSE
INVARIANTS
  RefsCounted
  TableIsCurrent
  OneInFlight
  InstalledIsFresh
  StaleIsUnused
