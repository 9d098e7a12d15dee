SPECIFICATION Spec
CONSTANTS
  g1 = g1
  g2 = g2
  g3 = g3
  g4 = g4
  Stations <- StationsUsed
  Groups = {g1, g2, g3, g4}
  Hash <- HashUsed
  Bits = {"x", "y"}
  ParCnt = 2
  MarCnt = 2
  Chips = {TRUE, FALSE}
  MaxRefs <- RefsUsed
  MaxMisled = 1
INVARIANTS FilterAgrees StationHeard SubscribersHeard
