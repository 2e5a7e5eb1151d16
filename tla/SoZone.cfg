SPECIFICATION Spec
CONSTANTS
  Proc = {p1, p2, p3}
  Count = 2
  MaxKills = 1
SYMMETRY Symmetry
INVARIANTS FreeIsExact NotFreedWhileHeld RefsMatch Reclaimed ScanReachesAll
