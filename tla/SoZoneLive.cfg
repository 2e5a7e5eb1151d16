SPECIFICATION FairSpec
CONSTANTS
  Proc = {p1, p2, p3}
  Count = 2
  MaxKills = 0
PROPERTIES LockOpens
