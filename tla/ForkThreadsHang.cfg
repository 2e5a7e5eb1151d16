SPECIFICATION FairSpec
CONSTANTS
  Proc = {p1, p2}
  Ctx = {c1, c2}
  Thread = {t1, t2}
  Desc = {d1}
  Thread0 = Thread0
  None = None
  MaxCalls = 0
  MaxKills = 0
  MaxNoMem = 0
PROPERTIES ForkReturns
CHECK_DEADLOCK FALSE
