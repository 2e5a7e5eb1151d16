SPECIFICATION Spec
CONSTANTS
  Proc = {p1, p2, p3}
  Ctx = {c1, c2}
  Thread = {t1, t2, t3}
  Desc = {d1}
  Thread0 = Thread0
  None = None
  MaxCalls = 2
  MaxKills = 1
  MaxNoMem = 2
INVARIANTS ChildInherits OwnThread NoThreadLeak
SYMMETRY Symmetry
CHECK_DEADLOCK FALSE
