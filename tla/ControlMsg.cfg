SPECIFICATION FairSpec
CONSTANTS
  Proc = {p1}
  Msg = {m1, m2, m3}
  Type <- TwoTypes
  RingSize = 2
  None = None
  MaxCalls = 4
  MaxKills = 1
INVARIANTS OneHolder Accounted OwnAnswer CaughtUp OwnBuffer
PROPERTIES ToolReturns
CHECK_DEADLOCK FALSE
