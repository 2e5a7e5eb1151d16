SPECIFICATION FairSpec
CONSTANTS
  Thread = {t1, t2}
  SigThread = {main}
  Kinds <- LiveKinds
  MaxCalls = 2
  MaxReady = 0
  MaxStale = 0
  MaxAlarms = 0
PROPERTIES CallsReturn
