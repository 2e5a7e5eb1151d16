SPECIFICATION FairSpec
CONSTANTS
  Thread = {t1}
  Kinds <- AllKinds
  RingSize = 4
  ObjsMax = 2
  MaxCalls = 2
  MaxTries = 3
  MaxAlarms = 1
INVARIANTS NoRequestLost WithinCapacity OwnAnswer AtMostOnce
PROPERTIES CallsReturn
