CONSTANTS
  NbQueues = 2
  Mbuf = {m1, m2}
  Burst = 2
  RingSize = 1
  MaxSegs = 2
  MaxFrames = 1
  MaxStops = 1
SPECIFICATION FairSpec
PROPERTIES RingServed BatchLeaves
