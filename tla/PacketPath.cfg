CONSTANTS
  NbQueues = 2
  Mbuf = {m1, m2, m3}
  Burst = 2
  RingSize = 1
  MaxSegs = 1
  MaxFrames = 2
  MaxStops = 1
SPECIFICATION Spec
SYMMETRY MbufSymmetry
INVARIANTS Conserved DeliveredOnce TablesHold
