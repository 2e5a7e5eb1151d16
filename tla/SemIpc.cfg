SPECIFICATION Spec
CONSTANTS
  Thread = {t1, t2}
  SigThread = {main}
  Kinds <- MixedKinds
  MaxCalls = 2
  MaxReady = 1
  MaxStale = 1
  MaxAlarms = 1
SYMMETRY Symmetry
INVARIANTS TypeOK OneOwner OwnAnswer ExactlyOnce ChangesOnce NoLostWakeup TokensBounded
PROPERTIES Service
