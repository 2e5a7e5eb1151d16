SPECIFICATION FairSpec
CONSTANTS
  NbFFd = 3
  NbHFd = 2
  MaxPairs = 1
  MaxEvents = 2
  Filter <- ReadOnly
  Calls <- AllCalls
  MaxCalls = 5
INVARIANTS NoLeak PairsMatch NoGhostEvent ListensInBoth 
CHECK_DEADLOCK FALSE
PROPERTIES FstackEventsReported
