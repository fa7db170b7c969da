SPECIFICATION FairDelaySpec
CONSTANTS
  Nodes = {n1}
  Calls = {c1, c2}
  Lag = 1
  MaxRequests = 2
  MaxTroubles = 1
INVARIANTS
  DelayTypeOK
PROPERTIES
  AdoptedDelayIsNotResumed
  NodesConverge
CHECK_DEADLOCK FALSE
