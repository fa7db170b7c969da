SPECIFICATION Spec
CONSTANTS
  s1 = s1
  s2 = s2
  slow = slow
  fast = fast
  Order <- MCOrder
  Contents <- MCContents
  StepTime <- MCStepTime
  None = None
  o1 = o1
  o2 = o2
  Ops <- MCOps
  MaxOps = 2
  MaxFaults = 1
  MaxRestarts = 1
SYMMETRY SameOps
INVARIANTS
  TypeOK
  DiskNamesWhatIsDrawn
  BlackoutHolds
  ReservationHasAnOwner
CHECK_DEADLOCK FALSE
