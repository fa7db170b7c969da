SPECIFICATION FairSpec
CONSTANTS
  r1 = r1
  r2 = r2
  Requests <- MCRequests
  Followed = {r1}
  Offered <- MCOffered
  Boot = Boot
  None = None
  QueueCap = 1
  MaxFailures = 2
  MaxCrashes = 2
INVARIANTS
  RunningIsBacked
  OneChild
  RestartsAreBounded
  ExecutedIsConfirmed
PROPERTIES
  CommandIsExecuted
CHECK_DEADLOCK FALSE
