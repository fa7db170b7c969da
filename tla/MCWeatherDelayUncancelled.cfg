SPECIFICATION DelaySpec
CONSTANTS
  Nodes = {n1}
  Calls = {c1, c2}
  Lag = 1
  MaxRequests = 2
  MaxTroubles = 0
PROPERTIES NightStaysCancelled
CHECK_DEADLOCK FALSE
