SPECIFICATION Spec
CONSTANTS
  Deliveries = {d1, d2, d3}
  None = none
  Capacity = 1
  MaxRestarts = 1
  Surfaces = {"fppconnect", "audio"}
  LastRevision <- BothRevisions
  Unbuildable = {2}
  MaxAttempts = 1
SYMMETRY DeliverySymmetry
INVARIANTS EngineFollowsBinding
PROPERTIES AudioConverges HandlesCommands
CHECK_DEADLOCK FALSE
