SPECIFICATION FairSpec
CONSTANTS
  Deliveries = {d1, d2, d3}
  None = none
  Commands <- MCCommands
  KeyOf <- MCKeyOf
  Acceptable <- MCAcceptable
  Known <- MCKnown
  Deadlined = {"again"}
  Capacity = 1
  MaxRestarts = 1
INVARIANTS TypeOK OneExecutionPerKey 
PROPERTIES RecentKeyIsNotRepeated EveryDeliveryIsAnswered
CHECK_DEADLOCK FALSE
