CONSTANTS
  Macros <- ExecutionMacros
  Object <- ExecutionObject
  Script <- ExecutionScript
  RunIds = {r1}
  Submitters = {c1}
  Keys = {k1}
  MaxSteps = 3
  MaxCrashes = 2
  MaxWriteFaults = 1
SPECIFICATION FairSpec
INVARIANTS
  StepsRunInOrder
  FinishedRunTellsTheTruth
  FppStepAgreesWithJournal
PROPERTIES
  EveryRunFinishes
  FppStepsKeepPromise
