CONSTANTS
  Requests = {r1, r2}
  Keys = {k1}
  Intents = {play, stop}
  Sweep = sweep
  MaxCrashes = 2
  MaxWriteFaults = 1
SPECIFICATION FairSpec
INVARIANTS
  TypeOK
  AttemptedAtMostOnce
  AttemptIsAccountedFor
  OpenRowHasOneOwner
PROPERTIES
  EveryCommandSettles
  ImplementsPromise
