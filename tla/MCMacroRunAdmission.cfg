CONSTANTS
  Macros <- AdmissionMacros
  Object <- AdmissionObject
  Script <- AdmissionScript
  RunIds = {r1, r2}
  Submitters = {c1, c2}
  Keys = {k1, k2}
  MaxSteps = 1
  MaxCrashes = 1
  MaxWriteFaults = 1
SPECIFICATION Spec
SYMMETRY AdmissionSymmetry
INVARIANTS
  RunsDoNotCollide
