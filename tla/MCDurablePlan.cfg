SPECIFICATION Spec
CONSTANTS
  w1 = w1
  w2 = w2
  Workers = {w1, w2}
  NumSteps = 3
  Kind <- MCKind
  Deps <- MCDeps
  Resources <- MCResources
  ParallelSafe = {1, 2}
  MaxAttempts <- MCMaxAttempts
  Source <- MCSource
  Endings = {"cancelled"}
  MaxCrashes = 0
SYMMETRY Sym
INVARIANTS TypeOK WavesDisjoint SatisfiedPlanIsDone CompensatesOnlyFailed SuccessIsRecorded InFlightIsReady
PROPERTIES SuccessKept LeasedWorkSpec
