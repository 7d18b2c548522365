CONSTANTS
  a = a
  b = b
  c = c
  d = d
  NoStep = NoStep
  Step <- MCStep
  Order <- MCOrder
  Deps <- MCDeps
  FanOut <- MCFanOut
  MaxBranches = 2
  MaxAttempts = 2
SPECIFICATION FairSpec
INVARIANTS StepsInOrderOnce SucceededMeansAllDone
           UsageFinal BilledWorkHappened FinishedWorkBilled
PROPERTIES EventuallyCloses ImplementsLifecycle
