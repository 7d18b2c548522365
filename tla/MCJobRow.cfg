CONSTANTS
  s1 = s1
  r1 = r1
  r2 = r2
  NoStep = NoStep
  Step <- MCStep
  FirstStep = s1
  Reader <- MCReader
  MaxStartAttempts = 2
SPECIFICATION FairSpec
INVARIANTS RowNeverAhead ToldTheTruth
PROPERTIES RowCatchesUp
CHECK_DEADLOCK FALSE
