\* Archives of up to four files in waves of two, two waves a run.  A rewritten manifest makes
\* short waves, so a job takes up to three waves and continues as new because Temporal
\* suggests it or because it must; an odd number of files ends on a short wave.
SPECIFICATION FairSpec
CONSTANTS
  MaxFiles = 4
  MaxUnreadable = 2
  Wave = 2
  WavesPerRun = 2
  Kept = 1
  ExpandAttempts = 2
CHECK_DEADLOCK FALSE
INVARIANTS
  ProgressExact
  SucceededMeansIngested
PROPERTIES
  EachFileOnce
  EventuallyCloses
  ImplementsLifecycle
