\* Three ports, a window that starts at 1 and may grow to 3, batches of 2, one
\* retry by default and more when answers show them useful.
SPECIFICATION FairSpec
CONSTANTS
  Ports = {p1, p2, p3}
  MaxParallelism = 3
  BatchSize = 2
  MaxRetries = 2
  InitialCwnd = 1
  InitialSsthresh = 2
  CaIncr = 1
  CcScaleMax = 3
INVARIANTS
  EveryPortTracked
  WindowRespected
  VerdictEarned
  FilteredEarned
  RetriesJustified
PROPERTIES
  ScanPromise
  EveryPortDecided
