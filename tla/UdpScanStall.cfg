\* Two ports, a window of one.
SPECIFICATION FairSpec
CONSTANTS
  Ports = {p1, p2}
  MaxParallelism = 2
  BatchSize = 2
  MaxRetries = 1
  Hosts = 1
  IterationCap = 3
  InitialCwnd = 1
  InitialSsthresh = 3
  CaIncr = 1
  CcScaleMax = 3
PROPERTY
  EveryPortDecided
