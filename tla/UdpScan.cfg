\* Two hosts of two ports, a window of 1 that grows to 2, batches of 2, one
\* retry.
SPECIFICATION FairSpec
CONSTANTS
  Ports = {p1, p2}
  MaxParallelism = 2
  BatchSize = 2
  MaxRetries = 1
  Hosts = 2
  IterationCap = 5
  InitialCwnd = 1
  InitialSsthresh = 3
  CaIncr = 1
  CcScaleMax = 3
INVARIANTS
  EveryPortTracked
  LoadBounded
  VerdictEarned
  ProbedPortsReported
PROPERTIES
  VerdictsOnlyImprove
  SentPortsDecided
