\* Two hosts with two ports each, two retries; the limits of one host doubled are
\* cut to 3.
SPECIFICATION FairSpec
CONSTANTS
  h1 = h1
  h2 = h2
  p1 = p1
  p2 = p2
  Targets <- TwoHosts
  PortList <- TwoPorts
  MaxParallelism = 2
  BatchSize = 1
  TotalCap = 3
  MaxRetries = 2
  HostAnswers = {"synack", "none"}
  InitialCwnd = 1
  InitialSsthresh = 2
  CaIncr = 1
  CcScaleMax = 3
INVARIANTS
  LoadBounded
  FilteredEarned
  HostsInStep
PROPERTIES
  HostPromises
  EveryPortDecided
