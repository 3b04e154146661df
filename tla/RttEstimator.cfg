\* Template T5, and RTTs of a local host, a wide-area network and a slow link.
SPECIFICATION Spec
CONSTANTS
  Rtts = {200, 40000, 290000}
  MinRtt = 50000
  MaxRtt = 300000
  InitialRtt = 250000
  AdaptFloor = 5000
  VarFloor = 5000
  VarCeil = 2000000
  MaxSamples = 4
INVARIANTS
  SmoothedWithinSamples
  TimeoutReasonable
