\* Two scans, two requests at a time, a limit of one, any cancellations; the
\* model stops when every scan was created and ended.
SPECIFICATION FairSpec
CONSTANTS
  Scans = {s1, s2}
  Clients = {c1, c2}
  MaxConcurrent = 1
  None = None
CHECK_DEADLOCK FALSE
INVARIANTS
  TypeOK
  RunOnce
  CompletedHasResults
  StatusFollowsWork
PROPERTIES
  EveryScanEnds
  EveryStreamEnds
