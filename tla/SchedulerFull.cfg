\* One task more than the channel holds; the system stops, which is the finding.
SPECIFICATION FairSpec
CONSTANTS
  c1 = c1
  t1 = t1
  t2 = t2
  t3 = t3
  t4 = t4
  Shutdown = Shutdown
  Callers = {c1}
  Tasks = {t1, t2, t3, t4}
  Program <- Discovery
  Capacity = 3
  MaxConcurrent = 2
CHECK_DEADLOCK FALSE
PROPERTY
  ScheduleReturns
