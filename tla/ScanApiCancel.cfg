\* A scan is cancelled while it runs.
SPECIFICATION Spec
CONSTANTS
  Scans = {s1}
  Clients = {c1}
  MaxConcurrent = 1
  None = None
CHECK_DEADLOCK FALSE
PROPERTY
  CancelIsFinal
