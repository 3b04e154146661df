\* One sender over two windows of 4 ticks, 2 packets each; or two senders that
\* race at the end of the first.  The model stops when its time is up.
SPECIFICATION Spec
CONSTANTS
  Senders = {s1, s2}
  Window = 4
  MaxRate = 2
  Forever = 1000
  MaxTime = 7
  MaxSharedTime = 5
SYMMETRY Permuted
CHECK_DEADLOCK FALSE
INVARIANTS
  CountExact
  TwiceTheRate
PROPERTY
  WindowsDoNotOverlap
