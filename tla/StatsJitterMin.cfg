SPECIFICATION Spec
CONSTANTS
  PruneAt = 4
  KeepBehind = 2
  IdMax = 4
  MaxSeq = 2
  Window = 1
  MaxCopies = 0
  MaxTime = 2
CHECK_DEADLOCK FALSE
INVARIANT JitterMinIsObserved
