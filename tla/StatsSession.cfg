SPECIFICATION Spec
CONSTANTS
  PruneAt = 7
  KeepBehind = 3
  IdMax = 8
  MaxSeq = 8
  Window = 2
  MaxCopies = 1
  MaxTime = 2
INVARIANTS TypeOK LossIsPrecise MemoryIsBounded DisorderIsReal
  JitterMaxIsObserved
PROPERTY ImplementsIdealCollector
CHECK_DEADLOCK FALSE
