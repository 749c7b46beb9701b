SPECIFICATION Spec
CONSTANTS
  Kilo = 4
  BitrateMax = 20
  WordMax = 2047
  SecondNs = 1
  BurstNs = 20000
  MsPerSecond = 256
  Givens <- MCGivens
  MaxPackets = 1
  MaxIntervals = 2
  MaxReports = 2
INVARIANTS TypeOK AcceptedConfigIsUsable LocalsOutliveThreads MainReportsAlone
  CleanupInOrder DocumentPerReport ZeroMeansDone
CHECK_DEADLOCK FALSE
