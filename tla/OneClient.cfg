SPECIFICATION Spec
CONSTANTS
  Clients = {c1}
  Server = srv
  NoClient = none
  MaxPackets = 2
  MaxFinish = 2
  MaxAttempts = 2
  MaxDup = 1
  Fifo = FALSE
  ShotModes = {FALSE}
  ServerFaults = FALSE
  ClientFaults = TRUE
  Interruptible = {}
  Punctual = FALSE
  PruneAt = 5
  KeepBehind = 2
INVARIANTS TypeOK LossIsExact NoFinishNoTotal
PROPERTIES FirstResultIsKept ImplementsMeasurementSession
