SPECIFICATION Spec
CONSTANTS
  Clients = {c1}
  Server = srv
  NoClient = none
  MaxPackets = 1
  MaxFinish = 1
  MaxAttempts = 1
  MaxDup = 0
  Fifo = FALSE
  ShotModes = {FALSE}
  ServerFaults = FALSE
  ClientFaults = FALSE
  Interruptible = {srv}
  Punctual = TRUE
  PruneAt = 5
  KeepBehind = 2
INVARIANT CtrlCShowsPartialResult
CHECK_DEADLOCK FALSE
