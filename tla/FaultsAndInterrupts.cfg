SPECIFICATION FairSpec
CONSTANTS
  Clients = {c1}
  Server = srv
  NoClient = none
  MaxPackets = 1
  MaxFinish = 1
  MaxAttempts = 2
  MaxDup = 0
  Fifo = FALSE
  ShotModes = {TRUE, FALSE}
  ServerFaults = TRUE
  ClientFaults = TRUE
  Interruptible = {c1, srv}
  Punctual = FALSE
  PruneAt = 5
  KeepBehind = 2
INVARIANTS AckTimeoutConfined
PROPERTIES ClientTerminates ServerIsReleased CtrlCStopsServer SingleShotStops
CHECK_DEADLOCK FALSE
