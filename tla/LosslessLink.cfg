SPECIFICATION Spec
CONSTANTS
  Clients = {c1, c2}
  Server = srv
  NoClient = none
  MaxPackets = 2
  MaxFinish = 2
  MaxAttempts = 1
  MaxDup = 0
  Fifo = TRUE
  ShotModes = {FALSE}
  ServerFaults = FALSE
  ClientFaults = FALSE
  Interruptible = {}
  Punctual = TRUE
  PruneAt = 5
  KeepBehind = 2
SYMMETRY ClientSymmetry
INVARIANTS NoPhantomLoss CountsOnlyItsClient
PROPERTY ImplementsMeasurementSession
