SPECIFICATION FairSpec
CONSTANTS
  Second = 4
  DurationSec = 2
  IntervalSec = 1
  IntervalTicks = 1
  BurstTicks = 3
  IdMax = 4
  SocketFaults = TRUE
  MaxTime = 11
INVARIANTS TypeOK IntervalsSumUp LabelsNotAhead ScheduleKeepsRate RateIsBounded
  OnePacketAfterStop StampIsRecent
PROPERTY SenderFinishes
CHECK_DEADLOCK FALSE
