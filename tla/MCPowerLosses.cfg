\* Two jobs, one handler, one slot in the queue, one power loss.
SPECIFICATION FairPowerSpec
CONSTANTS
  Ids = {1, 2}
  Clients = {c1}
  Nobody = nobody
  Capacity = 1
  MaxAttempts = 2
  Ticks = {1}
  MaxLosses = 1
INVARIANT OnlyUndoneAreHarmed
PROPERTIES
  EventuallySettled
  StopCompletes
