\* More jobs than the queue has slots.
SPECIFICATION Spec
CONSTANTS
  Ids = {1, 2}
  Clients = {c1, c2}
  Nobody = nobody
  Capacity = 1
  MaxAttempts = 2
  Ticks = {1}
INVARIANT WaitingJobsFit
