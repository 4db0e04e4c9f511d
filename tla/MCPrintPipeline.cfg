\* Three jobs, two handlers, two slots in the queue, one retry of each job, a clock
\* that may stand still.
SPECIFICATION Spec
CONSTANTS
  Ids = {1, 2, 3}
  Clients = {c1, c2}
  Nobody = nobody
  Capacity = 2
  MaxAttempts = 2
  Ticks = {0, 1}
SYMMETRY ClientSymmetry
INVARIANTS
  TypeOK
  QueuedIsHeldOnce
  InProgressIsHeld
  HeldInAcceptanceOrder
  PrintedOncePerRequest
  OutcomeIsTrue
  DiskOneStepAhead
  AcceptedSurvives
PROPERTIES
  ImplementsLifecycle
  ResumeKeepsOrder
