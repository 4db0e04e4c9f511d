\* A retried job and a job created after it.
SPECIFICATION Spec
CONSTANTS
  Ids = {1, 2}
  Clients = {c1, c2}
  Nobody = nobody
  Capacity = 2
  MaxAttempts = 2
  Ticks = {1}
PROPERTY ResumeKeepsWholeOrder
