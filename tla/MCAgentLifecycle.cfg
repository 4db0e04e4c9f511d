\* Two processes with two handlers each, and two jobs.
SPECIFICATION FairSpec
CONSTANTS
  Processes = {p1, p2}
  Handlers = {h1, h2}
  Jobs = {j1, j2}
  Free = free
INVARIANTS
  TypeOK
  OnlyOwnerUsesData
  AcknowledgedStays
PROPERTY StopReleases
