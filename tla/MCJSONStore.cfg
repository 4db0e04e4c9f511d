\* Two jobs, two callers; the process can die and the machine lose power.
SPECIFICATION FairSpec
CONSTANTS
  Ids = {i1, i2}
  Callers = {a, b}
  Nobody = nobody
  Contents = {"queued", "rendering"}
INVARIANT FileIsWhole
PROPERTIES
  ImplementsAtomicStore
  LockIsReleased
