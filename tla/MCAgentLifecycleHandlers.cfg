\* One process is enough.
SPECIFICATION Spec
CONSTANTS
  Processes = {p1}
  Handlers = {h1}
  Jobs = {j1}
  Free = free
INVARIANT LockOutlivesHandlers
