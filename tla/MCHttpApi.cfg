\* Three services on a channel with one slot, two jobs; the real limits of a source.
SPECIFICATION Spec
CONSTANTS
  Services = {s1, s2, s3}
  Routers = {s1}
  Ids = {"job1", "job2"}
  Nobody = "nobody"
  Capacity = 1
  MaxCollisions = 2
  MaxDeliveries = 2
  MinSourceBytes = 6
  MaxSourceBytes = 65536
INVARIANTS
  AnswerIsTrue
  AdmittedPrints
PROPERTY OnlyOwnerSends
