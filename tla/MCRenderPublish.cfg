\* Two readers and four attempts, two of them of an earlier version of the program.
SPECIFICATION Spec
CONSTANTS
  Readers = {r1, r2}
  MaxAttempts = 4
SYMMETRY ReaderSymmetry
INVARIANTS
  PathNamesPreview
  PreviewIsOfAttempt
  ServedIsWhole
  StampNotNewer
PROPERTY NewestStays
