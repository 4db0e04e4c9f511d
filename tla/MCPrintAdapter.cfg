\* Two printers: the one asked for and another.
SPECIFICATION LiveSpec
CONSTANT Printers = {p1, p2}
INVARIANTS
  ToPresentPrinter
  ChecksAreFresh
  NotFoundIsTrue
PROPERTIES
  ImplementsPromise
  PrintReturns
