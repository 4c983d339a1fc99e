CONSTANTS
  Producers = {p1}
  Consumers = {c1}
  Cancellers = {k1}
  Policy = "unbounded"
  Limit = 0
  MaxYields = 0
  MaxHandlers = 0
  MaxNexts = 2
SPECIFICATION Spec
INVARIANTS
  OnlyNilAfterError
CHECK_DEADLOCK FALSE
