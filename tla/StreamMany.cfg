CONSTANTS
  Producers = {p1, p2}
  Consumers = {c1, c2}
  Cancellers = {k1}
  Policy = "bufferingNewest"
  Limit = 2
  MaxYields = 4
  MaxHandlers = 0
  MaxNexts = 2
SPECIFICATION Spec
INVARIANTS
  ResumedExactlyOnce
  EveryValueAccountedFor
PROPERTIES
  ImplementsChannel
\* every thread has used up its calls
CHECK_DEADLOCK FALSE
