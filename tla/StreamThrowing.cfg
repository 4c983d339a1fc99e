CONSTANTS
  Producers = {p1, p2}
  Consumers = {c1}
  Cancellers = {k1}
  Policy = "bufferingOldest"
  Limit = 1
  MaxYields = 2
  MaxHandlers = 2
  MaxNexts = 3
SPECIFICATION FairSpec
INVARIANTS
  HandlerRunsOnce
  FirstEndingWins
PROPERTIES
  EndReachesConsumer
  ImplementsChannel
\* every thread has used up its calls
CHECK_DEADLOCK FALSE
