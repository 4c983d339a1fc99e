CONSTANTS
  Waiters = {w1, w2, w3}
  Parent = w1
  Visitors = {v1}
  NoVisitor = noVisitor
  MaxWaits = 1
  MaxGets = 2
SPECIFICATION FairSpec
INVARIANTS
  TaskAliveWhileUsed
  ParkedOnce
  OutcomeDelivered
  BufferSound
PROPERTIES
  WaitsEnd
  TaskFreed
\* everybody ends
CHECK_DEADLOCK FALSE
