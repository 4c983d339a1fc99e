CONSTANTS
  Children = {c1, c2, c3}
SPECIFICATION FairSpec
INVARIANTS
  ResultsInCompletionOrder
  StatusAgreesWithQueues
  DestroyedWhenUnused
  ThrowsFirstError
  CancellationReachesChildren
PROPERTIES
  GroupEnds
\* the group is destroyed and everything stops
CHECK_DEADLOCK FALSE
