CONSTANTS
  Task = task
  NoThread = noThread
  Handlers = {h1, h2}
  AsyncLets = {a1}
  Preferences = {p1}
  InitialPreference = TRUE
  Cancellers = {c1}
  Escalators = {}
  Resumers = {r1}
  MaxPriority = 1
  MaxAwaits = 2
SPECIFICATION FairSpec
INVARIANTS
  VisitsOnlyLiveRecords
  EnqueuedOnce
  CancellationReachesEveryRecord
PROPERTIES
  TaskCompletes
\* the task completes and every thread then stops
CHECK_DEADLOCK FALSE
