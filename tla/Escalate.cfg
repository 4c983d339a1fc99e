CONSTANTS
  Task = task
  NoThread = noThread
  Handlers = {h1}
  AsyncLets = {a1, a2}
  Preferences = {p1}
  InitialPreference = FALSE
  Cancellers = {c1}
  Escalators = {e1, e2}
  Resumers = {r1}
  MaxPriority = 3
  MaxAwaits = 1
SPECIFICATION Spec
INVARIANTS
  TypeOK
  SchedulingStateConsistent
  EscalationReachesEveryChild
SYMMETRY RecordSymmetry
\* the task completes and every thread then stops
CHECK_DEADLOCK FALSE
