CONSTANTS
  j1 = j1
  j2 = j2
  j3 = j3
  Jobs = {j1, j2, j3}
  Priority <- JobPriority
  Preferring = {j3}
  Threads = {t1, t2}
  Escalators = {e1}
  NoJob = noJob
  NoThread = noThread
  MaxPriority = 3
  MaxVisits = 1
SPECIFICATION Spec
INVARIANT OneTaskOnTheActor
CHECK_DEADLOCK FALSE
