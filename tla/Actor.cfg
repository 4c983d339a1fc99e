CONSTANTS
  j1 = j1
  j2 = j2
  j3 = j3
  Jobs = {j1, j2, j3}
  Priority <- JobPriority
  Preferring = {j3}
  Threads = {t1, t2}
  Escalators = {e1}
  NoJob = noJob
  NoThread = noThread
  MaxPriority = 2
  MaxVisits = 1
SPECIFICATION FairSpec
INVARIANTS
  MutualExclusion
  OwnershipBalance
  UsersKeepActorAlive
  MaxPriorityCoversJobs
PROPERTIES
  QueueDrained
  ImplementsExecutor
CHECK_DEADLOCK FALSE
