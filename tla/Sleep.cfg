CONSTANTS
  MaxSleeps = 3
SPECIFICATION FairSpec
INVARIANTS
  TokenOutlivesItsUsers
  ResumedAtMostOnce
  NoFatalError
  OutcomeJustified
PROPERTIES
  SleepEnds
\* the task wakes from its last sleep and everything stops
CHECK_DEADLOCK FALSE
