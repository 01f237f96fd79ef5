SPECIFICATION Spec
CONSTANTS
  NULL = NULL
  Jobs = {j1, j2}
  Workers = {w1, w2}
  Deferred = FALSE
  MinIdle = 1
  MaxIdle = 1
  MaxWorkers = 2
  IdleChoices <- MCNoChoices
  MaxChoices <- MCNoChoices
SYMMETRY Symmetry
INVARIANTS
  TypeOK
  CrewSound
  JobsNotLost
PROPERTY
  CrewKeepsAWorker
CHECK_DEADLOCK FALSE
