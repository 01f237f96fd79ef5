SPECIFICATION Spec
CONSTANTS
  NULL = NULL
  Jobs = {j1}
  Workers = {w1, w2}
  Deferred = FALSE
  MinIdle = 1
  MaxIdle = 1
  MaxWorkers = 2
  IdleChoices <- MCNoChoices
  MaxChoices <- MCNoChoices
INVARIANT
  AllWorkersDead
CHECK_DEADLOCK FALSE
