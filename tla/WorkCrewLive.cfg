SPECIFICATION FairSpec
CONSTANTS
  NULL = NULL
  Jobs = {j1}
  Workers = {w1, w2}
  Deferred = TRUE
  MinIdle = 1
  MaxIdle = 2
  MaxWorkers = 2
  IdleChoices <- MCIdleChoices
  MaxChoices <- MCMaxChoices
PROPERTIES
  QueuedJobTaken
  StopReturns
CHECK_DEADLOCK FALSE
