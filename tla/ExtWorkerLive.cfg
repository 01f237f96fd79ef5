SPECIFICATION Spec
CONSTANTS
  NULL = NULL
  LB = LB
  w1 = w1
  w2 = w2
  Workers <- OneWorker
  MaxConns <- Pool
  Retry <- Retries
  Requests = {r1, r2}
  Handlers = {w1}
  MaxFaults = 2
  MaxDepth = 30
PROPERTIES
  EventuallyEnded
CHECK_DEADLOCK FALSE
