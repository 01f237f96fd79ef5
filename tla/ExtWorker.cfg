SPECIFICATION Spec
CONSTANTS
  NULL = NULL
  LB = LB
  w1 = w1
  w2 = w2
  Workers <- TwoWorkers
  MaxConns <- Pools
  Retry <- FirstRetries
  Requests = {r1, r2}
  Handlers = {w1, LB}
  MaxFaults = 3
  MaxDepth = 30
SYMMETRY Symmetry
INVARIANTS
  TypeOK
  Assignments
  RequestsPlaced
  PoolSound
CHECK_DEADLOCK FALSE
