SPECIFICATION Spec
CONSTANTS
  NULL = NULL
  HEAD = HEAD
  Nodes = {n1, n2, n3}
  Sessions = {s1, s2}
  EventUsers = {s1}
INVARIANTS
  TypeOK
  NodesAccounted
PROPERTIES
  RunsAsPromised
  EventuallyFree
CHECK_DEADLOCK FALSE
