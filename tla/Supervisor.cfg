SPECIFICATION Spec
CONSTANTS
  Workers = {w1, w2}
  NumChildren = 1
  ForkLimit = 1
  MaxIncidents = 2
INVARIANTS TypeOK ChildrenAccounted
PROPERTIES ListenersKept ServerStops CrewRestored
CHECK_DEADLOCK FALSE
