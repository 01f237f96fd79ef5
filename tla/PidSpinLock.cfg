SPECIFICATION FairSpec
CONSTANTS
  t1 = t1
  t2 = t2
  t3 = t3
  p1 = p1
  p2 = p2
  p3 = p3
  Threads <- MCThreads
  Procs <- MCProcs
  ProcOf <- MCProcOf
  PidOf <- MCPidOf
  InitialWords <- MCInitialWords
  LS_SPIN_MIN_PID = 3
  MAX_SPINCNT_CHECK = 2
  NDEBUG = FALSE
INVARIANTS
  TypeOK
  MutualExclusion
  HolderOwnsWord
  NoSelfWait
PROPERTIES
  Progress
  ImplementsRobustMutex
CHECK_DEADLOCK FALSE
