SPECIFICATION FairSpec
CONSTANTS
  Threads = {t1, t2, t3, t4}
  MAX_FUTEX_SPINCNT = 2
INVARIANTS
  TypeOK
  MutualExclusion
  NoLostWakeUp
PROPERTY
  Progress
