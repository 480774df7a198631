SPECIFICATION FairSpec
CONSTANTS
  Threads = {t1, t2, t3}
  MAX_READERS = 2
INVARIANTS
  TypeOK
  Exclusion
  NoLostWakeup
PROPERTIES
  EverybodyGetsIn
