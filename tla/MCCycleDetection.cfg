SPECIFICATION FairSpec
CONSTANTS
  Txns = {0, 1, 2, 3}
  Graphs <- OneLoop
INVARIANTS
  FindsCycle
PROPERTIES
  CyclesBroken
