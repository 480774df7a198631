SPECIFICATION Spec
CONSTANTS
  v0 = v0
  v1 = v1
  Clients = {c1, c2}
  PoolSize = 2
  MaxPages = 3
  Values <- MCValues
  Zero = v0
  Frames <- MCFrames
SYMMETRY ClientSymmetry
INVARIANTS
  TypeOK
  FrameAccounting
  HandlesValid
  PinCountExact
  DirtyCovered
PROPERTIES
  RefinesPageStore
CHECK_DEADLOCK FALSE
