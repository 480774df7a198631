SPECIFICATION ApiSpec
CONSTANTS
  v0 = v0
  v1 = v1
  Clients = {c1}
  Nobody = nobody
  PoolSize = 2
  MaxPages = 3
  Values <- MCValues
  Zero = v0
  Frames <- MCFrames
PROPERTIES
  OnlyWritesChange
CHECK_DEADLOCK FALSE
