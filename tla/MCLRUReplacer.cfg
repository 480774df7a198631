SPECIFICATION Spec
CONSTANTS
  Frames = {0, 1, 2, 3}
  Nodes = {n1, n2, n3, n4}
  HEAD = head
  NULL = null
INVARIANTS
  TypeOK
  RingConsistent
  OneRing
PROPERTIES
  RefinesQueue
