SPECIFICATION Spec
CONSTANTS
  Txns = {0, 1}
  Rids = {r1, r2}
  Isolation <- OneReadCommitted
  Ops = {"S", "U"}
  MaxRequests = 3
SYMMETRY RidSymmetry
INVARIANTS
  Exclusion
  CountsExact
PROPERTIES
  LocksOnlyGrowing
