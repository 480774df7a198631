CONSTANTS
  PAGE_SIZE = 7
  SIZE_TABLE_PAGE_HEADER = 1
  SIZE_TUPLE = 1
  x = x
  y = y
  Absent = Absent
  Blank = 0
  Bytes <- MCBytes
  Tuples <- MCTuples
  Loaded <- MCLoaded
  Txns = {t1, t2}
  MaxPages = 2
  MaxWrites = 2
  MayShrink = FALSE
  Rereads = TRUE
SYMMETRY TxnSymmetry
SPECIFICATION Spec
INVARIANTS PagesPacked AssertionsHold
PROPERTY RefinesTxnTable
