CONSTANTS
  Threads = {t1, t2}
  NoThread = NoThread
  Trees <- MCTrees
SYMMETRY ThreadSymmetry
SPECIFICATION Spec
INVARIANTS TypeOK WellFormed Separated IteratorComplete
  
