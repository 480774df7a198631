CONSTANTS
  Threads = {t1}
  NoThread = NoThread
  Junk = {7}
  Trees <- MCTrees
SPECIFICATION TallSpec
INVARIANT Separated
