SPECIFICATION Spec
CONSTANTS
  Bits <- MCBits
  Mantissa = 5
  TextScale = 10
  TableNames <- MCTableNames
  Indexes <- MCIndexes
  Loaded <- MCLoaded
  Statements <- MCStatements
  MaxStatements = 2
INVARIANTS
  IndexInStep
  StatementExact
PROPERTIES
  QueryEnds
CHECK_DEADLOCK FALSE
