SPECIFICATION Spec
CONSTANTS
  Bits <- MCBits
  Mantissa = 8
  TextScale = 10
  Literals <- MCLiterals
  Neighbours <- MCNeighbours
  KeySize = 48
  DecimalBound = 20
INVARIANTS
  ArithmeticExact
  NullPropagates
  ComparisonIsOrder
  CastKeepsNumber
  TupleKeepsValues
