\* A chain ends when a converter answers its default.
CHECK_DEADLOCK FALSE
SPECIFICATION Spec
CONSTANTS
  Narrow = 3
  Wide = 6
  Precision = 4
  NaN = NaN
  PosInf = PosInf
  NegInf = NegInf
  NegZero = NegZero
INVARIANTS
  TypeOK
  ChainFaithful
  DefaultOnlyOutOfRange
