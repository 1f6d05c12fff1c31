SPECIFICATION Spec
CONSTANTS
  Machine <- MCMachine
  Endian <- MCEndian
  Key = {1, 2}
  MaxObjects = 2
  MaxCopies = 2
INVARIANTS
  MarkTellsOrder
  ReadsBack
