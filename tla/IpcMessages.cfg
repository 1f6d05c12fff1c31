\* Both threads return and main() ends.
CHECK_DEADLOCK FALSE
SPECIFICATION Spec
CONSTANTS
  HeaderSize = 4
  Capacity = 8
INVARIANTS
  TypeOK
  NeverBroken
PROPERTIES
  PipesDeliver
  Finishes
