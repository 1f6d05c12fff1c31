CHECK_DEADLOCK FALSE
SPECIFICATION Spec
CONSTANTS
  Name = {d}
  x = x
  y = y
  Leaf = {x, y}
  Written = {x}
  Key = {1, 2}
  Wires <- MCWires
  Block <- MCBlock
  ReadKeys <- MCReadKeys
  Nothing = Nothing
  Garbage = Garbage
  MaxCalls = 6
  AnyCall = TRUE
PROPERTY FirstObjectReflected
