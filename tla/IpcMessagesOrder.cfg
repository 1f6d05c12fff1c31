CHECK_DEADLOCK FALSE
SPECIFICATION Spec
CONSTANTS
  HeaderSize = 4
  Capacity = 8
INVARIANT
  HandlesWhatItLoaded
