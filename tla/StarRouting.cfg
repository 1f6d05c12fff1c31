\* star_routing() ends.
CHECK_DEADLOCK FALSE
SPECIFICATION Spec
CONSTANTS
  Service = {1, 2, 3}
  Requests = 5
  Client = 9
  Pieces = 3
  Capacity = 4
  Faults = TRUE
PROPERTIES
  ImplementsChannel
  Ends
