\* Joins and moves of two threads.
CHECK_DEADLOCK FALSE
SPECIFICATION Spec
CONSTANTS
  member = member
  local = local
  temporary = temporary
  Object = {member, local, temporary}
  Caller = {c1, c2}
  Worker = {w1, w2}
  None = None
  Moves <- OneWay
  MaxCalls = 2
INVARIANTS
  TypeOK
  OwnedOrJoined
PROPERTIES
  CallsReturn
