SPECIFICATION Spec
CONSTANTS
  First = First
  Second = Second
  Workers = {First, Second}
  NRequests = 2
  Window = 2
  MaxTurns = 2
  MaxFaults = 1
PROPERTIES EmptyMeansNone
CHECK_DEADLOCK FALSE
