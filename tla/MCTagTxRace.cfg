SPECIFICATION Spec
CONSTANTS
  Capacity = 2
  Counts = {3}
  Messages = {}
  Rounds = {}
  Digit = 2
  Interval = 0
  UnderflowRange = 65536
  Overloaded = FALSE
  Early = FALSE
CHECK_DEADLOCK FALSE
INVARIANT StreamKeepsUp
