SPECIFICATION Spec
CONSTANTS
  Capacity = 2
  Counts = {}
  Messages = {1}
  Rounds = {8}
  Digit = 3
  Interval = 0
  UnderflowRange = 65536
  Overloaded = FALSE
  Early = FALSE
CHECK_DEADLOCK FALSE
INVARIANT AlwaysRepeats
