SPECIFICATION FairSpec
CONSTANTS
  Capacity = 2
  Counts = {0, 5}
  Messages = {1, 2}
  Rounds = {0, 4, 8}
  Digit = 3
  Interval = 1
  UnderflowRange = 65536
  Overloaded = TRUE
  Early = TRUE
CHECK_DEADLOCK FALSE
INVARIANTS TypeOK NeverTooMany ShownInOrder SendIsComplete OneThreadAtSoftIO RepeatStartsAtZero RepeatCounts
PROPERTY CallsReturn
