\* One caller and the receiving thread.  Three samples in parts of two; the
\* sender is throttled when four of the five heads are taken.
CONSTANTS
  Senders = {a}
  Nobody = Nobody
  Counts = {1, 3}
  Capacity = 3
  Part = 2
  Heads = 6
  Receiving = TRUE
  Overloaded = TRUE
SPECIFICATION FairSpec
INVARIANTS TypeOK SendIsComplete
PROPERTIES NeverCutShort CallsReturn
CHECK_DEADLOCK FALSE
