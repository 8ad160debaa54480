\* Two callers at once; nothing falls due before the PC has sent it.
CONSTANTS
  Senders = {a, b}
  Nobody = Nobody
  Counts = {2}
  Capacity = 3
  Part = 2
  Heads = 6
  Receiving = FALSE
  Overloaded = FALSE
SPECIFICATION Spec
PROPERTY NeverCutShort
CHECK_DEADLOCK FALSE
