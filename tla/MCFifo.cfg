SPECIFICATION Spec
CONSTANTS
  Length = 4
  Data = {0, 1}
  Request <- MCRequest
  MaxStored = 6
INVARIANTS
  TypeOK
  StaleLengthIsSafe
  NothingOverwritten
  NothingLost
  DeliveredInOrder
PROPERTY ImplementsQueue
