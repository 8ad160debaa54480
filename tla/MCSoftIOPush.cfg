SPECIFICATION Spec
CONSTANTS
  RingLength = 3
  HeadBytes = 2
  AckBytes = 1
  SumBytes = 1
  RxLength = 12
  TxLength = 8
  FifoLength = 4
  MaxLen = 1
  Packet = 3
  PushBytes = 1
  PushRoom = 4
  Keeps = {"pc"}
  Calls = {"read", "read_fifo"}
  Reckons = FALSE
  Values = {0}
  MaxCalls = 2
  MaxMade <- UpOnly
  MaxPushes = 2
INVARIANTS NoAssertionFails RingMatchesTraffic StreamsIntact
PROPERTIES ImplementsCalls
