SPECIFICATION FairSpec
CONSTANTS
  RingLength = 3
  HeadBytes = 2
  AckBytes = 1
  SumBytes = 1
  RxLength = 11
  TxLength = 8
  FifoLength = 3
  MaxLen = 2
  Packet = 3
  PushBytes = 1
  PushRoom = 4
  Keeps = {"pc"}
  Calls = {"read", "write", "write_fifo", "clear_fifo"}
  Reckons = TRUE
  Values = {0, 1}
  MaxCalls = 3
  MaxMade <- DownOnly
  MaxPushes = 0
INVARIANTS TypeOK NoAssertionFails RingMatchesTraffic StreamsIntact
PROPERTIES ImplementsCalls WaitAllReturns
