SPECIFICATION Spec
CONSTANTS
  RingLength = 3
  HeadBytes = 2
  AckBytes = 1
  SumBytes = 1
  RxLength = 12
  TxLength = 8
  FifoLength = 4
  MaxLen = 1
  Packet = 3
  PushBytes = 1
  PushRoom = 4
  Keeps = {"pc"}
  Calls = {"read"}
  Reckons = FALSE
  Values = {0}
  MaxCalls = 3
  MaxMade <- UpOnly
  MaxPushes = 1
INVARIANT AnswersAreAwaited
