\* Fifos of three samples, packets of two: the board overflows, the PC's fifo
\* overflows, and packets are under way when receiving stops and starts again.
CONSTANTS
  Capacity = 3
  Packet = 2
  Allowance = 2
  UnderWay = 2
  MaxSamples = 7
SPECIFICATION FairSpec
INVARIANTS TypeOK NothingLostUncounted GapsAreNoticed
PROPERTY StopReturns
CHECK_DEADLOCK FALSE
