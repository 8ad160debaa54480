\* Blocks of two samples, asked for three at a time, so that they end inside a
\* chunk and a rest is left over when listening ends; five points need more
\* than the blocks at hand.
CONSTANTS
  Size = 2
  Points = 5
  Chunk = 3
  Capacity = 5
  Backlog = 1
  Numbers = 7
SPECIFICATION FairSpec
INVARIANTS TypeOK  OutputOnlyWhileListening
PROPERTY CallsReturn
CHECK_DEADLOCK FALSE
