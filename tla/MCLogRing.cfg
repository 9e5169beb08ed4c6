CONSTANTS
  Producers = {p1, p2}
  Consumers = {flush, crash}
  Size = 2
  MaxWrites = 2
  NoEntry = NoEntry
  NoThread = NoThread
SPECIFICATION FairSpec
INVARIANT RingInv
PROPERTY ImplementsQueue
CHECK_DEADLOCK FALSE
