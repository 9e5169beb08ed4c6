SPECIFICATION FairLoggerSpec
CONSTANTS
  p1 = p1
  Flusher = Flusher
  Main = Main
  Dog = Dog
  Child = Child
  NoThread = NoThread
  NoEntry = NoEntry
  Producers = {p1, Main, Dog}
  Consumers = {Flusher, Main, Dog, Child}
  Size = 2
  MaxWrites = 1
  BufLines = 1
  MaxOpens = 0
PROPERTY FlushReturns
CHECK_DEADLOCK FALSE
