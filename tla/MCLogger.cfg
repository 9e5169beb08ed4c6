SPECIFICATION LoggerSpec
CONSTANTS
  p1 = p1
  Flusher = Flusher
  Main = Main
  Dog = Dog
  Child = Child
  NoThread = NoThread
  NoEntry = NoEntry
  Producers = {p1, Main, Dog}
  Consumers = {Flusher, Main, Dog, Child}
  Size = 2
  MaxWrites = 2
  BufLines = 2
  MaxOpens = 1
INVARIANTS  StopSaves 
CHECK_DEADLOCK FALSE
