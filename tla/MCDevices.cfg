SPECIFICATION DevicesSpec
CONSTANTS
  Closer = closer
  Threads = {w1, w2, closer}
  Workers = {w1, w2}
  Requests = {0, 2}
  MaxSteps = 3
  ItemSteps = 2
  MaxItems = 2
  Cards = {c1, c2}
  Callers = {r1}
  Worker = worker
  NoCard = none
  HwTimeout = 6
  SoftTimeout = 3
  FeedInterval = 1
  ShutdownTime = 1
  DriverTested = {"rc522", "bh1750", "led", "led_pwm", "motor", "motor_pwm", "dma_spi"}
  Openers = {o1, o2}
  Runs = {0, 1}
  QueueLen = 3
  Registers = {254, 300}
  Default = 69
  MaxSettled = 103
  MaxSignals = 2
  MaxCrashes = 1
INVARIANTS
  MotorInv UndisturbedCartServed  HangNoticed UnloadedIsClean PulsesEnd
  ScaleIsTheChips
PROPERTIES
  CoilsReleased  ReadIsItsOwn ShutdownReturns
CHECK_DEADLOCK FALSE
