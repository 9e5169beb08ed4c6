SPECIFICATION FairConnectionSpec
CONSTANTS
  MaxReconnect = 10
  MaxFlips = 3
  MaxClicks = 3
  HeaderLen = 2
  MaxBuf = 2
  Sizes = {0, 1, 2, 3}
  MaxFrames = 3
INVARIANTS FlagFollowsSocket NeverIdleOffline FramesWholeInOrder
PROPERTY ReconnectsWhenServerIsUp
CHECK_DEADLOCK FALSE
