SPECIFICATION MediaSpec
CONSTANTS
  Buffers = {0, 1}
  MaxFails = 2
  MaxCameraRetries = 2
  StableFrames = 1
  BufferCount = 2
  Ticks = 5
  EncoderDelay = 1
  MaxNalus = 3
  PacketUnits = 2
  Persons = {p1, p2}
  Anchors <- MCAnchors
  MaxAnchors = 3
  ImageWidth = 60
  ImageHeight = 40
  REID_INTERVAL = 2
INVARIANTS  StreamerNotClosedInUse OneTimeBase DescriptorsReleased
   StreamUnderstood FacesOnceFeaturesRecent
PROPERTY MonitorStops
CHECK_DEADLOCK FALSE
