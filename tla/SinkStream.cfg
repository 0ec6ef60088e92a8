SPECIFICATION FairSpec
CONSTANTS
  queue_len = 2
  HeaderSize = 2
  BodySize = 2
  SocketRoom = 2
  MaxFrames = 4
INVARIANTS TypeOK WakeupAhead MessagesFew InStep
PROPERTIES ImplementsRecording Delivered
\* No more frames are put after MaxFrames.
CHECK_DEADLOCK FALSE
