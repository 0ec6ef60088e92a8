SPECIFICATION PeripherySpec
CONSTANTS
  Connection = {a, b}
  Guest = {g}
  NULL = NULL
  SourceId = {1, 2}
  Fade = {f1, f2, f3}
  QueueLen = 1
  MaxSources = 3
  PipeSize = 2
  NoFrames = NoFrames
  Packet = 2
  Sequence = 4
  Header = 2
  FrameBlocks = 8
  Smallest = 8
  MaxFrame = 12
  MaxPackets = 3
  NoData = NoData
  Garbage = Garbage
  std_cycle <- Cycle
  hw_frame_count = 16
  delay_size = 40
  MinBuffer = 20
INVARIANTS ConnectionsKept WindowAgrees BlocksPlaced
PROPERTIES AddEnds
\* AddEnds is not about fades.
SYMMETRY FadeSymmetry
