SPECIFICATION FairSpec
CONSTANTS
  Source = {s1}
  Sink = {}
  Recorder = {}
  NULL = NULL
  System = {"625/50", "525/60"}
  Aspect = {"normal", "wide"}
  SampleRate = {"48k", "32k"}
  FrameFormat <- OneSystem
  Format <- NoFormat
  VideoMix <- NoMix
  AudioId = {}
  RecordFlag = {}
  CutUsed = FALSE
  target_queue_len = 1
  mixer_queue_len = 1
  MaxSources = 1
  MaxSinks = 0
  MaxFrames = 1
  MaxTicks = 2
PROPERTIES ShutdownCompletes
\* ~mixer ends the program.
CHECK_DEADLOCK FALSE
