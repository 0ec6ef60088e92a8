SPECIFICATION Spec
CONSTANTS
  Source = {s1, s2}
  Sink = {}
  Recorder = {}
  NULL = NULL
  System = {"625/50", "525/60"}
  Aspect = {"normal", "wide"}
  SampleRate = {"48k", "32k"}
  FrameFormat <- TwoSystems
  Format <- Presets
  VideoMix <- OtherMixes
  AudioId = {}
  RecordFlag = {}
  CutUsed = FALSE
  target_queue_len = 1
  mixer_queue_len = 1
  MaxSources = 2
  MaxSinks = 0
  MaxFrames = 2
  MaxTicks = 2
SYMMETRY SourceSymmetry
INVARIANTS SlotsAgree TallyNotStale
PROPERTIES SystemKept
\* ~mixer ends the program.
CHECK_DEADLOCK FALSE
