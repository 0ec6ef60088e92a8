SPECIFICATION FairSpec
CONSTANTS
  Source = {s1}
  Sink = {k1, k2}
  Recorder = {k1}
  NULL = NULL
  System = {"625/50", "525/60"}
  Aspect = {"normal", "wide"}
  SampleRate = {"48k", "32k"}
  FrameFormat <- OneSystem
  Format <- NoFormat
  VideoMix <- NoMix
  AudioId = {}
  RecordFlag = {TRUE}
  CutUsed = TRUE
  target_queue_len = 1
  mixer_queue_len = 1
  MaxSources = 1
  MaxSinks = 2
  MaxFrames = 1
  MaxTicks = 2
INVARIANTS RecordersCounted CutKeptOrDropped
PROPERTIES SinksConsecutive MixedEventually ClockHeeds
\* ~mixer ends the program.
CHECK_DEADLOCK FALSE
