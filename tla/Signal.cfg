\* The calculations: every subject of MCSignal.
SPECIFICATION SignalSpec
CONSTANTS
  Ms = {300, 510, 1000, 2000, 15000}
  FrameMs = {33, 40}
  Drift <- DriftBothWays
  FirstTick = {10000000}
  Stall = {100, 200}
  LastUpset = 20
  MaxTicks = 120
CHECK_DEADLOCK FALSE
INVARIANTS
  AudioSurvives
  TimesRecorded
  EffectsRight
  DisplayFits
  FadeTimed
  ClockKeepsStep
