SPECIFICATION FramesSpec
CONSTANTS
  Lamps = {1, 258}
  ProChannels = {0, 255}
  Values = {0, 700}
  MedianWindow = 2
  MedianThreshold = 300
  AlphaNum = 2
  AlphaDen = 5
  Settle = 3
  MaxFrames = 4
  MaxSessions = 2
  MaxZones = 1
INVARIANTS
  OwnColours
  SpikesDropped
  SteadyShown
CHECK_DEADLOCK FALSE
