SPECIFICATION MCSpec
CONSTANTS
  Lights = {l1, l2}
  Offered = {l1, l2}
  Drains = {d1, d2}
  NoDrain = NoDrain
  FirstDrain = d1
  FirstLight = l1
  MaxWrites = 2
INVARIANTS
  TypeOK
  OneDrain
  FenceIsFinal
  DrivenLightsEndOff
PROPERTIES
  NoStaleOverwrite
  WritesSettle
