SPECIFICATION FairSpec
CONSTANTS
  Sessions = {1, 2, 3}
  NoSession = 0
  QueueSize = 1
CONSTRAINT Scope
INVARIANTS
  TypeOK
  OneBracket
  FramesInBracket
PROPERTIES
  NewestWins
  ReplacementProceeds
