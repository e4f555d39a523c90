SPECIFICATION MCSpec
CONSTANTS
  Recv = Recv
  Main = Main
  NoRun = NoRun
  NoTarget = NoTarget
  Runs = {r1, r2}
  Targets = {t1, t2}
  FirstRun = r1
  FirstTarget = t1
  MaxFaults = 1
  MaxMoves = 1
INVARIANTS
  OneRun
  AreaReleased
  ConnsOwned
PROPERTIES
  StopReturns
  StreamEstablished
