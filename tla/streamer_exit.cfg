SPECIFICATION Spec
CONSTANTS
  Recv = Recv
  Main = Main
  NoRun = NoRun
  NoTarget = NoTarget
  Runs = {r1, r2}
  Targets = {t1}
  MaxFaults = 0
  MaxMoves = 0
INVARIANT AreaReleasedAtExit
