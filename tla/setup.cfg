SPECIFICATION FairSpec
CONSTANTS
  Names = {n1, n2}
  DeviceTypes = {tv}
  Pros = {p1, p2}
  NoPro = NoPro
  EntIDs = {e1}
  NoEnt = NoEnt
  NoFile = NoFile
  NoOne = NoOne
  Handlers = {h1, h2}
  MaxCrashes = 2
  MaxFails = 1
INVARIANTS
  FileIsComplete
  AckedAuthorised
PROPERTIES
  StoreIsAtomic
  WizardFinishes
