SPECIFICATION FairSpec
CONSTANTS
  Lamps = {1, 2, 3}
  Colour = {1, 2, 3}
  Serviced = {1, 3}
  IDs = {1, 2, 3, 4, 5}
  Foreign = {0}
  Zones = {{1}, {1, 2}, {3}}
  NoID = NoID
  All = All
  MaxFaults = 2
  MaxEvents = 3
INVARIANTS
  NoDuplicate
  ForeignUntouched
PROPERTIES
  Converges
  Resolves
