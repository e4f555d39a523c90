SPECIFICATION FairSpec
CONSTANTS
  Lamps = {l1, l2}
  EntertainmentMode = TRUE
  IdleOffRest = 2
  IdleOffEntertainment = 1
  ControlledLightWindow = 1
  Margin = 1
  MaxFaults = 1
  MaxChanges = 1
  MaxSlow = 1
PROPERTIES
  LastDrivenTargeted
  SilentMeansOff
