SPECIFICATION FairSpec
CONSTANTS
  Handlers = {h1}
  EntertainmentMode = TRUE
  RecoveryEnabled = TRUE
  MaxInputs = 4
PROPERTIES
  ConfirmedActivationResolves
