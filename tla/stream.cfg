SPECIFICATION MCSpec
CONSTANTS
  Handlers = {h1, h2}
  EntertainmentMode = TRUE
  RecoveryEnabled = TRUE
  MaxInputs = 5
INVARIANTS
  StreamUpWins
  FallbackHasNoWatchdog
  NoConfirmWhileLatched
  NoticeMatchesEpisode
  DeactivationCancels
PROPERTIES
  LatchIsCurrent
  WatchdogEnds
  ArmedActivationResolves
