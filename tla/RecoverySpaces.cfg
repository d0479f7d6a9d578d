SPECIFICATION FairSpec
CONSTANTS
  Spaces = {1, 2}
  MaxPn = 2
  Sizes = {1}
  MinWindow = 2
  BbrMinWindow = 2
  InitialWindow = 2
  LossDelays = {0}
  PtoBases = {2}
  Bbr = FALSE
  PeerAnswers = TRUE
  MaxFlight = 2
  MaxAge = 16
CHECK_DEADLOCK FALSE
PROPERTY EverySettled
