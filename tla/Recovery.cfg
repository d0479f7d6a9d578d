SPECIFICATION Spec
CONSTANTS
  Spaces = {2}
  MaxPn = 3
  Sizes = {1, 2}
  MinWindow = 2
  BbrMinWindow = 4
  InitialWindow = 7
  LossDelays = {1, 3}
  PtoBases = {3}
  Bbr = FALSE
  PeerAnswers = TRUE
  MaxFlight = 3
  MaxAge = 12
CHECK_DEADLOCK FALSE
INVARIANTS InFlightExact WindowFloor
PROPERTY HalvedAtMost
