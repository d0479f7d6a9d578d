SPECIFICATION FairSpec
CONSTANTS
  Timed = {"server"}
  Retry = TRUE
  MaxNet <- TwoEach
CHECK_DEADLOCK FALSE
INVARIANTS FlightsKept DiscardedInTime
PROPERTIES Completes
