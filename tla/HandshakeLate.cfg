SPECIFICATION Spec
CONSTANTS
  Timed = {"client", "server"}
  Retry = FALSE
  MaxNet <- TwoFromServer
CHECK_DEADLOCK FALSE
INVARIANTS LateIgnored
