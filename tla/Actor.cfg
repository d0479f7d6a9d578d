SPECIFICATION FairSpec
CONSTANTS
  Streams = {s1}
  Size = 2
  PacketCap = 1
  ChanCap = 2
  Resets = {s1}
  EarlyReturn = {"return", "close"}
  Late = TRUE
  Steady = TRUE
  Shutdown = TRUE
CHECK_DEADLOCK FALSE
INVARIANTS NoLostWakeup EndAfterAll NoResponseDropped
PROPERTIES Answered CloseEndsActor
