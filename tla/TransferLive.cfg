SPECIFICATION FairSpec
CONSTANTS
  Streams = {s1}
  Writers = {"client", "server"}
  Closers = {"server"}
  Timed = {"server"}
  MaxWrite <- One
  Budget = 2
  Cwnd <- LiveCwnd
  InitialMaxData <- LiveMaxData
  InitialMaxStream = 1
  Increment = 1
  MaxCredit = 3
  MaxStreamCredit = 1
  Pn <- LivePn
  Duplicates = FALSE
CHECK_DEADLOCK FALSE
PROPERTY EndIsSeen
