SPECIFICATION Spec
CONSTANTS
  Streams = {s1}
  Writers = {"client", "server"}
  Closers = {"client", "server"}
  Timed = {"client", "server"}
  MaxWrite <- One
  Budget = 2
  Cwnd <- One
  InitialMaxData <- Two
  InitialMaxStream = 1
  Increment = 1
  MaxCredit = 2
  MaxStreamCredit = 1
  Pn <- OneNumber
  Duplicates = TRUE
CHECK_DEADLOCK FALSE
INVARIANTS NothingForgotten AgainOnlyWhenDone
