SPECIFICATION Spec
CONSTANTS
  Streams = {s1}
  Writers = {"client"}
  Closers = {"client"}
  Timed = {"client", "server"}
  MaxWrite <- Two
  Budget = 2
  Cwnd <- One
  InitialMaxData <- One
  InitialMaxStream = 1
  Increment = 1
  MaxCredit = 3
  MaxStreamCredit = 2
  Pn <- OneNumber
  Duplicates = FALSE
CHECK_DEADLOCK FALSE
INVARIANTS TypeOK EofMeansAll NothingForgotten WithinCredit
PROPERTY ImplementsByteStream

