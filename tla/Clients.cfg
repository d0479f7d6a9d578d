SPECIFICATION Spec
CONSTANTS
  Programs <- GoScripts
  TestPrograms <- GoTests
  Servers <- GoServers
  Workers = 2
  MaxReqs = 2
  Conns = 3
  Slots = 1
INVARIANTS
  Counted
  Bounded
  ExitTells
  LeftBehind
PROPERTIES
  ProgramEnds
