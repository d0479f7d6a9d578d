SPECIFICATION FairSpec
CONSTANTS
  c1 = c1
  c2 = c2
  d1 = d1
  d2 = d2
  Actors = {a1, a2}
  Dcids = {c1, c2}
  Addrs = {d1, d2}
  Unknown = unknown
  Openers <- SomeOpeners
  None = None
  RouterCap = 1
  PacketCap = 1
INVARIANTS TypeOK Reachable NoneForgotten
PROPERTY DrainEnds
CHECK_DEADLOCK FALSE
