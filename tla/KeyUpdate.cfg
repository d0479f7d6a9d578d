SPECIFICATION FairSpec
CONSTANT MaxGen = 2
INVARIANTS PhaseIsParity InStep StaysOpen
PROPERTY UpdateIsFollowed
CHECK_DEADLOCK FALSE
