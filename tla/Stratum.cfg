\* Three connections, two tags, one death of the process.
SPECIFICATION StratumFairSpec
CONSTANTS
  c1 = c1
  c2 = c2
  c3 = c3
  Conns = {c1, c2, c3}
  MaxConn = 2
  TagRange = 2
  MaxPanics = 1
INVARIANTS
  TagsConserved
  NoncesDistinct
  NothingLeaks
PROPERTIES
  WaitingIsServed
CHECK_DEADLOCK FALSE
