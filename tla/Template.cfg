\* The timer and a session fetch from a node that gets new blocks; one failure or panic.
SPECIFICATION FairSpec
CONSTANTS
  timer = timer
  session = session
  u1 = u1
  genesis = genesis
  top = top
  NoBlock = NoBlock
  x = x
  y = y
  Fetchers = {timer, session}
  Timer = timer
  Upstreams = {u1}
  Blocks = {genesis, top}
  HeightOf <- MCHeightOf
  TxSets = {{x}, {x, y}}
  Interval = 1
  MaxTime = 1
  MaxPushes = 2
  MaxFailures = 1
INVARIANTS
  JobsConsistent
  ValidIsBuildable
  JobsStayValid
PROPERTIES
  
  TemplateCatchesUp
CHECK_DEADLOCK FALSE
