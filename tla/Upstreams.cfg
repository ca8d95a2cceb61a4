\* Two nodes, two callers; from any start, a node or Redis goes or comes back once.
SPECIFICATION UpstreamsFairSpec
CONSTANTS
  c1 = c1
  c2 = c2
  Callers = {c1, c2}
  N = 2
  Threshold = 3
  MaxFails = 2
  MaxFlips = 1
PROPERTIES
  RecoversOnAnswers
  Settles
CHECK_DEADLOCK FALSE
