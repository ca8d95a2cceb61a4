\* Two broadcasts at once through a channel of one place.
SPECIFICATION FairSpec
CONSTANTS
  s1 = s1
  s2 = s2
  b1 = b1
  b2 = b2
  Sessions = {s1, s2}
  Broadcasters = {b1, b2}
  Capacity = 1
INVARIANTS
  NobodyForgotten
PROPERTIES
  NobodyStuck
CHECK_DEADLOCK FALSE
