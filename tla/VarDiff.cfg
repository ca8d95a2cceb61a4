\* Two sessions that come, go and are adjusted down to nothing.
SPECIFICATION VarDiffFairSpec
CONSTANTS
  s1 = s1
  s2 = s2
  Sessions = {s1, s2}
  Pow = 1024
  Difficulty = 30
  ExpectShareCount = 5
INVARIANTS
  JudgedNotHarder
PROPERTIES
  SinksToPanic
CHECK_DEADLOCK FALSE
