\* A miner with two workers.
SPECIFICATION HashrateFairSpec
CONSTANTS
  m1 = m1
  w1 = w1
  w2 = w2
  Logins = {m1}
  Workers = {w1, w2}
  Window = 1
  LargeWindow = 3
  Expiration = 3
  Millis = {0}
  MinOnline = 1
  CacheIntv = 1
  MaxTime = 4
  MaxShares = 2
  MaxFaults = 1
INVARIANTS
  StatisticsTrue
  AnswerRecent
PROPERTIES
  CatchesUp
CHECK_DEADLOCK FALSE
