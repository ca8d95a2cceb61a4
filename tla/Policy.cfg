\* Two sessions of one address while resetStats goes round.
SPECIFICATION PolicyFairSpec
CONSTANTS
  ip = ip
  s1 = s1
  s2 = s2
  Ips = {ip}
  Sessions = {s1, s2}
  IpOf <- MCSameIp
  Timeout = 2
  ResetInterval = 2
  CheckThreshold = 2
  InvalidPercent = 100
  MalformedLimit = 2
  Limit = 1
  LimitJump = 1
  ChannelSize = 1
  MaxOffences = 2
  MaxConnects = 0
  ObjIds = {1, 2, 3, 4}
INVARIANTS
  BanHolds
  CountsBounded
  LimitEnforced
PROPERTIES
  BanEnds
  SendEnds
CHECK_DEADLOCK FALSE
