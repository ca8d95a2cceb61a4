\* As Unlocker.cfg, but the unchecked read of the credit log may fail.
SPECIFICATION Spec
CONSTANTS
  FeeUnit = 10
  NoAddress = NoAddress
  b1 = b1
  b2 = b2
  alice = alice
  bob = bob
  pool = pool
  Pool = Pool
  Lower <- MCLower
  Blocks = {b1, b2}
  Foreign = Foreign
  NoBlock = NoBlock
  Logins = {alice, bob, pool, Pool}
  RoundShares <- MCRoundShares
  CoinBaseValue <- MCCoinBaseValue
  BlkTotalFee <- MCBlkTotalFee
  Configs <- MCOneConfig
  ImmatureDepth = 1
  Depth = 2
  MaxReorg = 2
  MaxHeight = 5
  MaxRestarts = 0
  ReadErrors = TRUE
INVARIANTS
  ImmatureLedger
CHECK_DEADLOCK FALSE
