\* Two blocks, reorganisations as deep as Depth, one restart with another configuration;
\* the timer loop goes on.
SPECIFICATION FairSpec
CONSTANTS
  FeeUnit = 10
  NoAddress = NoAddress
  b1 = b1
  b2 = b2
  alice = alice
  bob = bob
  pool = pool
  Pool = Pool
  Lower <- MCLower
  Blocks = {b1, b2}
  Foreign = Foreign
  NoBlock = NoBlock
  Logins = {alice, bob, pool, Pool}
  RoundShares <- MCRoundShares
  CoinBaseValue <- MCCoinBaseValue
  BlkTotalFee <- MCBlkTotalFee
  Configs <- MCConfigs
  ImmatureDepth = 1
  Depth = 2
  MaxReorg = 2
  MaxHeight = 5
  MaxRestarts = 1
  ReadErrors = FALSE
INVARIANTS
  SettledMatchesChain
  LedgersBalance
  CreditsMatchOutcome
PROPERTIES
  ImplementsLifecycle
  BuriedIsSettled
CHECK_DEADLOCK FALSE
