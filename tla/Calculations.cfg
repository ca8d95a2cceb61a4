\* Every split of a reward up to 5 + 1 satoshi among up to three logins, two of
\* which differ in capitals only; heights and lengths on both sides of every change
\* of encoding.
SPECIFICATION CalculationsSpec
CONSTANTS
  FeeUnit = 3
  NoAddress = NoAddress
  alice = alice
  bob = bob
  Bob = Bob
  Miners = {alice, bob, Bob}
  Lower <- MCLower
  MaxShares = 3
  MaxReward = 5
  MaxTxFee = 1
  Heights = {17, 127, 128, 255, 256, 32767, 32768, 65535, 65536, 700000, 8388607, 8388608}
  Times = {1600000000, 2147483647}
  FlagLengths = {0, 2}
  ExtraLengths = {0, 7, 100, 225, 230, 252, 253}
  CommitmentLengths = {0, 5, 38}
  Wallets = {0, 2, 5, 48}
INVARIANTS
  SplitIsAccurate
  HeightFirst
  ReadAsMeant
CHECK_DEADLOCK FALSE
