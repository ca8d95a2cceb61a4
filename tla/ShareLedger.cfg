\* Two sessions; two blocks in a row, a share of the second's key, and the same key again
\* as far up as the window and the lag reach.
SPECIFICATION FairSpec
CONSTANTS
  alice = alice
  bob = bob
  s1 = s1
  s2 = s2
  block = block
  share = share
  next = next
  late = late
  k1 = k1
  k2 = k2
  Sessions = {s1, s2}
  LoginOf <- MCLoginOf
  Works = {block, share, next, late}
  Keys = {k1, k2}
  KeyOf <- MCKeyOf
  HeightOf <- MCHeightOf
  Solves = {block, next}
  Diff = 2
  FirstHeight = 4
  MaxHeight = 8
  MaxLag = 1
  MaxFailures = 1
INVARIANTS
  NoDoubleCredit
  SameKeyApart
  RoundsAddUp
  AcceptedBlockRecorded
PROPERTIES
  AcceptedBlockIsRecorded
CHECK_DEADLOCK FALSE
