CONSTANTS
  f1 = f1
  f2 = f2
  a = a
  b = b
  NoDigest = NoDigest
  Feeds <- MCFeeds
  Digests <- MCDigests
  Window = 1
  Day = 1
  Grace = 0
  MaxDelay = 1
  Horizon = 1
  MaxPolls = 3
  MaxFaults = 2
SYMMETRY Symmetric
SPECIFICATION PollSpec
CHECK_DEADLOCK FALSE

INVARIANT EveryRowResolves
