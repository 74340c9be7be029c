CONSTANTS
  f1 = f1
  f2 = f2
  a = a
  b = b
  NoDigest = NoDigest
  Feeds <- OneFeed
  Digests <- OneDigest
  Window = 1
  Day = 2
  Grace = 1
  MaxDelay = 1
  Horizon = 4
  MaxPolls = 1
  MaxFaults = 1
SPECIFICATION PromptSpec
CHECK_DEADLOCK FALSE
PROPERTIES
  EverythingShips
