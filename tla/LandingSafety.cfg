CONSTANTS
  f1 = f1
  f2 = f2
  a = a
  b = b
  NoDigest = NoDigest
  Feeds <- OneFeed
  Digests <- TwoDigests
  Window = 2
  Day = 4
  Grace = 1
  MaxDelay = 1
  Horizon = 7
  MaxPolls = 2
  MaxFaults = 1
SPECIFICATION Spec
CHECK_DEADLOCK FALSE
SYMMETRY DigestSymmetry
INVARIANTS
  UploaderTypeOK
  RawBeforeMetadata
  MarkedRowsHandedOff
  LeftoversAreCopies
  DrainShipsClosedWindows
  ReferencesResolve
PROPERTIES
  PayloadsHandedOff
  SlicesHandedOff
