CONSTANTS
  Absent = Absent
  Unset = Unset
  NoDigest = NoDigest
  Null = Null
  Feeds <- PollFeeds
  Digests <- PollDigests
  Window = 2
  Day = 2
  Grace = 0
  MaxDelay = 1
  Horizon = 2
  MaxPolls = 2
  MaxFaults = 2
  Stages = {"gold"}
  GoldRuns <- BatchGoldRuns
  f1 = f1
  f2 = f2
  a = a
  b = b
  Contents <- TwoContents
  MaxLines = 4
  MaxTears = 1
  MaxTars = 3
  Messages <- SomeMessages
  Documents <- SomeDocuments
  HalfDay = 2
  MaxBins = 2
  MaxPayloads = 2
  TripRows <- SomeTripRows
  MaxRows = 3
  CompactBatch = 2
  MergeBatch = 1
  MaxRollups = 2
  Archives <- SomeArchives
  Whole <- WholeArchive
  AskedDates = {1, 2}
  ArchiveOf <- ImportedArchives
  FeedScopes <- TwoScopes
  ServiceDates = {1, 2}
  Spans <- ImportedSpans
  MaxCrawls = 2
  MaxRuns = 2
  MaxDeaths = 1
  MaxSyncs = 2
  Agencies <- TwoAgencies
  FeedsOf <- FeedsOfBoth
  TripUpdatesOnly = {"at"}
  Normalizable = {"av"}
  Located = {"a"}
  Yields <- GoldYields
  MaxLoads = 2
  MaxGoldRuns = 2
  MaxGoldDeaths = 1
  PingFeeds <- ThreeFeeds
  Static <- DayStatic
  GoldDate = 1
  DayLength = 3
  MergeGap = 1
  EarlyThreshold = 0
  LateThreshold = 1
  MaxTransit = 3
  MaxPings = 3
  MaxTime = 4
  Lateness = 1
  MartaKeys <- Countdowns
  MartaLines <- CountdownLines
  MaxWait = 2
  SplitGap = 2
  MaxPredictions = 3
SYMMETRY Symmetric
SPECIFICATION PipelineSpec
CHECK_DEADLOCK FALSE
INVARIANT
  OneSourcePerAgency
