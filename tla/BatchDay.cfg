CONSTANTS
  w1 = w1
  w2 = w2
  vehicles = vehicles
  heavy = heavy
  nightly = nightly
  Absent = Absent
  Windows <- TwoWindows
  Payloads <- OneWindow
  DataKinds <- OneKind
  Yields <- Rows
  AlertsCapable = TRUE
  Tasks <- TwoTasks
  Stages <- TaskStages
  Ephemeral = {nightly}
  MayForce = {heavy}
  MaxStarts <- Reruns
  MaxFaults = 1
  PartitionKeys <- TwoPartitions
  MetadataDays <- SomeDays
  RewriteWorkers = 2
  MaxShipments = 2
  MaxRewrites = 2
  MaxRewriteFaults = 1
  Columns <- FourColumns
  Stamp = "feed_timestamp"
  FlatColumns <- HadFlatNames
  CuratedFiles <- TwoPartitions
  EraFiles <- SomeEraFiles
  NoData = NoData
  MaxMigrations = 2
  MaxMigrationFaults = 1
SPECIFICATION ArchiveSpec
CHECK_DEADLOCK FALSE
INVARIANTS
  BatchTypeOK
  NothingUnarchivedIsRemoved
  PrunedInputWasProcessed
  MarkersTrue
  ColdFirst
  NoRawIsForgotten
  RewriteSound
  MigrationSound
