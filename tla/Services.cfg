CONSTANTS
  f1 = f1
  f2 = f2
  a = a
  b = b
  NoDigest = NoDigest
  Feeds <- OneFeed
  Digests <- OneDigest
  Window = 1
  Day = 2
  Grace = 1
  MaxDelay = 1
  Horizon = 6
  MaxPolls = 1
  MaxFaults = 2
  p1 = p1
  p2 = p2
  p3 = p3
  Pairs <- ThreePairs
  MaxWorkers = 2
  MaxAttempts = 3
  k1 = k1
  k2 = k2
  k3 = k3
  Objects <- ThreeObjects
  Chunks = 2
  ChunkOf <- TwoChunks
  MaxRetries = 2
  Capacity = 5
  Refill = 2
  Cost = 3
  RateHorizon = 7
  amtrak = amtrak
  bart = bart
  sncf = sncf
  mars = mars
  Unmapped = Unmapped
  NoPin = NoPin
  NoKey = NoKey
  Agencies <- FourAgencies
  Timezones <- FleetTimezones
  Pins <- FleetPins
  HashOf <- FleetHashes
  KeyOf <- FleetKeys
  Boxes <- TwoBoxes
  ContinentOf <- FleetContinents
  ShardCount <- FleetCounts
  ShardsOf <- FleetShards
  MaxConfigs = 3
  MaxVersion = 1
  metro = metro
  ferry = ferry
  x1 = x1
  x2 = x2
  y1 = y1
  vehicles = vehicles
  updates = updates
  stops = stops
  trips = trips
  schedule = schedule
  alerts = alerts
  Groups <- TwoGroups
  OutputsOf <- StageFiles
  TripUpdates = updates
  GoldReads <- SilverRead
  Menus <- NightMenus
  Workers = 1
  MaxNights = 2
  MaxMishaps = 2
SPECIFICATION ServicesSpec
CHECK_DEADLOCK FALSE
INVARIANTS
  RateBound
  PoolConsistent
  FleetConsistent
  ChainSound
PROPERTIES
  RecentWindowsShip
  MarkersOutliveLookback
  EveryCallEnds
  KeepsDeletionPromise
  NoKeyLost
