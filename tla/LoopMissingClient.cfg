CONSTANTS
  f1 = f1
  f2 = f2
  f3 = f3
  limited = limited
  other = other
  Feeds <- ThreeFeeds
  AgencyOf <- Agencies
  Base <- Intervals
  Clients <- OneClient
  Limited <- LimitedAgencies
  Workers = 2
  Polls = 4
  Jitter = 0
  BackoffCap = 2
  QuarantineAfter = 2
  QuarantineInterval = 3
  Capacity = 4
  Refill = 1
  Cost = 2
  Horizon = 4
SPECIFICATION Spec
CHECK_DEADLOCK FALSE
INVARIANT OnlyStopEndsTheLoop
