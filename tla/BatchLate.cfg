CONSTANTS
  w1 = w1
  w2 = w2
  vehicles = vehicles
  heavy = heavy
  nightly = nightly
  Absent = Absent
  Windows <- TwoWindows
  Payloads <- OneWindow
  DataKinds <- OneKind
  Yields <- Rows
  AlertsCapable = TRUE
  Tasks <- TwoTasks
  Stages <- TaskStages
  Ephemeral = {nightly}
  MayForce = {heavy}
  MaxStarts <- Reruns
  MaxFaults = 1
SPECIFICATION Spec
CHECK_DEADLOCK FALSE
PROPERTY NothingUnarchivedIsEverRemoved
