SPECIFICATION RecoverySpec
CONSTANTS
  e1 = e1
  e2 = e2
  e3 = e3
  s1 = s1
  s2 = s2
  malformed = malformed
  NULL = NULL
  EventIds <- LakeIds
  BadId = malformed
  Sources <- MCSources
  RefusedNames = {}
  Null = NULL
  Times <- LakeTimes
  Events <- WindowEvents
  Queries = {"aggregates", "metrics"}
  WindowLength = 1
  EventDelay = 2
  IngestDelay = 1
  MaxEvents = 3
  MaxCrashes = 1
  MaxOutages = 0
  MaxVersions = 2
  Renewals <- Paths
CHECK_DEADLOCK FALSE
INVARIANTS
  TypeOK
  OpenWindowsExact
  OpenMetricsExact
PROPERTIES
  ClosedWindowsFrozen
  CountsNeverShrink
