SPECIFICATION Spec
CONSTANTS
  e1 = e1
  e2 = e2
  e3 = e3
  s1 = s1
  s2 = s2
  malformed = malformed
  NULL = NULL
  EventIds <- ServingIds
  BadId = malformed
  Sources <- MCSources
  RefusedNames = {}
  Null = NULL
  Times <- ServingTimes
  Events <- AnonymousEvents
  Queries = {"metrics", "raw"}
  WindowLength = 1
  EventDelay = 2
  IngestDelay = 1
  MaxEvents = 3
  MaxCrashes = 0
  MaxOutages = 0
CHECK_DEADLOCK FALSE
INVARIANTS
  NeverCrashesByItself
