SPECIFICATION ReadersSpec
CONSTANTS
  r1 = r1
  r2 = r2
  k1 = k1
  k2 = k2
  k3 = k3
  s1 = s1
  s2 = s2
  NULL = NULL
  Null = NULL
  Ids <- TwoRecords
  Times <- TwoTimes
  Limit = 1
  MaxBatches = 3
  MaxWindow = 2
  Keys <- ThreeKeys
  PageTimes <- FourTimes
  PageSize = 1
  MaxWrites = 3
  RecordIds <- TwoRecords
  Fresh = 3
  Period = 3
  RetryDelay = 1
  Retention = 4
  Day = 6
  Skews <- MCSkews
  MaxTime = 11
  Sources <- TwoSources
  MaxDay = 3
  MaxCount = 2
  MaxClears = 2
  FieldOrder <- MCFieldOrder
  IdFields <- MCIdFields
  Json <- MCJson
  Responses <- MCResponses
  Values <- MCValues
  Recent = 7
SYMMETRY Symmetry
CHECK_DEADLOCK FALSE
INVARIANTS
  TotalCoversData
  NotStale
  QualityTotalOfAMoment
  NothingSkipped
  FreshMeansProcessed
  StaleIsNoticed
  SummaryNeverAhead
  TablesReadBack
  ApprovedFieldsArrive
  AnomaliesByRank
  TrendFollowsAverages
PROPERTIES
  SummaryOnlyGrows
