SPECIFICATION FairSpec
CONSTANTS
  n1 = n1
  n2 = n2
  NONE = NONE
  Names <- TwoNames
  Absent = NONE
  PageSize = 2
  MaxRetries = 2
  QueueLimit = 1
  Unsleepable <- OneName
  MaxBatch = 2
  MaxRecords = 2
  MaxFaults = 1
CHECK_DEADLOCK FALSE
INVARIANTS
  TypeOK
  AtMostOneLatePoll
  PublishedKept
PROPERTIES
  EverySourcePolled
