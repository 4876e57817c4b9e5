SPECIFICATION Spec
CONSTANTS
  s1 = s1
  s2 = s2
  NONE = NONE
  Sources <- TwoSources
  None = NONE
  Metrics <- SomeMetrics
  MaxCalls = 2
  MaxOverlaps = 1
  MaxFaults = 0
PROPERTIES
  DrawsTheSelected
