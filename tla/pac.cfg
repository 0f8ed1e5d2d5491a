CONSTANTS
  NumPipelineLength = 3
  MaxMajorVersion = 1
  MaxMinorVersion = 1
  WorkerSetSize = 3
  HistoryCapacity = 4
  AlphaNum = 1
  AlphaDen = 2
  MaxSubmits = 4
  Pipelines <- MCPipelines
SPECIFICATION Spec
INVARIANTS
  TypeOK
  GrandSumIsOne
  LfuAligned
  LruInclusion
  HistoryIsRecent
PROPERTIES
  EvictsLeast
CHECK_DEADLOCK FALSE
