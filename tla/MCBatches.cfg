SPECIFICATION FairSpec
CONSTANTS
  FileBatches <- Mixed
  PathOf <- Paths
  SourceOf <- Sources
  Concurrency = 2
  SplitMaxDepth = 1
INVARIANTS FilesInOnePlace AnalyzedFilesHaveResults SignalFollowsMainPass
PROPERTIES NoProcessOutlivesItsPass RescueOnlyImproves ProgressIsHonest EveryPassEnds
CHECK_DEADLOCK FALSE
