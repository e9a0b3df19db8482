SPECIFICATION FairSpec
CONSTANTS
  u1 = u1
  u2 = u2
  pen = pen
  NoQuery = NoQuery
  Records <- MCRecords
  Loaded <- MCLoaded
  MaxLog <- MCMaxLog
  Matches <- MCMatches
  TopN = 1
  MaxJobs = 2
  MaxRuns = 1
  MaxFaults = 1
CHECK_DEADLOCK FALSE
INVARIANTS
  IInv
  OutputIsCurrent
  PublishedIsOneOutput
PROPERTIES
  EverythingReachesHdfs
