SPECIFICATION FairSpec
CONSTANTS
  q1 = q1
  q2 = q2
  Partitions = {q1, q2}
  Schemas = {1}
  Ids <- MCIds
  Foreign <- MCForeign
  Limits = {0, 2}
  MaxLog = 3
  MaxRuns = 2
  MaxFaults = 1
INVARIANTS
  IInv
  ExitsAreEarned
PROPERTIES
  EveryRunEnds
