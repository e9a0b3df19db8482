SPECIFICATION FairSpec
CONSTANTS
  k1 = k1
  k2 = k2
  k3 = k3
  Keys = {k1, k2, k3}
  Partitions = 2
  PartitionOf <- MCPartitionOf
  Files <- MCFiles
  MaxRecords = 3
  MaxRuns <- MCMaxRuns
  MaxLists = 1
  MaxFaults = 1
CHECK_DEADLOCK FALSE
INVARIANTS
  IInv
  ListIsRight
PROPERTIES
  ListsEnd
