SPECIFICATION FairSpec
CONSTANTS
  m1 = m1
  m2 = m2
  q1 = q1
  q2 = q2
  Members = {m1, m2}
  Partitions = {q1, q2}
  WithBad = TRUE
  MaxLog = 3
  MaxFaults = 1
  BatchSize = 2
INVARIANTS
  IInv
  RepeatsNeedRebalance
PROPERTIES
  CommitsAdvance
  AllButARestIsProcessed
