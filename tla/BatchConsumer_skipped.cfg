SPECIFICATION Spec
CONSTANTS
  m1 = m1
  m2 = m2
  q1 = q1
  q2 = q2
  Members = {m1}
  Partitions = {q1}
  WithBad = TRUE
  MaxLog = 4
  MaxFaults = 0
  BatchSize = 2
INVARIANTS
  BadIsNotCommitted
