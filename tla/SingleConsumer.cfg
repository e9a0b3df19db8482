SPECIFICATION SingleFairSpec
CONSTANTS
  m1 = m1
  m2 = m2
  q1 = q1
  q2 = q2
  Members = {m1, m2}
  Partitions = {q1, q2}
  WithBad = FALSE
  MaxLog = 3
  MaxFaults = 2
INVARIANTS
  SingleIInv
PROPERTIES
  SingleCommitsAdvance
  AllButLostIsHandled
