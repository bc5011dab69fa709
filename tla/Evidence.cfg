SPECIFICATION Spec
CONSTANTS
  n1 = n1
  n2 = n2
  a1 = a1
  a2 = a2
  m1 = m1
  b1 = b1
  b2 = b2
  g = g
  None = None
  Node = {n1, n2}
  Gpu = {g}
  Generated = {a1, a2}
  Manual = {m1}
  Benchmark = {b1, b2}
  Qualification = {q1, q2}
  GpuOf <- MCGpuOf
  Site <- MCSite
  Of <- MCOf
  Request <- MCRequest
  Visits <- MCVisits
  Changing = {n1}
  MaxFaults = 1
SYMMETRY MCSymmetry
INVARIANTS TypeOK NodesUsedOnce RecordsAgree
PROPERTIES PromotionIsEarned
CHECK_DEADLOCK FALSE
