SPECIFICATION Spec
CONSTANTS
  n1 = n1
  n2 = n2
  n3 = n3
  n4 = n4
  c1 = c1
  c2 = c2
  c3 = c3
  v1 = v1
  p1 = p1
  p2 = p2
  p3 = p3
  NoFleet = NoFleet
  NoCommand = NoCommand
  NoVariant = NoVariant
  Fleet = {f1, f2}
  Candidate = {c1, c2, c3}
  Node = {n1, n2, n3, n4}
  Gpu = {p1, p2, p3}
  NodesOf <- MCNodesOf
  Head <- MCHead
  Rank <- MCRank
  Variant = {v1}
  VariantOf <- MCVariantOf
  GpuOf <- MCGpuOf
  Visits <- MCVisits
  Departing = {n3}
  MaxFaults = 1
INVARIANTS TypeOK GpuReservedOnce ReservedForFleetOnly ActiveIsVerified StatusesAgree
PROPERTIES NeverBackToPreparing
CHECK_DEADLOCK FALSE
