SPECIFICATION RepairSpec
CONSTANTS
  n1 = n1
  n2 = n2
  g1 = g1
  g2 = g2
  g3 = g3
  h1 = h1
  a1 = a1
  a2 = a2
  NoDeployment = NoDeployment
  Lineage <- MCLineage
  Previous <- MCPrevious
  Assigned <- MCAssigned
  HeadNode <- MCHead
  Artifact <- MCArtifact
  Node = {n2}
  Deployment = {g1, g2, h1}
  Recommended = {g1, h1}
  Strict = {}
  InitVerified = {g1}
  InitAccepted = {g2}
  Requests = {"PREPARE", "ROLLBACK"}
  Departing = {}
  Corruptible = {n2}
  ServeOptions = {FALSE}
  MaxOps = 1
  MaxDirect = 0
  MaxAttempts = 3
  LeaseTicks = 1
PROPERTIES FailedRollbackIsRetried
CHECK_DEADLOCK FALSE
