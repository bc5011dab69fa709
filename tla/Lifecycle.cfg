SPECIFICATION Spec
CONSTANTS
  n1 = n1
  n2 = n2
  g1 = g1
  g2 = g2
  g3 = g3
  h1 = h1
  a1 = a1
  a2 = a2
  NoDeployment = NoDeployment
  Lineage <- MCLineage
  Previous <- MCPrevious
  Assigned <- MCAssigned
  HeadNode <- MCHead
  Artifact <- MCArtifact
  Node = {n2}
  Deployment = {g1, g2, g3, h1}
  Recommended = {g2}
  Strict = {}
  InitVerified = {g1}
  InitAccepted = {h1}
  Requests = {"ACCEPT", "APPLY", "START", "ROLLBACK", "UNJOIN", "PREPARE", "CANCEL"}
  Departing = {n2}
  Corruptible = {n2}
  ServeOptions = {FALSE}
  MaxOps = 2
  MaxDirect = 1
  MaxAttempts = 1
  LeaseTicks = 1
INVARIANTS TypeOK OneLeasePerNode ActiveRollbackStaysValid RowsAgree ActiveOperationsDisjoint DeploymentTasksExclusive
CHECK_DEADLOCK FALSE
