SPECIFICATION Spec
CONSTANTS
  n1 = n1
  n2 = n2
  g1 = g1
  g2 = g2
  g3 = g3
  h1 = h1
  a1 = a1
  a2 = a2
  NoDeployment = NoDeployment
  Lineage <- MCLineage
  Previous <- MCPrevious
  Assigned <- MCAssigned
  HeadNode <- MCHead
  Artifact <- MCArtifact
  Node = {n1, n2}
  Deployment = {g1, g2}
  Recommended = {g1}
  Strict = {}
  InitVerified = {g1}
  InitAccepted = {g2}
  Requests = {"VERIFY", "ROLLBACK", "CANCEL"}
  Departing = {n1}
  Corruptible = {n1}
  ServeOptions = {FALSE}
  MaxOps = 1
  MaxDirect = 0
  MaxAttempts = 2
  LeaseTicks = 1
INVARIANTS LiveBoundTaskIsCurrent PhasesInOrder
PROPERTIES VerifiedByEveryNode SettledStaysSettled QueuedOnlyWhenPrepared ExpiredAttemptNeverRevived
CHECK_DEADLOCK FALSE
