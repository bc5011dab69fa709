SPECIFICATION Spec
CONSTANTS
  n1 = n1
  n2 = n2
  g1 = g1
  g2 = g2
  h1 = h1
  a1 = a1
  Node = {n1, n2}
  Deployment = {g1, g2, h1}
  Artifact = {a1}
  NoDeployment = NoDeployment
  Previous <- MCPrevious
  Assigned <- MCAssigned
  Identity <- MCIdentity
  Staged = {a1}
  InitAccepted = {}
  Departing = {n1}
  Fragile = {a1}
  MaxTasks <- MCMaxTasks
  MaxAttempts <- MCMaxAttempts
  Chunks = 1
INVARIANTS TypeOK ReadyIsBacked QuarantinedIsUnused AttemptsAgree
PROPERTIES ReadyOnlyByCurrentSuccess EndedStaysEnded
CHECK_DEADLOCK FALSE
