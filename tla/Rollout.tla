------------------------------ MODULE Rollout ------------------------------
(***************************************************************************)
(* Deployment operations of the dure control plane: generic APPLY and      *)
(* VERIFY bulks, the phased rollback of a generation to its predecessor,   *)
(* the per-node task queues that carry them, task leases, and the node     *)
(* membership changes (revoke, unjoin, rejoin) that cut across all three.  *)
(*                                                                         *)
(* Every action is one database transaction of control/rollout.py or       *)
(* control/service.py.  A transaction locks the Node, Task, Operation and  *)
(* Deployment rows it decides on, so it is one atomic step.  The claim     *)
(* endpoint alone reads Node.approved before claim_task takes any lock: it *)
(* is split into ClaimRequest and Claim.                                   *)
(***************************************************************************)
EXTENDS Integers, Sequences, FiniteSets

CONSTANTS
  Node, Deployment,
  NoDeployment,  \* previous_generation_id of a first generation
  Lineage,       \* [Deployment -> Deployment]: lineage_id, the root generation
  Previous,      \* previous_generation_id
  Assigned,      \* [Deployment -> SUBSET Node]: assignments of the plan
  HeadNode,      \* [Deployment -> Node]: ray_head_node_id of the plan
  Artifact,      \* [Deployment -> digest]: the exact cache the plan needs
  Recommended,   \* deployments created from a recommendation
  Strict,        \* deployments on the strict vLLM/Ray backend
  InitVerified,  \* generations verified before the behaviour starts
  InitAccepted,  \* generations accepted and prepared, not yet applied
  Requests,      \* the admin requests this instance issues
  Departing,     \* nodes that may be revoked or may unjoin
  Corruptible,   \* nodes whose caches a probe may find damaged
  ServeOptions,  \* values of the serve flag requests may carry
  MaxOps, MaxDirect, MaxAttempts, LeaseTicks  \* bounds of the instance

DirectTypes == {"START", "STOP", "RESTART"}
RequestTypes == DirectTypes \cup
  {"APPLY", "VERIFY", "UNJOIN", "ROLLBACK", "CANCEL", "ACCEPT", "PREPARE"}

ASSUME PlanAssumption ==
  /\ NoDeployment \notin Deployment
  /\ Lineage \in [Deployment -> Deployment]
  /\ Previous \in [Deployment -> Deployment \cup {NoDeployment}]
  /\ Assigned \in [Deployment -> SUBSET Node]
  /\ HeadNode \in [Deployment -> Node]
  /\ \A d \in Deployment : HeadNode[d] \in Assigned[d]
  /\ \A d \in Deployment :
       Previous[d] # NoDeployment => Lineage[Previous[d]] = Lineage[d]

ASSUME ScopeAssumption ==
  /\ Recommended \subseteq Deployment
  /\ Strict \subseteq Deployment
  /\ InitVerified \subseteq Deployment
  /\ InitAccepted \subseteq Deployment
  /\ Requests \subseteq RequestTypes
  /\ Departing \subseteq Node
  /\ Corruptible \subseteq Node
  /\ ServeOptions \subseteq BOOLEAN

ASSUME BoundAssumption ==
  /\ MaxOps \in Nat /\ MaxDirect \in Nat /\ MaxAttempts \in Nat
  /\ LeaseTicks \in Nat \ {0}

VARIABLES
  approved,  \* nodes with Node.approved
  joined,    \* nodes holding an unrevoked credential
  claiming,  \* nodes whose claim request has passed node_auth and approval
  accepted,  \* generations that exist
  status,    \* Deployment.status
  verified,  \* generations with verified_at
  prepared,  \* generations whose artifact preparation has SUCCEEDED
  ready,     \* <<node, artifact>> pairs whose cache row is READY
  tasks,     \* [Node -> Seq(Task)], each queue in created_at order
  ops        \* DeploymentOperation rows with their node records

membership == <<approved, joined, claiming>>
generations == <<accepted, status, verified>>
caches == <<prepared, ready>>
vars == <<membership, generations, caches, tasks, ops>>

----------------------------------------------------------------------------
(* Vocabulary *)

Phases == {"APPLY", "VERIFY", "STOP_SOURCE", "START_TARGET", "VERIFY_TARGET",
           "START_API", "VERIFY_API"}

PhaseTaskType ==
  [p \in Phases |->
     CASE p = "APPLY" -> "APPLY"
       [] p = "STOP_SOURCE" -> "STOP"
       [] p \in {"START_TARGET", "START_API"} -> "START"
       [] p \in {"VERIFY", "VERIFY_TARGET", "VERIFY_API"} -> "VERIFY"]

TaskTypes == DirectTypes \cup {"APPLY", "VERIFY", "UNJOIN"}
LiveStatus == {"QUEUED", "RUNNING"}
TaskStatus == LiveStatus \cup {"SUCCEEDED", "FAILED", "CANCELED"}
RecordStatus == TaskStatus \cup {"NONE", "PENDING"}  \* "NONE": no such row
Terminal == {"SUCCEEDED", "FAILED", "CANCELED"}
Failed == {"FAILED", "CANCELED"}

DeploymentStatus ==
  {"CREATED", "APPLYING", "VERIFYING", "APPLIED", "PARTIALLY_APPLIED",
   "VERIFIED", "PARTIALLY_VERIFIED", "APPLY_FAILED", "APPLY_PARTIAL_FAILED",
   "VERIFY_FAILED", "VERIFY_PARTIAL_FAILED", "ROLLING_BACK",
   "ROLLBACK_TARGET_PENDING", "ROLLBACK_FAILED", "ROLLED_BACK"}

(* A task bound to an operation names it (op > 0) with its phase and the   *)
(* attempt it carries out; op = 0 is a task no operation tracks.           *)
Task ==
  {t \in [type : TaskTypes, dep : Deployment \cup {NoDeployment}, op : Nat,
          phase : Phases \cup {"NONE"}, attempt : Nat, status : TaskStatus,
          lease : 0 .. LeaseTicks] : t.op # 0 <=> t.phase \in Phases}

Record == [status : RecordStatus, attempt : Nat]
OperationStatus ==
  {"PREPARED", "QUEUED", "RUNNING", "SUCCEEDED", "PARTIAL_FAILED", "FAILED"}
Operation ==
  {o \in [kind : {"APPLY", "VERIFY", "ROLLBACK"}, dep : Deployment,
          target : Deployment \cup {NoDeployment}, nodes : SUBSET Node,
          serve : BOOLEAN, active : BOOLEAN, phase : Phases \cup {"COMPLETE"},
          status : OperationStatus, rec : [Phases -> [Node -> Record]]] :
     o.kind = "ROLLBACK" <=> o.target # NoDeployment}

IsLive(t) == t.status \in LiveStatus
HasExpired(t) == t.status = "RUNNING" /\ t.lease = 0
TaskIds(n) == 1 .. Len(tasks[n])
LiveIds(n) == {i \in TaskIds(n) : IsLive(tasks[n][i])}
BoundLiveIds(n) == {i \in LiveIds(n) : tasks[n][i].op # 0}

----------------------------------------------------------------------------
(* Operation records *)

Direct(type, d) ==
  [type |-> type, dep |-> d, op |-> 0, phase |-> "NONE", attempt |-> 0,
   status |-> "QUEUED", lease |-> 0]

PhaseNodes(o, p) == {n \in Node : o.rec[p][n].status # "NONE"}
FailedNodes(o, p) == {n \in Node : o.rec[p][n].status \in Failed}

(* The node rows a new operation is created with: pn nodes in a phase with  *)
(* one row per node, the head in the API phases when the request serves.   *)
RowsOf(d, nodes, nodePhases, serve) ==
  [p \in Phases |-> [n \in Node |->
     IF \/ p \in nodePhases /\ n \in nodes
        \/ serve /\ p \in {"START_API", "VERIFY_API"} /\ n = HeadNode[d]
     THEN [status |-> "PENDING", attempt |-> 0]
     ELSE [status |-> "NONE", attempt |-> 0]]]

NewGeneric(kind, d, nodes, serve) ==
  [kind |-> kind, dep |-> d, target |-> NoDeployment, nodes |-> nodes,
   serve |-> serve, active |-> TRUE, phase |-> kind, status |-> "QUEUED",
   rec |-> RowsOf(d, nodes, {kind}, serve)]

NewRollback(s, serve) ==
  [kind |-> "ROLLBACK", dep |-> s, target |-> Previous[s],
   nodes |-> Assigned[s], serve |-> serve, active |-> FALSE,
   phase |-> "STOP_SOURCE", status |-> "PREPARED",
   rec |-> RowsOf(Previous[s], Assigned[s],
                  {"STOP_SOURCE", "START_TARGET", "VERIFY_TARGET"}, serve)]

(* The deployment a phase acts on. *)
PhaseDeployment(o, p) ==
  IF o.target = NoDeployment \/ p = "STOP_SOURCE" THEN o.dep ELSE o.target

Queued(o, p, nodes) ==
  [o EXCEPT !.phase = p, !.status = "QUEUED",
            !.rec[p] = [n \in Node |->
               IF n \in nodes
               THEN [status |-> "QUEUED", attempt |-> @[n].attempt + 1]
               ELSE @[n]]]

PhaseTask(k, o, n) ==
  [type |-> PhaseTaskType[o.phase], dep |-> PhaseDeployment(o, o.phase),
   op |-> k, phase |-> o.phase, attempt |-> o.rec[o.phase][n].attempt,
   status |-> "QUEUED", lease |-> 0]


(* _queue_phase: row o of operation k, in the operation table all, moves to  *)
(* phase p and one task per node is appended to the queues ts.             *)
QueuePhase(k, all, o, ts, p, nodes) ==
  LET q == Queued(o, p, nodes)
  IN  /\ ops' = [all EXCEPT ![k] = q]
      /\ tasks' = [n \in Node |-> IF n \in nodes
                                  THEN Append(ts[n], PhaseTask(k, q, n))
                                  ELSE ts[n]]

----------------------------------------------------------------------------
(* Preconditions of admin requests *)

IsLatest(d) == \A e \in accepted : Previous[e] # d

LineageIdleMutNoOps(d) ==
  \A n \in Node : \A i \in LiveIds(n) :
    tasks[n][i].type \in DirectTypes \cup {"APPLY"}
      => Lineage[tasks[n][i].dep] # Lineage[d]

(* _lock_deployment_lineage_for_task_creation: live VERIFY tasks are not     *)
(* mutations.                                                              *)
LineageIdle(d) ==
  /\ \A k \in 1 .. Len(ops) :
       ops[k].active => Lineage[ops[k].dep] # Lineage[d]
  /\ \A n \in Node : \A i \in LiveIds(n) :
       tasks[n][i].type \in DirectTypes \cup {"APPLY"}
         => Lineage[tasks[n][i].dep] # Lineage[d]

NodesIdleMutOpsOnly(nodes) ==
  \A k \in 1 .. Len(ops) : ops[k].active => ops[k].nodes \cap nodes = {}
NodesIdleMutTasksOnly(nodes) == \A n \in nodes : LiveIds(n) = {}

(* _ensure_deployment_node_scope_available: every task type modelled here   *)
(* is node-exclusive.                                                      *)
NodesIdle(nodes) ==
  /\ \A k \in 1 .. Len(ops) : ops[k].active => ops[k].nodes \cap nodes = {}
  /\ \A n \in nodes : LiveIds(n) = {}


(* _activate_operation: neither VERIFY nor UNJOIN counts as a mutation.  The *)
(* unique column active_lineage_id admits one operation per lineage.       *)
MayActivate(k, o) ==
  /\ \A j \in 1 .. Len(ops) \ {k} : ops[j].active =>
       /\ ops[j].nodes \cap o.nodes = {}
       /\ Lineage[ops[j].dep] # Lineage[o.dep]
  /\ \A n \in o.nodes : \A i \in LiveIds(n) :
       tasks[n][i].type \notin DirectTypes \cup {"APPLY"}

(* effective_deployment_plan(require_prepared=True) does not raise.         *)
HasEffectivePlan(d) ==
  d \in Recommended =>
    d \in prepared /\ \A n \in Assigned[d] : <<n, Artifact[d]>> \in ready

----------------------------------------------------------------------------
Init ==
  /\ accepted = InitVerified \cup InitAccepted
  /\ status = [d \in Deployment |->
                 IF d \in InitVerified THEN "VERIFIED" ELSE "CREATED"]
  /\ verified = InitVerified
  /\ prepared = accepted
  /\ ready = {<<n, Artifact[d]>> : n \in Node, d \in accepted \cap Recommended}
  /\ joined = Node
  /\ approved = Node
  /\ claiming = {}
  /\ tasks = [n \in Node |-> << >>]
  /\ ops = << >>

----------------------------------------------------------------------------
(* Generations and their caches *)

(* accept_deployment_recommendation, with _previous_generation.             *)
Accept(d) ==
  /\ "ACCEPT" \in Requests
  /\ d \in Deployment \ accepted
  /\ Previous[d] # NoDeployment =>
       /\ Previous[d] \in accepted
       /\ status[Previous[d]] # "ROLLED_BACK"
       /\ LineageIdle(d)
       /\ IsLatest(Previous[d])
  /\ accepted' = accepted \cup {d}
  /\ UNCHANGED <<membership, status, verified, caches, tasks, ops>>

(* A deployment's one artifact preparation, from request to its last node's *)
(* success.  Its tasks keep the nodes busy to every request of this module, *)
(* so the flow is one step here.  A SUCCEEDED preparation queues nothing.   *)
Prepare(d) ==
  /\ "PREPARE" \in Requests
  /\ d \in (accepted \cap Recommended) \ prepared
  /\ Assigned[d] \subseteq approved
  /\ NodesIdle(Assigned[d])
  /\ prepared' = prepared \cup {d}
  /\ ready' = ready \cup {<<n, Artifact[d]>> : n \in Assigned[d]}
  /\ UNCHANGED <<membership, generations, tasks, ops>>

(* A heartbeat or PROBE whose observation demotes a cache row.  Observations *)
(* never promote one.                                                      *)
CacheDemoted(n, a) ==
  /\ n \in Corruptible \cap joined
  /\ <<n, a>> \in ready
  /\ ready' = ready \ {<<n, a>>}
  /\ UNCHANGED <<membership, generations, prepared, tasks, ops>>

----------------------------------------------------------------------------
(* Admin requests that create work *)

EvidenceWhenQueued(kind, d) ==
  IF kind = "VERIFY" THEN verified ELSE verified \ {d}

(* create_tasks for APPLY and VERIFY, with attach_deployment_bulk_operation: *)
(* nodes are the approved ones among those requested.                      *)
CreateBulk(kind, d, nodes, serve) ==
  LET k == Len(ops) + 1
      o == NewGeneric(kind, d, nodes, serve)
  IN  /\ kind \in Requests
      /\ Len(ops) < MaxOps
      /\ d \in accepted
      /\ nodes # {} /\ nodes \subseteq Assigned[d] \cap approved
      /\ serve => kind = "APPLY"
      /\ d \in Strict \/ serve => nodes = Assigned[d]
      /\ d \in Strict => (serve <=> kind = "APPLY")
      /\ LineageIdle(d)
      /\ NodesIdle(nodes)
      /\ HasEffectivePlan(d)
      /\ QueuePhase(k, Append(ops, o), o, tasks, kind, nodes)
      /\ status' = [status EXCEPT
                      ![d] = IF kind = "APPLY" THEN "APPLYING" ELSE "VERIFYING"]
      /\ verified' = EvidenceWhenQueued(kind, d)
      /\ UNCHANGED <<membership, accepted, caches>>

DirectCount(n) == Cardinality({i \in TaskIds(n) : tasks[n][i].op = 0})

(* create_tasks for START, STOP and RESTART, which no operation tracks.      *)
CreateDirect(type, d, nodes) ==
  /\ type \in Requests
  /\ \A n \in nodes : DirectCount(n) < MaxDirect
  /\ d \in accepted
  /\ nodes # {} /\ nodes \subseteq Assigned[d] \cap approved
  /\ d \in Strict /\ type # "STOP" => nodes = Assigned[d]
  /\ LineageIdle(d)
  /\ NodesIdle(nodes)
  /\ type # "STOP" => HasEffectivePlan(d)
  /\ tasks' = [n \in Node |-> IF n \in nodes
                              THEN Append(tasks[n], Direct(type, d))
                              ELSE tasks[n]]
  /\ verified' = IF type = "STOP" THEN verified ELSE verified \ {d}
  /\ UNCHANGED <<membership, accepted, status, caches, ops>>

(* create_tasks for UNJOIN_NODE.                                             *)
CreateUnjoin(n) ==
  /\ "UNJOIN" \in Requests
  /\ n \in Departing \cap approved
  /\ DirectCount(n) < MaxDirect
  /\ NodesIdle({n})
  /\ tasks' = [tasks EXCEPT ![n] = Append(@, Direct("UNJOIN", NoDeployment))]
  /\ UNCHANGED <<membership, generations, caches, ops>>

RollbackAllowedMutNoCache(s, serve) ==
  LET t == Previous[s]
  IN  /\ s \in accepted
      /\ IsLatest(s)
      /\ t \in verified
      /\ Assigned[s] = Assigned[t] /\ HeadNode[s] = HeadNode[t]
      /\ Assigned[s] \subseteq approved
      /\ s \in Strict \/ t \in Strict => serve
      /\ status[s] # "ROLLED_BACK"

(* _validate_rollback and the cache check of prepare_or_apply_rollback.      *)
RollbackAllowed(s, serve) ==
  LET t == Previous[s]
  IN  /\ s \in accepted
      /\ IsLatest(s)
      /\ t \in verified
      /\ Assigned[s] = Assigned[t] /\ HeadNode[s] = HeadNode[t]
      /\ Assigned[s] \subseteq approved
      /\ s \in Strict \/ t \in Strict => serve
      /\ HasEffectivePlan(t)
      /\ status[s] # "ROLLED_BACK"

(* The operation a request digest selects: one per source and serve flag.    *)
SameRollback(s, serve) ==
  {k \in 1 .. Len(ops) :
     /\ ops[k].kind = "ROLLBACK"
     /\ ops[k].dep = s
     /\ ops[k].serve = serve}

MayCreateRollback(s) == status[Previous[s]] = "VERIFIED" /\ Len(ops) < MaxOps

(* prepare_or_apply_rollback(apply=False) persisting a new operation.        *)
PrepareRollback(s, serve) ==
  /\ "ROLLBACK" \in Requests
  /\ RollbackAllowed(s, serve)
  /\ SameRollback(s, serve) = {}
  /\ MayCreateRollback(s)
  /\ ops' = Append(ops, NewRollback(s, serve))
  /\ UNCHANGED <<membership, generations, caches, tasks>>

RollbackQueued(s) ==
  /\ status' = [status EXCEPT ![s] = "ROLLING_BACK",
                              ![Previous[s]] = "ROLLBACK_TARGET_PENDING"]
  /\ UNCHANGED <<membership, accepted, verified, caches>>

(* prepare_or_apply_rollback(apply=True), first application: operation k was *)
(* prepared earlier or is created by this very request.                    *)
ApplyRollback(s, serve, k) ==
  LET created == SameRollback(s, serve) = {}
      all == IF created THEN Append(ops, NewRollback(s, serve)) ELSE ops
  IN  /\ "ROLLBACK" \in Requests
      /\ RollbackAllowed(s, serve)
      /\ IF created THEN MayCreateRollback(s) /\ k = Len(all)
                    ELSE k \in SameRollback(s, serve)
      /\ all[k].status = "PREPARED"
      /\ MayActivate(k, all[k])
      /\ QueuePhase(k, all, [all[k] EXCEPT !.active = TRUE], tasks,
                    "STOP_SOURCE", all[k].nodes)
      /\ RollbackQueued(s)

RetryNodesMutAll(o) == PhaseNodes(o, o.phase)
RetryNodes(o) == FailedNodes(o, o.phase)

(* prepare_or_apply_rollback(apply=True) on a failed operation.              *)
RetryRollback(s, serve, k) ==
  LET o == ops[k]
      bad == RetryNodes(o)
  IN  /\ "ROLLBACK" \in Requests
      /\ RollbackAllowed(s, serve)
      /\ k \in SameRollback(s, serve)
      /\ o.status \in {"FAILED", "PARTIAL_FAILED"}
      /\ \A n \in Node : o.rec[o.phase][n].status \notin LiveStatus
      /\ \A n \in bad : o.rec[o.phase][n].attempt < MaxAttempts
      /\ bad # {}
      /\ o.active \/ MayActivate(k, o)
      /\ QueuePhase(k, ops, [o EXCEPT !.active = TRUE], tasks, o.phase, bad)
      /\ RollbackQueued(s)

----------------------------------------------------------------------------
(* Progress of an operation *)

(* _binding_is_current                                                       *)
IsCurrent(t, n) ==
  LET o == ops[t.op]
  IN  t.phase = o.phase /\ t.attempt = o.rec[t.phase][n].attempt

(* Rows and queues after the terminal outcome of task i of node n.           *)
Outcome(o, p, n, outcome) == [o EXCEPT !.rec[p][n].status = outcome]
Closed(ts, n, i, outcome) ==
  [ts EXCEPT ![n][i] = [@ EXCEPT !.status = outcome, !.lease = 0]]

NextPhase(o) ==
  CASE o.phase = "STOP_SOURCE" -> "START_TARGET"
    [] o.phase = "START_TARGET" -> "VERIFY_TARGET"
    [] o.phase \in {"APPLY", "VERIFY_TARGET"} /\ o.serve -> "START_API"
    [] o.phase = "START_API" -> "VERIFY_API"
    [] OTHER -> "COMPLETE"

SettledMutFirst(o) ==
  \E n \in PhaseNodes(o, o.phase) : o.rec[o.phase][n].status \in Terminal
Settled(o) ==
  \A n \in PhaseNodes(o, o.phase) : o.rec[o.phase][n].status \in Terminal

HoldsLineageMutReleased(o) == ~Settled(o)
HoldsLineage(o) == o.kind = "ROLLBACK" \/ ~Settled(o)

(* _update_failed_operation: a generic operation ends once every node of the *)
(* phase has reported; a failed rollback keeps its lineage.                *)
FailPhase(k, o, ts) ==
  LET rows == PhaseNodes(o, o.phase)
      bad == FailedNodes(o, o.phase)
      rollback == o.kind = "ROLLBACK"
  IN  /\ ops' = [ops EXCEPT ![k] =
                   [o EXCEPT !.status = IF bad = rows THEN "FAILED"
                                                      ELSE "PARTIAL_FAILED",
                             !.active = @ /\ HoldsLineage(o)]]
      /\ tasks' = ts
      /\ status' =
           CASE rollback -> [status EXCEPT ![o.dep] = "ROLLBACK_FAILED",
                                           ![o.target] = "ROLLBACK_FAILED"]
             [] ~rollback /\ Settled(o) ->
                  [status EXCEPT ![o.dep] =
                     CASE o.kind = "APPLY" /\ bad = rows -> "APPLY_FAILED"
                       [] o.kind = "APPLY" /\ bad # rows -> "APPLY_PARTIAL_FAILED"
                       [] o.kind = "VERIFY" /\ bad = rows -> "VERIFY_FAILED"
                       [] OTHER -> "VERIFY_PARTIAL_FAILED"]
             [] OTHER -> status
      /\ verified' = IF o.kind = "VERIFY" THEN verified \ {o.dep} ELSE verified
      /\ UNCHANGED <<accepted, prepared>>

IsFullSetMutAny(o) == o.nodes # {}
IsFullSet(o) == o.nodes = Assigned[o.dep]

(* The last phase of o has succeeded everywhere: _finish_generic_operation    *)
(* or the end of _advance_rollback.                                        *)
Complete(k, o, ts) ==
  LET full == IsFullSet(o)
  IN  /\ ops' = [ops EXCEPT ![k] = [o EXCEPT !.status = "SUCCEEDED",
                                             !.phase = "COMPLETE",
                                             !.active = FALSE]]
      /\ tasks' = ts
      /\ \/ /\ o.kind = "APPLY"
            /\ status' = [status EXCEPT
                 ![o.dep] = IF full THEN "APPLIED" ELSE "PARTIALLY_APPLIED"]
            /\ verified' = verified
         \/ /\ o.kind = "VERIFY"
            /\ status' = [status EXCEPT
                 ![o.dep] = IF full THEN "VERIFIED" ELSE "PARTIALLY_VERIFIED"]
            /\ verified' = IF full THEN verified \cup {o.dep} ELSE verified
         \/ /\ o.kind = "ROLLBACK"
            /\ status' = [status EXCEPT ![o.dep] = "ROLLED_BACK",
                                        ![o.target] = "VERIFIED"]
            /\ verified' = (verified \ {o.dep}) \cup {o.target}

(* The cache gate of _advance_rollback: START_TARGET fails on every node      *)
(* without having been queued.                                             *)
CloseCacheGate(k, o, ts) ==
  /\ ops' = [ops EXCEPT ![k] =
       [o EXCEPT !.phase = "START_TARGET", !.status = "FAILED",
                 !.rec["START_TARGET"] = [n \in Node |->
                    IF @[n].status = "NONE" THEN @[n]
                    ELSE [@[n] EXCEPT !.status = "FAILED"]]]]
  /\ tasks' = ts
  /\ status' = [status EXCEPT ![o.dep] = "ROLLBACK_FAILED",
                              ![o.target] = "ROLLBACK_FAILED"]
  /\ UNCHANGED verified

(* Every node of the phase has succeeded.  Past the cache gate a missing      *)
(* cache raises and the transaction, report included, is rolled back.      *)
AdvancePhase(k, o, ts) ==
  LET p == NextPhase(o)
      d == PhaseDeployment(o, p)
  IN  /\ \/ p = "COMPLETE" /\ Complete(k, o, ts)
         \/ /\ p # "COMPLETE" /\ HasEffectivePlan(d)
            /\ QueuePhase(k, ops, o, ts, p, PhaseNodes(o, p))
            /\ status' = IF p = "START_TARGET"
                         THEN [status EXCEPT
                                 ![o.dep] = "ROLLING_BACK",
                                 ![o.target] = "ROLLBACK_TARGET_PENDING"]
                         ELSE status
            /\ UNCHANGED verified
         \/ /\ p = "START_TARGET" /\ ~HasEffectivePlan(d)
            /\ CloseCacheGate(k, o, ts)
      /\ UNCHANGED <<accepted, prepared>>

PhaseDoneMutNoneLive(o, p) ==
  \A n \in PhaseNodes(o, p) : o.rec[p][n].status \notin LiveStatus
PhaseDone(o, p) ==
  \A n \in PhaseNodes(o, p) : o.rec[p][n].status = "SUCCEEDED"

(* finish_operation_task on a RUNNING task: outcome "SUCCEEDED" or "FAILED".  *)
(* A failed node verification condemns that node's cache.                  *)
FinishBound(n, i, outcome) ==
  LET t == tasks[n][i]
      k == t.op
      o == Outcome(ops[k], t.phase, n, outcome)
      ts == Closed(tasks, n, i, outcome)
      d == PhaseDeployment(o, t.phase)
  IN  /\ IsCurrent(t, n)
      /\ ops[k].rec[t.phase][n].status = "RUNNING"
      /\ \/ /\ FailedNodes(o, t.phase) # {}
            /\ FailPhase(k, o, ts)
         \/ /\ PhaseDone(o, t.phase)
            /\ AdvancePhase(k, o, ts)
         \/ /\ FailedNodes(o, t.phase) = {}
            /\ ~PhaseDone(o, t.phase)
            /\ ops' = [ops EXCEPT ![k] = [o EXCEPT !.status = "RUNNING"]]
            /\ tasks' = ts
            /\ UNCHANGED <<generations, prepared>>
      /\ ready' = IF /\ outcome = "FAILED"
                     /\ t.phase \in {"VERIFY", "VERIFY_TARGET"}
                     /\ d \in Recommended
                  THEN ready \ {<<n, Artifact[d]>>} ELSE ready

(* cancel_operation_task on a QUEUED task.                                    *)
CancelBound(n, i) ==
  LET t == tasks[n][i]
  IN  /\ IsCurrent(t, n)
      /\ ops[t.op].rec[t.phase][n].status = "QUEUED"
      /\ FailPhase(t.op, Outcome(ops[t.op], t.phase, n, "CANCELED"),
                   Closed(tasks, n, i, "CANCELED"))
      /\ UNCHANGED ready

----------------------------------------------------------------------------
(* Agents and leases *)

(* node_auth and the approval check of agent_claim, before any lock.          *)
ClaimRequest(n) ==
  /\ n \in joined \cap approved
  /\ n \notin claiming
  /\ claiming' = claiming \cup {n}
  /\ UNCHANGED <<approved, joined, generations, caches, tasks, ops>>

ClaimEnds(n) ==
  /\ claiming' = claiming \ {n}
  /\ UNCHANGED <<approved, joined>>

ClaimableMutNoExpiry(n) == {i \in TaskIds(n) : tasks[n][i].status = "QUEUED"}
Leased(n) == \E i \in TaskIds(n) :
               tasks[n][i].status = "RUNNING" /\ ~HasExpired(tasks[n][i])
Claimable(n) == {i \in TaskIds(n) : \/ tasks[n][i].status = "QUEUED"
                                    \/ HasExpired(tasks[n][i])}

(* claim_task finding nothing to lease.                                       *)
ClaimNothing(n) ==
  /\ n \in claiming
  /\ Leased(n) \/ Claimable(n) = {}
  /\ ClaimEnds(n)
  /\ UNCHANGED <<generations, caches, tasks, ops>>

OldestClaimableMutShared(n, i) ==
  i \in Claimable(n) /\ \A j \in Claimable(n) : i <= j
OldestClaimable(n, i) ==
  /\ ~Leased(n)
  /\ i \in Claimable(n)
  /\ \A j \in Claimable(n) : i <= j

(* claim_task leasing task i, with claim_operation_task when it is bound.     *)
Claim(n, i) ==
  LET t == tasks[n][i]
  IN  /\ n \in claiming
      /\ OldestClaimable(n, i)
      /\ t.op # 0 => /\ ~HasExpired(t)
                     /\ IsCurrent(t, n)
                     /\ ops[t.op].rec[t.phase][n].status = "QUEUED"
      /\ tasks' = [tasks EXCEPT ![n][i] = [@ EXCEPT !.status = "RUNNING",
                                                    !.lease = LeaseTicks]]
      /\ ops' = IF t.op = 0 THEN ops
                ELSE [ops EXCEPT ![t.op] =
                        [Outcome(@, t.phase, n, "RUNNING")
                           EXCEPT !.status = "RUNNING"]]
      /\ ClaimEnds(n)
      /\ UNCHANGED <<generations, caches>>

(* claim_task meeting an expired bound task: it fails, nothing is leased.     *)
ClaimExpired(n, i) ==
  /\ n \in claiming
  /\ OldestClaimable(n, i)
  /\ tasks[n][i].op # 0 /\ HasExpired(tasks[n][i])
  /\ FinishBound(n, i, "FAILED")
  /\ ClaimEnds(n)

(* Time passes for a leased task.                                             *)
Tick(n, i) ==
  /\ tasks[n][i].status = "RUNNING" /\ tasks[n][i].lease > 0
  /\ tasks' = [tasks EXCEPT ![n][i].lease = @ - 1]
  /\ UNCHANGED <<membership, generations, caches, ops>>

ExtendableMutStale(n, t) == n \in joined \cap approved /\ t.status = "RUNNING"
Extendable(n, t) ==
  n \in joined \cap approved /\ t.status = "RUNNING" /\ ~HasExpired(t)

RenewedMutAdded(t) == t.lease + LeaseTicks
Renewed(t) == LeaseTicks

(* extend_task                                                                *)
Extend(n, i) ==
  LET t == tasks[n][i]
  IN  /\ Extendable(n, t)
      /\ t.op # 0 => /\ IsCurrent(t, n)
                     /\ ops[t.op].rec[t.phase][n].status = "RUNNING"
      /\ tasks' = [tasks EXCEPT ![n][i].lease = Renewed(t)]
      /\ UNCHANGED <<membership, generations, caches, ops>>

(* finish_task: a report is accepted from any task still RUNNING, its lease   *)
(* expired or not; a report for a terminal task changes nothing.           *)
MayReport(n, i) == n \in joined /\ tasks[n][i].status = "RUNNING"

ReportBound(n, i, outcome) ==
  /\ MayReport(n, i)
  /\ tasks[n][i].op # 0
  /\ FinishBound(n, i, outcome)
  /\ UNCHANGED membership

(* An UNJOIN that succeeded also runs _mark_node_unjoined.                    *)
ReportDirect(n, i, outcome) ==
  LET left == IF tasks[n][i].type = "UNJOIN" /\ outcome = "SUCCEEDED"
              THEN {n} ELSE {}
  IN  /\ MayReport(n, i)
      /\ tasks[n][i].op = 0
      /\ tasks' = Closed(tasks, n, i, outcome)
      /\ approved' = approved \ left
      /\ joined' = joined \ left
      /\ UNCHANGED <<claiming, generations, caches, ops>>

(* cancel_task: a QUEUED task, or a bound task whose lease has expired.       *)
Cancel(n, i) ==
  LET t == tasks[n][i]
  IN  /\ "CANCEL" \in Requests
      /\ \/ t.op # 0 /\ HasExpired(t) /\ FinishBound(n, i, "FAILED")
         \/ t.op # 0 /\ t.status = "QUEUED" /\ CancelBound(n, i)
         \/ /\ t.op = 0 /\ t.status = "QUEUED"
            /\ tasks' = Closed(tasks, n, i, "CANCELED")
            /\ UNCHANGED <<generations, caches, ops>>
      /\ UNCHANGED membership

----------------------------------------------------------------------------
(* Membership *)

(* revoke_node with revoke_operation_tasks_for_node.  A node never has two    *)
(* live bound tasks (DeploymentTasksExclusive): one outcome is all there is. *)
Revoke(n) ==
  /\ n \in Departing
  /\ approved' = approved \ {n}
  /\ joined' = joined \ {n}
  /\ UNCHANGED claiming
  /\ \/ /\ BoundLiveIds(n) = {}
        /\ UNCHANGED <<generations, caches, tasks, ops>>
     \/ \E i \in BoundLiveIds(n) :
          IF tasks[n][i].status = "QUEUED" THEN CancelBound(n, i)
                                           ELSE FinishBound(n, i, "FAILED")

(* unjoin_node, called by the agent itself.                                   *)
Unjoin(n) ==
  /\ n \in Departing \cap joined
  /\ NodesIdle({n})
  /\ approved' = approved \ {n}
  /\ joined' = joined \ {n}
  /\ UNCHANGED <<claiming, generations, caches, tasks, ops>>

(* join_node of a known installation without an active credential.            *)
Rejoin(n) ==
  /\ n \notin joined
  /\ joined' = joined \cup {n}
  /\ approved' = approved \ {n}
  /\ UNCHANGED <<claiming, generations, caches, tasks, ops>>

(* approve_node                                                               *)
Approve(n) ==
  /\ n \notin approved
  /\ approved' = approved \cup {n}
  /\ UNCHANGED <<joined, claiming, generations, caches, tasks, ops>>

(* rotate_node_credential also approves.                                      *)
Rotate(n) ==
  /\ n \notin joined \cap approved
  /\ approved' = approved \cup {n}
  /\ joined' = joined \cup {n}
  /\ UNCHANGED <<claiming, generations, caches, tasks, ops>>

----------------------------------------------------------------------------
Request ==
  \/ \E d \in Deployment : Accept(d) \/ Prepare(d)
  \/ \E kind \in {"APPLY", "VERIFY"}, d \in Deployment, nodes \in SUBSET Node,
        serve \in ServeOptions : CreateBulk(kind, d, nodes, serve)
  \/ \E type \in DirectTypes, d \in Deployment, nodes \in SUBSET Node :
        CreateDirect(type, d, nodes)
  \/ \E n \in Node : CreateUnjoin(n)
  \/ \E s \in Deployment, serve \in ServeOptions :
       /\ Previous[s] # NoDeployment
       /\ \/ PrepareRollback(s, serve)
          \/ \E k \in 1 .. Len(ops) + 1 : ApplyRollback(s, serve, k)
          \/ \E k \in 1 .. Len(ops) : RetryRollback(s, serve, k)
  \/ \E n \in Node : \E i \in TaskIds(n) : Cancel(n, i)

Report(n, i) == \E outcome \in {"SUCCEEDED", "FAILED"} :
                  ReportBound(n, i, outcome) \/ ReportDirect(n, i, outcome)

ClaimTask(n) ==
  \/ ClaimNothing(n)
  \/ \E i \in TaskIds(n) : Claim(n, i) \/ ClaimExpired(n, i)

Agent(n) ==
  \/ ClaimRequest(n) \/ ClaimTask(n)
  \/ \E i \in TaskIds(n) : Tick(n, i) \/ Extend(n, i) \/ Report(n, i)

Membership(n) ==
  Revoke(n) \/ Unjoin(n) \/ Rejoin(n) \/ Approve(n) \/ Rotate(n)

Next ==
  \/ Request
  \/ \E n \in Node : Agent(n) \/ Membership(n)
  \/ \E n \in Node, d \in Recommended : CacheDemoted(n, Artifact[d])

Spec == Init /\ [][Next]_vars

LeaseEnds(n, i) == tasks[n][i].lease > 0 /\ (Tick(n, i) \/ Report(n, i))

(* The agent loop keeps claiming, and a lease ends: the agent reports, or it  *)
(* stops renewing.  Nothing obliges it to report once the lease has expired. *)
AgentFairness(n) ==
  /\ WF_vars(ClaimRequest(n))
  /\ WF_vars(ClaimTask(n))
  /\ WF_vars(\E i \in TaskIds(n) : LeaseEnds(n, i))
FairSpec == Spec /\ \A n \in Node : AgentFairness(n)

----------------------------------------------------------------------------
(* Properties *)

(* The closed value sets of the tables, and foreign keys that resolve.        *)
TypeOK ==
  /\ approved \subseteq Node /\ joined \subseteq Node /\ claiming \subseteq Node
  /\ accepted \subseteq Deployment /\ verified \subseteq Deployment
  /\ prepared \subseteq Deployment
  /\ status \in [Deployment -> DeploymentStatus]
  /\ ready \subseteq {<<n, Artifact[d]>> : n \in Node, d \in Recommended}
  /\ tasks \in [Node -> Seq(Task)]
  /\ ops \in Seq(Operation)
  /\ \A n \in Node : \A i \in TaskIds(n) : tasks[n][i].op <= Len(ops)

OpIds == 1 .. Len(ops)

(* Every live task of an operation is the current attempt of the record of its *)
(* node in the operation's current phase, in the same state, and the         *)
(* operation is active: claim_operation_task and finish_operation_task would  *)
(* otherwise answer 409 for ever and the head of the queue would be stuck.    *)
LiveBoundTaskIsCurrent ==
  \A n \in Node : \A i \in BoundLiveIds(n) :
    LET t == tasks[n][i]
    IN  /\ t.op \in OpIds
        /\ ops[t.op].active
        /\ IsCurrent(t, n)
        /\ ops[t.op].rec[t.phase][n].status = t.status

(* A node record that is queued or running has a live task to finish it:      *)
(* otherwise its phase never settles and its lineage stays locked.            *)
LiveRecordHasTask ==
  \A k \in OpIds, p \in Phases, n \in Node :
    ops[k].rec[p][n].status \in LiveStatus =>
      \E i \in BoundLiveIds(n) : tasks[n][i].op = k /\ tasks[n][i].phase = p

(* claim_task hands out tasks of a node in created_at order, one lease at a   *)
(* time: whatever is behind a live task is still waiting.                     *)
OneLeasePerNode ==
  \A n \in Node : \A i, j \in LiveIds(n) :
    i < j => tasks[n][j].status = "QUEUED"

(* Two deployment tasks are never pending on one node, and a node of an active *)
(* operation carries no other deployment task than that operation's, although *)
(* create_tasks, _activate_operation and _queue_phase check this separately.  *)
DeploymentTasksExclusive ==
  \A n \in Node : \A i, j \in LiveIds(n) :
    /\ tasks[n][i].type # "UNJOIN" /\ tasks[n][j].type # "UNJOIN" => i = j
    /\ \A k \in OpIds : /\ ops[k].active /\ n \in ops[k].nodes
                        /\ tasks[n][i].type # "UNJOIN"
                        => tasks[n][i].op = k

(* Active operations share neither a node nor a lineage.                      *)
ActiveOperationsDisjoint ==
  \A j, k \in OpIds : j # k /\ ops[j].active /\ ops[k].active =>
    /\ ops[j].nodes \cap ops[k].nodes = {}
    /\ Lineage[ops[j].dep] # Lineage[ops[k].dep]

(* A generic operation never stays active without a record still in flight:   *)
(* no later request could release its lineage.                                *)
ActiveGenericHasWork ==
  \A k \in OpIds : ops[k].active /\ ops[k].kind # "ROLLBACK" =>
    \E n \in Node : ops[k].rec[ops[k].phase][n].status \in LiveStatus

(* While a rollback is active its source stays the latest generation and its  *)
(* target keeps its verification, so that the same request passes            *)
(* _validate_rollback again and can retry it.                                 *)
ActiveRollbackStaysValid ==
  \A k \in OpIds : ops[k].active /\ ops[k].kind = "ROLLBACK" =>
    /\ IsLatest(ops[k].dep)
    /\ ops[k].target = Previous[ops[k].dep]
    /\ ops[k].target \in verified
    /\ status[ops[k].dep] \in {"ROLLING_BACK", "ROLLBACK_FAILED"}

(* A generation whose status says that work is under way has an active        *)
(* operation: no path settles the operation and forgets the deployment row.   *)
BusyStatusHasOperation ==
  \A d \in Deployment :
    status[d] \in {"APPLYING", "VERIFYING", "ROLLING_BACK",
                   "ROLLBACK_TARGET_PENDING", "ROLLBACK_FAILED"} =>
      \E k \in OpIds : ops[k].active /\ d \in {ops[k].dep, ops[k].target}

(* Verification evidence does not outlive what it was taken of: an APPLY, a   *)
(* failed VERIFY or being rolled back removes it before the status says so.   *)
EvidenceMatchesStatus ==
  \A d \in verified :
    status[d] \in {"VERIFIED", "VERIFYING", "PARTIALLY_VERIFIED",
                   "ROLLING_BACK", "ROLLBACK_TARGET_PENDING",
                   "ROLLBACK_FAILED"}

(* The rows that several transactions write agree: records with tasks, active *)
(* operations with records, deployment rows with operations and evidence.      *)
RowsAgree ==
  /\ LiveRecordHasTask
  /\ ActiveGenericHasWork
  /\ BusyStatusHasOperation
  /\ EvidenceMatchesStatus

PhaseIndex ==
  [APPLY |-> 1, VERIFY |-> 1, STOP_SOURCE |-> 1, START_TARGET |-> 2,
   VERIFY_TARGET |-> 3, START_API |-> 4, VERIFY_API |-> 5, COMPLETE |-> 6]

(* No node is started, verified or served in a phase before every node has    *)
(* succeeded in all earlier phases: the API starts after all workers, the     *)
(* target starts after the source has stopped everywhere.                     *)
PhasesInOrder ==
  \A k \in OpIds, p, q \in Phases : \A m, n \in Node :
    /\ PhaseIndex[p] < PhaseIndex[q]
    /\ ops[k].rec[q][n].status \notin {"NONE", "PENDING"}
    => ops[k].rec[p][m].status \in {"NONE", "SUCCEEDED"}

(* A generation becomes verified only by an operation whose every node record *)
(* has succeeded on exactly the assigned nodes of that generation.            *)
VerifiedByEveryNode ==
  [][\A d \in verified' \ verified :
       \E k \in 1 .. Len(ops') :
         LET o == ops'[k]
             p == IF o.kind = "ROLLBACK" THEN "VERIFY_TARGET" ELSE "VERIFY"
         IN  /\ d = PhaseDeployment(o, p)
             /\ o.status = "SUCCEEDED" /\ ops[k].status # "SUCCEEDED"
             /\ \A n \in Assigned[d] : o.rec[p][n].status = "SUCCEEDED"
             /\ \A q \in Phases, n \in Node :
                  o.rec[q][n].status \in {"NONE", "SUCCEEDED"}]_vars

(* A node that succeeded in a phase is never asked again, a record is queued  *)
(* again only after it failed and with a higher attempt, and a terminal task  *)
(* never changes, whatever late or repeated reports arrive.                   *)
SettledStaysSettled ==
  [][/\ \A k \in OpIds, p \in Phases, n \in Node :
          LET r == ops[k].rec[p][n]
              s == ops'[k].rec[p][n]
          IN  /\ r.status = "SUCCEEDED" => s = r
              /\ r.status \in Terminal /\ s # r =>
                   s.status = "QUEUED" /\ s.attempt = r.attempt + 1
     /\ \A n \in Node : \A i \in TaskIds(n) :
          tasks[n][i].status \in Terminal => tasks'[n][i] = tasks[n][i]]_vars

(* Work for a generation that needs a prepared cache is queued only while the *)
(* exact cache is READY on every assigned node: on creation, on every phase   *)
(* change and on a retry.                                                     *)
QueuedOnlyWhenPrepared ==
  [][\A k \in 1 .. Len(ops'), n \in Node :
       LET o == ops'[k]
           p == o.phase
       IN  /\ p \in Phases \ {"STOP_SOURCE"}
           /\ o.rec[p][n].status = "QUEUED"
           /\ k \in OpIds => ops[k].rec[p][n].attempt # o.rec[p][n].attempt
           => HasEffectivePlan(PhaseDeployment(o, p))]_vars

(* An expired lease of an operation's task is never renewed or leased again:  *)
(* the attempt can only end.                                                  *)
ExpiredAttemptNeverRevived ==
  [][\A n \in Node : \A i \in BoundLiveIds(n) :
       HasExpired(tasks[n][i]) =>
         \/ tasks'[n][i] = tasks[n][i]
         \/ tasks'[n][i].status \in Terminal]_vars

IsActive(k) == k \in OpIds /\ ops[k].active
IsFailed(k) == k \in OpIds /\ ops[k].status \in {"FAILED", "PARTIAL_FAILED"}
InFlight(k) == \E n \in Node : \E i \in BoundLiveIds(n) : tasks[n][i].op = k

(* With agents that keep polling, every generic operation releases its lineage *)
(* and its nodes, whatever it reports and however often leases expire.        *)
GenericOperationSettles ==
  \A k \in 1 .. MaxOps :
    IsActive(k) /\ ops[k].kind # "ROLLBACK" ~> ~IsActive(k)

(* With agents that keep polling, an applied rollback ends or comes to rest in *)
(* a failed phase with no task in flight, which is when it can be retried.    *)
RollbackComesToRest ==
  \A k \in 1 .. MaxOps :
    IsActive(k) /\ ops[k].kind = "ROLLBACK"
      ~> ~IsActive(k) \/ (IsFailed(k) /\ ~InFlight(k))

(* Every operation settles or, for a rollback, comes to rest.                 *)
OperationsSettle == GenericOperationSettles /\ RollbackComesToRest

----------------------------------------------------------------------------
(* What the documents say of the program and the code does not do             *)

(* docs/operations-reference.md: once the cause is repaired through the        *)
(* supported preparation procedure outside the rollback, the same input with   *)
(* --apply retries the failed phase.  The fairness is the most an operator can *)
(* contribute: every preparation and every retry that becomes possible again   *)
(* and again is eventually made.                                              *)
OperatorFairness ==
  /\ \A d \in Deployment : SF_vars(Prepare(d))
  /\ \A s \in Deployment, serve \in ServeOptions :
       SF_vars(\E k \in OpIds : RetryRollback(s, serve, k))
RepairSpec == FairSpec /\ OperatorFairness

AttemptsLeft(k) ==
  \A n \in Node : ops[k].rec[ops[k].phase][n].attempt < MaxAttempts
FailedRollbackIsRetried ==
  \A k \in 1 .. MaxOps :
    IsFailed(k) /\ ops[k].kind = "ROLLBACK" /\ AttemptsLeft(k) ~> ~IsFailed(k)
=============================================================================
