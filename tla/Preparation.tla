---------------------------- MODULE Preparation ----------------------------
(***************************************************************************)
(* Artifact preparation and the lifecycle of artifact caches: what must    *)
(* hold on a node's disk before a deployment may run there, and what the   *)
(* control plane believes about it.                                        *)
(*                                                                         *)
(* control/preparation.py queues, for every node of a generation, a MODEL  *)
(* attempt and then an IMAGE attempt; control/cache_lifecycle.py keeps one *)
(* cache row per node and identity, made READY only by a MODEL success and *)
(* demoted by probes, failed verifications, revoked variants and           *)
(* quarantine.  A quarantine moves the directory away on the node, so the  *)
(* control plane first proves that nothing refers to it.                   *)
(*                                                                         *)
(* Every action of the control plane is one transaction under its Node     *)
(* locks.  The agent of a node is a single thread: it claims a task,       *)
(* changes its disk, and reports; leases run out in between.               *)
(***************************************************************************)
EXTENDS Integers, Sequences, FiniteSets

CONSTANTS
  Node, Deployment, Artifact,
  NoDeployment,   \* previous_generation_id of a first generation
  Previous,       \* [Deployment -> Deployment]: previous_generation_id
  Assigned,       \* [Deployment -> SUBSET Node]: assignments of the plan
  Identity,       \* [Deployment -> Artifact]: the exact cache the plan needs
  Staged,         \* artifacts that are stage variants, which may be revoked
  InitAccepted,   \* generations that exist in the initial state
  Departing,      \* nodes whose credential may be revoked and rotated
  Fragile,        \* caches whose directory may be damaged from outside
  MaxTasks,       \* bound: [Node -> Nat], task rows of each node
  MaxAttempts,    \* bound: [Deployment -> Nat], attempts of each of its records
  Chunks          \* bound: units of download progress

ASSUME PlanAssumption ==
  /\ NoDeployment \notin Deployment
  /\ Previous \in [Deployment -> Deployment \cup {NoDeployment}]
  /\ Assigned \in [Deployment -> (SUBSET Node) \ {{}}]
  /\ Identity \in [Deployment -> Artifact]
  /\ Staged \subseteq Artifact /\ InitAccepted \subseteq Deployment
  /\ Departing \subseteq Node /\ Fragile \subseteq Artifact

ASSUME BoundAssumption ==
  MaxTasks \in [Node -> Nat] /\ MaxAttempts \in [Deployment -> Nat] /\ Chunks \in Nat \ {0}

VARIABLES
  approved,  \* nodes with Node.approved and an unrevoked credential
  status,    \* Deployment.status, "ABSENT" before the generation exists
  prep,      \* ArtifactPreparation.status of each deployment (one per deployment)
  record,    \* ArtifactPreparationNode: per node and stage, status and attempt
  queue,     \* [Node -> Seq(Task)] in created_at order
  cache,     \* NodeArtifactCache of each node and identity
  variant,   \* StageArtifactVariant of each stage artifact
  disk,      \* what the cache directory of each node really holds
  job        \* what the agent of each node works on

control == <<approved, status, prep, record, queue, cache, variant>>
vars == <<control, disk, job>>

----------------------------------------------------------------------------
(* Rows *)

Stage == {"MODEL", "IMAGE"}
AttemptStatus == {"QUEUED", "RUNNING", "SUCCEEDED", "FAILED", "CANCELED"}
LiveStatus == {"QUEUED", "RUNNING"}
PreparationStatus ==
  {"NONE", "PREPARED", "QUEUED", "RUNNING", "SUCCEEDED", "PARTIAL_FAILED", "FAILED"}
StageRecords ==
  [status : {"PREPARED", "QUEUED", "RUNNING", "SUCCEEDED", "FAILED"}, no : Nat]
Priority == [READY |-> 1, STALE |-> 2, MISSING |-> 3, CORRUPT |-> 4, QUARANTINED |-> 5]
CacheStatus == DOMAIN Priority
(* by: the task of last_ready_attempt_id; pending: quarantine_request_id,    *)
(* which is the identifier of the quarantine task (0: none).               *)
Caches == [status : CacheStatus \cup {"NONE"}, by : Nat, pending : Nat]

(* A task row.  A preparation task and its attempt row change together, so   *)
(* one status stands for both; VERIFY, PROBE and QUARANTINE tasks have no    *)
(* attempt.  The lease of a RUNNING task is held until it expires.          *)
Tasks ==
  [kind : Stage \cup {"QUARANTINE", "VERIFY", "PROBE"},
   dep : Deployment \cup {NoDeployment}, art : Artifact \cup {"NONE"},
   no : Nat, status : AttemptStatus, expired : BOOLEAN, progress : 0 .. Chunks]

(* The StageArtifactVariant of a stage artifact, with its GPU_EXPORT_LOAD      *)
(* evidence registered last.                                               *)
GpuEvidence == {"NONE", "PASSED", "FAILED"}
Variants == [status : {"NONE", "DRAFT", "VALIDATED", "REVOKED"}, gpu : GpuEvidence]

Disk == {"EMPTY", "GOOD", "DAMAGED", "MOVED"}
(* The agent's one task: claimed, its manifest fetched, or carried out with   *)
(* an outcome (ok, and for a probe what it saw) that is not yet reported.    *)
Nothing == [a \in Artifact |-> "EMPTY"]
Idle == [id |-> 0, step |-> "IDLE", ok |-> FALSE, seen |-> Nothing]
Jobs == [id : Nat, step : {"IDLE", "CLAIMED", "FETCHED", "DONE"}, ok : BOOLEAN,
         seen : [Artifact -> Disk]]

TaskIds(n) == 1 .. Len(queue[n])
IsLive(t) == t.status \in LiveStatus
Live(n) == {i \in TaskIds(n) : IsLive(queue[n][i])}
NewTask(kind, d, a, no) ==
  [kind |-> kind, dep |-> d, art |-> a, no |-> no, status |-> "QUEUED",
   expired |-> FALSE, progress |-> 0]
LiveOf(d, stages) ==
  UNION {{<<n, i>> : i \in {j \in Live(n) : /\ queue[n][j].dep = d
                                          /\ queue[n][j].kind \in stages}} : n \in Node}

----------------------------------------------------------------------------
(* The status of a preparation follows from its node records *)

(* _recompute_status *)
Derived(rows, nodes) ==
  LET all == {rows[n][s].status : n \in nodes, s \in Stage}
      complete == {n \in nodes : \A s \in Stage : rows[n][s].status = "SUCCEEDED"}
  IN  CASE "RUNNING" \in all -> "RUNNING"
        [] "RUNNING" \notin all /\ "QUEUED" \in all -> "QUEUED"
        [] complete = nodes -> "SUCCEEDED"
        [] all = {"PREPARED"} -> "PREPARED"
        [] OTHER -> IF complete # {} THEN "PARTIAL_FAILED" ELSE "FAILED"

(* The records rec of the deployments ds have changed: their preparations    *)
(* are recomputed in the same transaction.                                 *)
RecomputeMutForgotten(ds, rec) == record' = rec /\ prep' = prep
Recompute(ds, rec) ==
  /\ record' = rec
  /\ prep' = [d \in Deployment |->
                IF d \in ds
                THEN Derived(rec[d], Assigned[d])
                ELSE prep[d]]

WithStatus(rec, d, n, s, st) == [rec EXCEPT ![d][n][s].status = st]

(* _queue_attempt, for the nodes ns of deployment d: the attempt number      *)
(* grows and a fresh task carries it.                                      *)
Requeued(rec, d, ns, s) ==
  [rec EXCEPT ![d] = [n \in Node |->
     IF n \in ns THEN [rec[d][n] EXCEPT ![s] = [status |-> "QUEUED", no |-> @.no + 1]]
                 ELSE rec[d][n]]]
AttemptTask(rec, d, n, s) == NewTask(s, d, Identity[d], rec[d][n][s].no)

MayQueue(d, ns, s) ==
  \A n \in ns : Len(queue[n]) < MaxTasks[n] /\ record[d][n][s].no < MaxAttempts[d]

(* _attempt_is_current for a live task *)
AttemptIsCurrent(n, t) ==
  LET r == record[t.dep][n][t.kind] IN r.no = t.no /\ r.status = t.status

----------------------------------------------------------------------------
(* The registry of stage artifacts *)

SetVariant(a, v) ==
  /\ variant' = [variant EXCEPT ![a] = v]
  /\ UNCHANGED <<approved, status, prep, record, queue, cache, disk, job>>

(* register_stage_artifact_variant: bound for good to the digest of its bytes,  *)
(* so that repeating the request returns it and other bytes are refused.      *)
RegisterVariant(a) ==
  variant[a].status = "NONE" /\ SetVariant(a, [variant[a] EXCEPT !.status = "DRAFT"])

TakesEvidenceMutLate(a) == variant[a].status \in {"DRAFT", "VALIDATED"}
(* register_stage_artifact_evidence, kind GPU_EXPORT_LOAD; the other kind only   *)
(* documents a validation without a GPU.                                     *)
TakesEvidence(a) == variant[a].status = "DRAFT"
RegisterEvidence(a, st) ==
  TakesEvidence(a) /\ SetVariant(a, [variant[a] EXCEPT !.gpu = st])

(* transition_stage_artifact_variant to VALIDATED                              *)
ValidateVariant(a) ==
  /\ variant[a].status = "DRAFT" /\ variant[a].gpu = "PASSED"
  /\ SetVariant(a, [variant[a] EXCEPT !.status = "VALIDATED"])

----------------------------------------------------------------------------
(* Requests to prepare *)

SuccessorOf(d) == {e \in Deployment : Previous[e] = d /\ status[e] # "ABSENT"}
IsLatest(d) == SuccessorOf(d) = {}
Overlapping(d) == {e \in Deployment : Assigned[e] \cap Assigned[d] # {}}
Active(d) == status[d] = "VERIFYING"

(* _selected_context: what every initial preparation and retry re-checks.    *)
(* Conditions on reports of the nodes (online, fresh profile, free disk) may *)
(* also refuse a request, which then changes nothing.                      *)
Eligible(d) == Assigned[d] \subseteq approved
NodesFree(d) ==
  /\ \A n \in Assigned[d] : \A i \in Live(n) :
       queue[n][i].kind \in Stage /\ queue[n][i].dep = d
  /\ \A e \in Overlapping(d) : ~Active(e)
(* _stage_preparation_projection with validated_stage_artifact_projection: the *)
(* variant is still validated, and by what was measured last.                *)
Validated(a) == a \in Staged => variant[a].status = "VALIDATED"
Measured(a) == a \in Staged => variant[a].gpu = "PASSED"
VariantValid(d) == Validated(Identity[d]) /\ Measured(Identity[d])
SelectedContext(d) == Eligible(d) /\ NodesFree(d) /\ VariantValid(d)

(* _queue_for_apply: MODEL for every record not yet successful; IMAGE        *)
(* retries wait until no MODEL is left to do.                              *)
QueueForApply(d) ==
  LET todo(s, sts) == {n \in Assigned[d] : record[d][n][s].status \in sts}
      models == todo("MODEL", {"PREPARED", "FAILED"})
      s == IF models # {} THEN "MODEL" ELSE "IMAGE"
      ns == IF models # {} THEN models ELSE todo("IMAGE", {"FAILED"})
      rec == Requeued(record, d, ns, s)
  IN  /\ MayQueue(d, ns, s)
      /\ record' = rec
      /\ prep' = [prep EXCEPT ![d] = Derived(rec[d], Assigned[d])]
      /\ queue' = [n \in Node |-> IF n \in ns
                                  THEN Append(queue[n], AttemptTask(rec, d, n, s))
                                  ELSE queue[n]]

(* prepare_deployment_artifacts for a generation that has no preparation.    *)
Create(d, apply) ==
  /\ status[d] # "ABSENT" /\ prep[d] = "NONE"
  /\ SelectedContext(d)
  /\ \/ apply /\ QueueForApply(d)
     \/ ~apply /\ prep' = [prep EXCEPT ![d] = "PREPARED"] /\ UNCHANGED <<record, queue>>
  /\ UNCHANGED <<approved, status, cache, variant, disk, job>>

(* The same request again, to apply: attempts whose lease ran out are fenced  *)
(* first, in a transaction of their own.                                   *)
Expired(d) == {n \in Assigned[d] : \E i \in Live(n) :
                 queue[n][i].expired /\ queue[n][i].dep = d /\ queue[n][i].kind \in Stage}
FenceExpired(d) ==
  LET Fenced(n, t) == t.dep = d /\ t.kind \in Stage /\ t.expired /\ IsLive(t)
      Hit(n, s) == \E i \in Live(n) : Fenced(n, queue[n][i]) /\ queue[n][i].kind = s
      rec == [record EXCEPT ![d] = [n \in Node |-> [s \in Stage |->
                IF Hit(n, s) THEN [@[n][s] EXCEPT !.status = "FAILED"] ELSE @[n][s]]]]
  IN  /\ Expired(d) # {}
      /\ queue' = [n \in Node |-> [i \in TaskIds(n) |->
                     IF Fenced(n, queue[n][i])
                     THEN [queue[n][i] EXCEPT !.status = "FAILED", !.expired = FALSE]
                     ELSE queue[n][i]]]
      /\ Recompute({d}, rec)
      /\ UNCHANGED <<approved, status, cache, variant, disk, job>>

AtRest(d) == LiveOf(d, Stage) = {}

(* ... and then, when no attempt is live and some record is not successful,   *)
(* the failed work is queued again.                                        *)
Apply(d) ==
  /\ Expired(d) = {}
  /\ prep[d] \notin {"NONE", "SUCCEEDED"} /\ AtRest(d)
  /\ SelectedContext(d)
  /\ QueueForApply(d)
  /\ UNCHANGED <<approved, status, cache, variant, disk, job>>

----------------------------------------------------------------------------
(* Attempts end *)

(* A live preparation task i of node n ends: the attempt and its record      *)
(* follow, and ts is the new task row.                                     *)
Ended(n, i, st) == [queue[n][i] EXCEPT !.status = st, !.expired = FALSE]
RecordStatus(st) == IF st = "CANCELED" THEN "FAILED" ELSE st
EndAttempt(n, i, st) ==
  LET t == queue[n][i]
  IN  /\ queue' = [queue EXCEPT ![n][i] = Ended(n, i, st)]
      /\ Recompute({t.dep}, WithStatus(record, t.dep, n, t.kind, RecordStatus(st)))

(* expire_preparation_task *)
ExpireAttempt(n, i) ==
  /\ queue[n][i].kind \in Stage
  /\ queue[n][i].expired /\ AttemptIsCurrent(n, queue[n][i])
  /\ EndAttempt(n, i, "FAILED")
  /\ UNCHANGED <<approved, status, cache, variant, disk, job>>

(* cancel_preparation_task *)
CancelAttempt(n, i) ==
  /\ i \in Live(n) /\ queue[n][i].kind \in Stage
  /\ queue[n][i].status = "QUEUED" \/ queue[n][i].expired
  /\ EndAttempt(n, i, IF queue[n][i].expired THEN "FAILED" ELSE "CANCELED")
  /\ UNCHANGED <<approved, status, cache, variant, disk, job>>

(* revoke_node with revoke_preparation_tasks_for_node.  Quarantine tasks and  *)
(* probes stay as they are; a VERIFY that was running counts as failed.     *)
RevokedTask(t) ==
  CASE t.kind \in Stage \cup {"VERIFY"} /\ t.status = "RUNNING"
         -> [t EXCEPT !.status = "FAILED", !.expired = FALSE]
    [] t.kind \in Stage \cup {"VERIFY"} /\ t.status = "QUEUED"
         -> [t EXCEPT !.status = "CANCELED"]
    [] OTHER -> t

----------------------------------------------------------------------------
(* Cache rows *)

(* _priority_transition: evidence never improves a row.                      *)
Demoted(c, st) == IF Priority[st] < Priority[c.status] THEN c ELSE [c EXCEPT !.status = st]

(* record_preparation_success: the one step that makes a row READY.  It also  *)
(* withdraws a pending quarantine request.                                 *)
MayBeReady(a) == Validated(a)
MadeReady(n, a, i) == [cache EXCEPT ![n][a] = [status |-> "READY", by |-> i, pending |-> 0]]

(* record_verification_failure                                             *)
VerificationFailed(n, a) ==
  IF cache[n][a].status = "NONE" THEN cache
  ELSE [cache EXCEPT ![n][a] = Demoted(@, "CORRUPT")]

(* reconcile_probe_observations for a complete scan that saw `seen`: absence  *)
(* and damage demote the rows the control plane knows; presence changes     *)
(* nothing.                                                                *)
ReconciledMutHeals(n, seen) ==
  [cache EXCEPT ![n] = [a \in Artifact |->
     CASE @[a].status = "NONE" -> @[a]
       [] @[a].status # "NONE" /\ seen[a] = "GOOD" -> [@[a] EXCEPT !.status = "READY"]
       [] @[a].status # "NONE" /\ seen[a] \in {"EMPTY", "MOVED"} -> Demoted(@[a], "MISSING")
       [] OTHER -> Demoted(@[a], "CORRUPT")]]
Reconciled(n, seen) ==
  [cache EXCEPT ![n] = [a \in Artifact |->
     CASE @[a].status = "NONE" \/ seen[a] = "GOOD" -> @[a]
       [] @[a].status # "NONE" /\ seen[a] \in {"EMPTY", "MOVED"} -> Demoted(@[a], "MISSING")
       [] OTHER -> Demoted(@[a], "CORRUPT")]]

(* transition_stage_artifact_variant to REVOKED: mark_stage_variant_revoked is  *)
(* part of the transaction.                                                  *)
RevokeVariant(a) ==
  /\ variant[a].status \in {"DRAFT", "VALIDATED"}
  /\ variant' = [variant EXCEPT ![a].status = "REVOKED"]
  /\ cache' = [n \in Node |-> [cache[n] EXCEPT ![a] =
                 IF @.status = "NONE" THEN @ ELSE Demoted(@, "STALE")]]
  /\ UNCHANGED <<approved, status, prep, record, queue, disk, job>>

(* require_ready_cache with _current_ready_attempt: the row is READY by an    *)
(* attempt that is still the current, successful one of its record.         *)
ReadyAttemptCurrent(n, c) ==
  LET t == queue[n][c.by]
  IN  /\ t.kind = "MODEL" /\ t.status = "SUCCEEDED"
      /\ record[t.dep][n]["MODEL"] = [status |-> "SUCCEEDED", no |-> t.no]
HasReadyCache(n, a) ==
  LET c == cache[n][a]
  IN  /\ Validated(a)
      /\ c.status = "READY" /\ c.pending = 0
      /\ ReadyAttemptCurrent(n, c)

(* effective_deployment_plan with require_prepared: every node has the        *)
(* evidence of both stages, and the exact cache is still READY.             *)
EvidenceComplete(d) ==
  \A n \in Assigned[d] :
    /\ \A s \in Stage : record[d][n][s].status = "SUCCEEDED"
    /\ HasReadyCache(n, Identity[d])
HasEffectivePlan(d) == prep[d] = "SUCCEEDED" /\ VariantValid(d) /\ EvidenceComplete(d)

----------------------------------------------------------------------------
(* Quarantine *)

(* artifact_cache_reference_projection: current generations, their VERIFIED  *)
(* predecessors, open preparations, operations and live tasks.  A current    *)
(* generation without a preparation leaves the proof incomplete.            *)
Referring(d) ==
  /\ status[d] # "ABSENT"
  /\ \/ IsLatest(d)
     \/ status[d] = "VERIFIED" /\ \E e \in SuccessorOf(d) : IsLatest(e)
Referenced(n, a) ==
  \/ \E i \in Live(n) : queue[n][i].kind # "PROBE"
  \/ \E d \in Deployment : Active(d) /\ n \in Assigned[d]
  \/ \E d \in Deployment : /\ prep[d] \in {"PREPARED", "QUEUED", "RUNNING"}
                           /\ n \in Assigned[d] /\ Identity[d] = a
  \/ \E d \in Deployment : Referring(d) /\ n \in Assigned[d]
                           /\ (Identity[d] = a \/ prep[d] = "NONE")

(* request_cache_quarantine: the row is taken out of use and names the task.  *)
Withdrawn(n, a, i) == [cache EXCEPT ![n][a] = [Demoted(@, "STALE") EXCEPT !.pending = i]]

(* prepare_or_apply_artifact_cache_quarantine                                *)
RequestQuarantine(n, a) ==
  /\ n \in approved
  /\ cache[n][a].status \notin {"NONE", "MISSING", "QUARANTINED"}
  /\ cache[n][a].pending = 0
  /\ ~Referenced(n, a) /\ Live(n) = {}
  /\ Len(queue[n]) < MaxTasks[n]
  /\ queue' = [queue EXCEPT ![n] = Append(@, NewTask("QUARANTINE", NoDeployment, a, 0))]
  /\ cache' = Withdrawn(n, a, Len(queue[n]) + 1)
  /\ UNCHANGED <<approved, status, prep, record, variant, disk, job>>

(* complete_cache_quarantine: only the pending request may be completed.     *)
Completed(n, a, i, succeeded) ==
  [cache EXCEPT ![n][a] =
     [@ EXCEPT !.status = IF succeeded THEN "QUARANTINED" ELSE cache[n][a].status,
               !.pending = 0]]

(* _finish_artifact_cache_quarantine_task, on a report of the agent           *)
FinishQuarantine(n, i, succeeded) ==
  LET t == queue[n][i]
  IN  /\ t.status = "RUNNING" /\ cache[n][t.art].pending = i
      /\ queue' = [queue EXCEPT ![n][i] = Ended(n, i, IF succeeded THEN "SUCCEEDED" ELSE "FAILED")]
      /\ cache' = Completed(n, t.art, i, succeeded)
      /\ UNCHANGED <<status, prep, record>>

(* cancel_task on a quarantine task that is queued or whose lease ran out     *)
CancelQuarantine(n, i) ==
  LET t == queue[n][i]
  IN  /\ i \in Live(n) /\ t.kind = "QUARANTINE"
      /\ t.status = "QUEUED" \/ t.expired
      /\ cache[n][t.art].pending = i
      /\ queue' = [queue EXCEPT ![n][i] = Ended(n, i, "CANCELED")]
      /\ cache' = Completed(n, t.art, i, FALSE)
      /\ UNCHANGED <<approved, status, prep, record, variant, disk, job>>

----------------------------------------------------------------------------
(* Generations that use the caches *)

(* _lock_deployment_creation_nodes: no quarantine is live on the new nodes.  *)
NoLiveQuarantineMutRunning(ns) ==
  \A n \in ns : \A i \in Live(n) :
    ~(queue[n][i].kind = "QUARANTINE" /\ queue[n][i].status = "RUNNING")
NoLiveQuarantine(ns) ==
  \A n \in ns : \A i \in Live(n) : queue[n][i].kind # "QUARANTINE"

(* The catalog offers a stage variant only while it is valid.                  *)
Offered(d) == VariantValid(d)

(* accept_deployment_recommendation                                          *)
Accept(d) ==
  /\ status[d] = "ABSENT" /\ Offered(d)
  /\ Previous[d] # NoDeployment =>
       /\ status[Previous[d]] \notin {"ABSENT", "VERIFYING"}
       /\ IsLatest(Previous[d])
  /\ NoLiveQuarantine(Assigned[d])
  /\ status' = [status EXCEPT ![d] = "CREATED"]
  /\ UNCHANGED <<approved, prep, record, queue, cache, variant, disk, job>>

(* A generic VERIFY operation on every node of the generation: it needs the   *)
(* effective plan, and its nodes to itself.                                *)
Verify(d) ==
  /\ status[d] \notin {"ABSENT", "VERIFYING"}
  /\ Assigned[d] \subseteq approved
  /\ \A n \in Assigned[d] : Len(queue[n]) < MaxTasks[n]
                            /\ \A i \in Live(n) : queue[n][i].kind = "PROBE"
  /\ \A e \in Overlapping(d) : ~Active(e)
  /\ HasEffectivePlan(d)
  /\ status' = [status EXCEPT ![d] = "VERIFYING"]
  /\ queue' = [n \in Node |-> IF n \in Assigned[d]
                 THEN Append(queue[n], NewTask("VERIFY", d, Identity[d], 0))
                 ELSE queue[n]]
  /\ UNCHANGED <<approved, prep, record, cache, variant, disk, job>>

(* What the operation comes to once task rows are q: the last VERIFY task of  *)
(* each node decides.                                                      *)
LastVerify(q, d, n) ==
  q[n][CHOOSE i \in DOMAIN q[n] :
         /\ q[n][i].kind = "VERIFY" /\ q[n][i].dep = d
         /\ \A j \in DOMAIN q[n] : q[n][j].kind = "VERIFY" /\ q[n][j].dep = d => j <= i]
OperationStatus(q, d) ==
  LET outcome == {LastVerify(q, d, n).status : n \in Assigned[d]}
  IN  CASE outcome \cap LiveStatus # {} -> "VERIFYING"
        [] outcome = {"SUCCEEDED"} -> "VERIFIED"
        [] OTHER -> "VERIFY_FAILED"

(* finish_operation_task and cancel_operation_task for a VERIFY: a failed      *)
(* verification, a lost lease included, also condemns the exact cache; a      *)
(* canceled one does not.                                                  *)
EndVerify(n, i, st) ==
  LET t == queue[n][i]
      q == [queue EXCEPT ![n][i] = Ended(n, i, st)]
  IN  /\ queue' = q
      /\ status' = [status EXCEPT ![t.dep] = OperationStatus(q, t.dep)]
      /\ cache' = IF st = "FAILED" THEN VerificationFailed(n, t.art) ELSE cache
      /\ UNCHANGED <<prep, record>>

ExpireVerify(n, i) ==
  /\ queue[n][i].kind = "VERIFY" /\ queue[n][i].expired
  /\ EndVerify(n, i, "FAILED")
  /\ UNCHANGED <<approved, variant, disk, job>>

CancelVerify(n, i) ==
  /\ i \in Live(n) /\ queue[n][i].kind = "VERIFY"
  /\ queue[n][i].status = "QUEUED" \/ queue[n][i].expired
  /\ EndVerify(n, i, IF queue[n][i].expired THEN "FAILED" ELSE "CANCELED")
  /\ UNCHANGED <<approved, variant, disk, job>>

RequestProbe(n) ==
  /\ n \in approved /\ Len(queue[n]) < MaxTasks[n]
  /\ \A i \in Live(n) : queue[n][i].kind # "PROBE"
  /\ queue' = [queue EXCEPT ![n] = Append(@, NewTask("PROBE", NoDeployment, "NONE", 0))]
  /\ UNCHANGED <<approved, status, prep, record, cache, variant, disk, job>>

(* revoke_node: every live preparation, and every operation task, of the node  *)
(* ends in the transaction that takes the credential away.                  *)
Revoke(n) ==
  LET q == [queue EXCEPT ![n] = [i \in TaskIds(n) |-> RevokedTask(queue[n][i])]]
      Hit(d, s) == \E i \in Live(n) : queue[n][i].dep = d /\ queue[n][i].kind = s
      rec == [d \in Deployment |-> [record[d] EXCEPT ![n] = [s \in Stage |->
                IF Hit(d, s) THEN [@[s] EXCEPT !.status = "FAILED"] ELSE @[s]]]]
      failed == {queue[n][i].art : i \in {j \in Live(n) :
                   queue[n][j].kind = "VERIFY" /\ queue[n][j].status = "RUNNING"}}
  IN  /\ n \in Departing \cap approved
      /\ approved' = approved \ {n}
      /\ queue' = q
      /\ Recompute({d \in Deployment : \E s \in Stage : Hit(d, s)}, rec)
      /\ status' = [d \in Deployment |->
                      IF Hit(d, "VERIFY") THEN OperationStatus(q, d) ELSE status[d]]
      /\ cache' = [cache EXCEPT ![n] = [a \in Artifact |->
                     IF a \in failed THEN VerificationFailed(n, a)[n][a] ELSE @[a]]]
      /\ UNCHANGED <<variant, disk, job>>

(* rotate_node_credential *)
Rotate(n) ==
  /\ n \in Departing \ approved
  /\ approved' = approved \cup {n}
  /\ UNCHANGED <<status, prep, record, queue, cache, variant, disk, job>>

----------------------------------------------------------------------------
(* Agents *)

Leased(n) == \E i \in TaskIds(n) : queue[n][i].status = "RUNNING" /\ ~queue[n][i].expired
Claimable(n) == {i \in TaskIds(n) : queue[n][i].status = "QUEUED" \/ queue[n][i].expired}
Next1(n, i) == /\ n \in approved /\ ~Leased(n) /\ i \in Claimable(n)
               /\ \A j \in Claimable(n) : i <= j

(* claim_task, with claim_preparation_task: the oldest claimable task is       *)
(* leased.  An answer that never arrives is a Crash right after it.          *)
Lease(n, i) ==
  LET t == queue[n][i]
  IN  /\ Next1(n, i)
      /\ job[n] = Idle
      /\ t.kind \in Stage => ~t.expired /\ AttemptIsCurrent(n, t)
      /\ t.kind = "VERIFY" => ~t.expired
      /\ queue' = [queue EXCEPT ![n][i] = [t EXCEPT !.status = "RUNNING", !.expired = FALSE]]
      /\ IF t.kind \in Stage
         THEN Recompute({t.dep}, WithStatus(record, t.dep, n, t.kind, "RUNNING"))
         ELSE UNCHANGED <<prep, record>>
      /\ job' = [job EXCEPT ![n] = [Idle EXCEPT !.id = i, !.step = "CLAIMED"]]
      /\ UNCHANGED <<approved, status, cache, variant, disk>>

(* A claim that meets an expired attempt or verification closes it instead.  *)
ClaimExpired(n, i) ==
  /\ Next1(n, i) /\ job[n] = Idle
  /\ ExpireAttempt(n, i) \/ ExpireVerify(n, i)

LeaseExpires(n, i) ==
  /\ i \in TaskIds(n) /\ queue[n][i].status = "RUNNING" /\ ~queue[n][i].expired
  /\ queue' = [queue EXCEPT ![n][i].expired = TRUE]
  /\ UNCHANGED <<approved, status, prep, record, cache, variant, disk, job>>

(* manifest_for_preparation_task serves only the current, running, unexpired *)
(* attempt of an approved node.                                            *)
Served(n, t) == /\ n \in approved /\ t.status = "RUNNING" /\ ~t.expired
                /\ AttemptIsCurrent(n, t)
Fetch(n) ==
  LET t == queue[n][job[n].id]
  IN  /\ job[n].step = "CLAIMED" /\ t.kind = "MODEL"
      /\ job' = [job EXCEPT ![n].step = IF Served(n, t) THEN "FETCHED" ELSE "DONE"]
      /\ UNCHANGED <<control, disk>>

(* extend_preparation_task: a progress report renews the lease of a current   *)
(* attempt; the stored count is a high-water mark.  p may be an older count  *)
(* whose request was delayed.                                              *)
WatermarkMutLast(t, p) == p
WatermarkMutSum(t, p) == t.progress + p
Watermark(t, p) == IF p > t.progress THEN p ELSE t.progress
Extend(n, p) ==
  LET i == job[n].id
      t == queue[n][i]
  IN  /\ job[n].step = "FETCHED"
      /\ Served(n, t)
      /\ queue' = [queue EXCEPT ![n][i].progress = Watermark(t, p)]
      /\ UNCHANGED <<approved, status, prep, record, cache, variant, disk, job>>

(* What carrying out the task does to the disk.  A damaged final directory is *)
(* never overwritten; quarantine renames the directory away.               *)
Carried(n, t, ok) ==
  LET here == disk[n][t.art]
  IN  CASE t.kind = "MODEL" /\ ok -> here # "DAMAGED" /\ disk' = [disk EXCEPT ![n][t.art] = "GOOD"]
        [] t.kind = "QUARANTINE" /\ ok -> here # "EMPTY" /\ disk' = [disk EXCEPT ![n][t.art] = "MOVED"]
        [] t.kind = "VERIFY" /\ ok -> here \in {"GOOD", "DAMAGED"} /\ disk' = disk
        [] OTHER -> disk' = disk
CarryOut(n, ok) ==
  LET t == queue[n][job[n].id]
  IN  /\ job[n].step \in {"CLAIMED", "FETCHED"}
      /\ job[n].step = "FETCHED" <=> t.kind = "MODEL"
      /\ t.kind = "PROBE" => ok
      /\ Carried(n, t, ok)
      /\ job' = [job EXCEPT ![n] = [@ EXCEPT !.step = "DONE", !.ok = ok,
                   !.seen = IF t.kind = "PROBE" THEN disk[n] ELSE Nothing]]
      /\ UNCHANGED control

(* finish_preparation_task                                                   *)
Acceptable(n, t) == Served(n, t)
ModelDone(n, i) ==
  LET t == queue[n][i]
      done == WithStatus(record, t.dep, n, "MODEL", "SUCCEEDED")
      rec == Requeued(done, t.dep, {n}, "IMAGE")
      row == [Ended(n, i, "SUCCEEDED") EXCEPT !.progress = Chunks]
  IN  /\ MayBeReady(t.art)
      /\ queue' = [queue EXCEPT ![n] = Append([@ EXCEPT ![i] = row],
                                              AttemptTask(rec, t.dep, n, "IMAGE"))]
      /\ Recompute({t.dep}, rec)
      /\ cache' = MadeReady(n, t.art, i)
FinishAttempt(n, i, ok) ==
  LET t == queue[n][i]
  IN  \/ /\ Acceptable(n, t)
         /\ \/ ok /\ t.kind = "MODEL" /\ ModelDone(n, i)
            \/ ok /\ t.kind = "IMAGE" /\ EndAttempt(n, i, "SUCCEEDED") /\ UNCHANGED cache
            \/ /\ ~ok \/ (t.kind = "MODEL" /\ ~MayBeReady(t.art))
               /\ EndAttempt(n, i, "FAILED") /\ UNCHANGED cache
         /\ UNCHANGED status
      \/ ~Acceptable(n, t) /\ UNCHANGED <<status, prep, record, queue, cache>>

(* finish_task on the report of a probe: no lease is checked.                 *)
FinishProbe(n, i) ==
  /\ queue[n][i].status = "RUNNING"
  /\ queue' = [queue EXCEPT ![n][i] = Ended(n, i, "SUCCEEDED")]
  /\ cache' = Reconciled(n, job[n].seen)
  /\ UNCHANGED <<status, prep, record>>

(* The report of the carried-out task reaches the control plane.  A task that *)
(* is no longer running ignores it.                                        *)
Report(n) ==
  LET i == job[n].id
      t == queue[n][i]
  IN  /\ job[n].step = "DONE" /\ n \in approved
      /\ \/ t.kind \in Stage /\ FinishAttempt(n, i, job[n].ok)
         \/ t.kind = "VERIFY" /\ t.status = "RUNNING"
            /\ EndVerify(n, i, IF job[n].ok THEN "SUCCEEDED" ELSE "FAILED")
         \/ t.kind = "QUARANTINE" /\ FinishQuarantine(n, i, job[n].ok)
         \/ t.kind = "PROBE" /\ FinishProbe(n, i)
         \/ t.kind \notin Stage /\ t.status # "RUNNING"
            /\ UNCHANGED <<status, prep, record, queue, cache>>
      /\ job' = [job EXCEPT ![n] = Idle]
      /\ UNCHANGED <<approved, variant, disk>>

(* The agent process dies: what it had not reported is lost.                  *)
Crash(n) ==
  /\ job[n] # Idle
  /\ job' = [job EXCEPT ![n] = Idle]
  /\ UNCHANGED <<control, disk>>

(* Something outside dure damages or deletes a cache directory.               *)
Damage(n, a) ==
  /\ a \in Fragile /\ disk[n][a] = "GOOD"
  /\ disk' = [disk EXCEPT ![n][a] = "DAMAGED"]
  /\ UNCHANGED <<control, job>>

----------------------------------------------------------------------------
Init ==
  /\ approved = Node
  /\ status = [d \in Deployment |-> IF d \in InitAccepted THEN "CREATED" ELSE "ABSENT"]
  /\ prep = [d \in Deployment |-> "NONE"]
  /\ record = [d \in Deployment |-> [n \in Node |-> [s \in Stage |->
                 [status |-> "PREPARED", no |-> 0]]]]
  /\ queue = [n \in Node |-> << >>]
  /\ cache = [n \in Node |-> [a \in Artifact |->
                [status |-> "NONE", by |-> 0, pending |-> 0]]]
  /\ variant = [a \in Staged |-> [status |-> "NONE", gpu |-> "NONE"]]
  /\ disk = [n \in Node |-> Nothing]
  /\ job = [n \in Node |-> Idle]

Preparing(d) ==
  \/ \E apply \in BOOLEAN : Create(d, apply)
  \/ FenceExpired(d) \/ Apply(d)

Admin ==
  \/ \E d \in Deployment : Preparing(d) \/ Accept(d) \/ Verify(d)
  \/ \E n \in Node, a \in Artifact : RequestQuarantine(n, a)
  \/ \E n \in Node : RequestProbe(n) \/ Revoke(n) \/ Rotate(n)
  \/ \E n \in Node : \E i \in TaskIds(n) :
       CancelAttempt(n, i) \/ CancelVerify(n, i) \/ CancelQuarantine(n, i)
  \/ \E a \in Staged :
       \/ RegisterVariant(a) \/ ValidateVariant(a) \/ RevokeVariant(a)
       \/ \E st \in {"PASSED", "FAILED"} : RegisterEvidence(a, st)

Agent(n) ==
  \/ \E i \in TaskIds(n) : Lease(n, i)
  \/ \E i \in TaskIds(n) : ClaimExpired(n, i)
  \/ Fetch(n)
  \/ \E p \in 0 .. Chunks : Extend(n, p)
  \/ \E ok \in BOOLEAN : CarryOut(n, ok)
  \/ Report(n)

Environment ==
  \/ \E n \in Node : \E i \in TaskIds(n) : LeaseExpires(n, i)
  \/ \E n \in Node : Crash(n)
  \/ \E n \in Node, a \in Artifact : Damage(n, a)

Next == Admin \/ (\E n \in Node : Agent(n)) \/ Environment
Spec == Init /\ [][Next]_vars

----------------------------------------------------------------------------
(* Properties *)

(* Every row keeps the shape and the status values of its table.         *)
TypeOK ==
  /\ approved \subseteq Node
  /\ variant \in [Staged -> Variants]
  /\ prep \in [Deployment -> PreparationStatus]
  /\ record \in [Deployment -> [Node -> [Stage -> StageRecords]]]
  /\ \A n \in Node : \A i \in TaskIds(n) : queue[n][i] \in Tasks
  /\ cache \in [Node -> [Artifact -> Caches]]
  /\ disk \in [Node -> [Artifact -> Disk]]
  /\ job \in [Node -> Jobs]

(* A READY row is backed by a successful MODEL attempt that is still the     *)
(* current one of its record, by a variant whose last GPU test passed, and by *)
(* a directory that is there: quarantine never moves it away, whatever is      *)
(* lost between the move and its report.  (Outside damage is found out later.) *)
ReadyIsBacked ==
  \A n \in Node, a \in Artifact : cache[n][a].status = "READY" =>
    /\ HasReadyCache(n, a) /\ Measured(a) /\ queue[n][cache[n][a].by].art = a
    /\ disk[n][a] \in {"GOOD", "DAMAGED"}

(* The proof of no references made when the quarantine is requested stays     *)
(* true until it ends: no generation that uses the cache becomes current,    *)
(* prepares, verifies or is verified behind it.                             *)
QuarantinedIsUnused ==
  \A n \in Node : \A i \in Live(n) : queue[n][i].kind = "QUARANTINE" =>
    /\ \A j \in Live(n) \ {i} : queue[n][j].kind = "PROBE"
    /\ \A d \in Deployment : n \in Assigned[d] =>
         ~Active(d) /\ ~(Referring(d) /\ Identity[d] = queue[n][i].art)

(* A row names a quarantine request exactly while that request's task is     *)
(* live, so a canceled, failed or lost quarantine never blocks the row.      *)
PendingQuarantineHasTask ==
  \A n \in Node :
    /\ \A i \in Live(n) : queue[n][i].kind = "QUARANTINE" => cache[n][queue[n][i].art].pending = i
    /\ \A a \in Artifact : cache[n][a].pending # 0 =>
         cache[n][a].pending \in Live(n)
         /\ LET t == queue[n][cache[n][a].pending] IN t.kind = "QUARANTINE" /\ t.art = a

(* Attempts, tasks and records agree: a live preparation task is the current  *)
(* attempt of its record, a live record has one live task, an image is only   *)
(* fetched where the model is complete, and the preparation says so.  The     *)
(* same of quarantine requests and cache rows.                              *)
AttemptsAgree ==
  /\ PendingQuarantineHasTask
  /\ \A d \in Deployment, n \in Node :
      /\ \A i \in Live(n) : queue[n][i].kind \in Stage => AttemptIsCurrent(n, queue[n][i])
      /\ \A s \in Stage : record[d][n][s].status \in LiveStatus =>
           \E i \in Live(n) : queue[n][i].dep = d /\ queue[n][i].kind = s
      /\ record[d][n]["IMAGE"].no > 0 => record[d][n]["MODEL"].status = "SUCCEEDED"
      /\ prep[d] \in LiveStatus <=> LiveOf(d, Stage) # {}

(* A row becomes READY only by the report of an approved node's running,      *)
(* unexpired and current MODEL attempt.                                     *)
ReadyOnlyByCurrentSuccess ==
  [][\A n \in Node, a \in Artifact :
       cache[n][a].status # "READY" /\ cache'[n][a].status = "READY" =>
         LET t == queue[n][job[n].id]
         IN  /\ job[n].step = "DONE" /\ job[n].ok /\ t.kind = "MODEL" /\ t.art = a
             /\ Served(n, t) /\ Validated(a) /\ disk[n][a] # "MOVED"]_vars

(* An attempt that ended, by expiry, cancellation or revocation, is never     *)
(* revived by the late report of the agent, and progress never runs back.    *)
EndedStaysEnded ==
  [][\A n \in Node : \A i \in TaskIds(n) :
       /\ ~IsLive(queue[n][i]) => queue'[n][i] = queue[n][i]
       /\ queue'[n][i].progress >= queue[n][i].progress]_vars

=============================================================================
