------------------------------- MODULE Fleet -------------------------------
(***************************************************************************)
(* Fleets: recommendation, atomic acceptance with GPU reservations, and the *)
(* runtime of each reserved deployment (control/fleet.py,                  *)
(* fleet_recommendation.py, fleet_acceptance.py, resource_reservation.py,  *)
(* fleet_runtime.py).                                                      *)
(*                                                                         *)
(* Everything that takes possession of a node does it in one transaction    *)
(* under the reservation gate, so an action here is such a transaction.     *)
(* What is not atomic: a recommendation is evaluated long before it is      *)
(* accepted, tasks run and fail on the nodes meanwhile, and the two commands *)
(* `fleet prepare` and `fleet apply` record the failure of a producer in a   *)
(* second transaction, after the first was rolled back.                     *)
(*                                                                         *)
(* Artifact preparation appears as the status it leaves (module             *)
(* Preparation has its detail); a generic operation as one attempt at each   *)
(* phase (module Rollout).                                                 *)
(***************************************************************************)
EXTENDS Integers, FiniteSets

CONSTANTS
  Fleet,        \* recommendations, each accepted as at most one Fleet
  Candidate,    \* placements with current qualification evidence
  NodesOf,      \* [Candidate -> SUBSET Node]: its exact node binding
  Head,         \* [Candidate -> Node]: the Ray head
  Rank,         \* [Candidate -> Nat]: by quality, then identity; 0 is the best
  Variant,      \* stage artifact variants
  VariantOf,    \* [Candidate -> Variant], or NoVariant for a full snapshot
  Node, Gpu,
  GpuOf,        \* [Node -> Gpu]: the GPU UUID of its profile
  Visits,       \* work outside Fleets that may come: <<node, "WORK" or "TASK">>
  Departing,    \* nodes that may be revoked
  MaxFaults,    \* bound: failed tasks, revocations, cancellations, lost evidence
  NoFleet, NoCommand, NoVariant

ASSUME FleetAssumption ==
  /\ NodesOf \in [Candidate -> (SUBSET Node) \ {{}}]
  /\ Head \in [Candidate -> Node] /\ \A c \in Candidate : Head[c] \in NodesOf[c]
  /\ VariantOf \in [Candidate -> Variant \cup {NoVariant}]
  /\ Rank \in [Candidate -> Nat] /\ GpuOf \in [Node -> Gpu]
  /\ \A c, e \in Candidate : Rank[c] = Rank[e] => c = e
  /\ Visits \subseteq Node \X {"WORK", "TASK"} /\ Departing \subseteq Node
  /\ MaxFaults \in Nat
  /\ \A c \in Candidate : \A m, n \in NodesOf[c] : GpuOf[m] = GpuOf[n] => m = n

VARIABLES
  snapshot,   \* FleetRecommendationRecord.recommendation_snapshot, or NoFleet
  fleet,      \* FleetRecord.status, "NONE" before acceptance
  reserved,   \* active FleetResourceReservation rows: <<fleet, candidate, node>>
  visitors,   \* queued or running work that belongs to no Fleet
  online,     \* approved nodes that answer
  evidence,   \* what preparation and apply find when they check a candidate again
  runtime,    \* FleetDeploymentRuntime of each deployment
  prep,       \* ArtifactPreparation.status of each deployment
  ready,      \* <<deployment, node>> with a READY cache of the exact identity
  op,         \* the current DeploymentOperation of each deployment
  verified,   \* deployments with status VERIFIED and verified_at
  command,    \* a producer that failed and has not recorded it yet
  faults

nodeVars == <<visitors, online, evidence, faults>>
vars == <<snapshot, fleet, reserved, runtime, prep, ready, op, verified, command, nodeVars>>

----------------------------------------------------------------------------
(* Rows *)

(* The deployment of a candidate has an identifier derived from both.          *)
Deployment == Fleet \X Candidate
FleetOf(d) == d[1]
Nodes(d) == NodesOf[d[2]]
Bindings(d) == {<<FleetOf(d), d[2], n>> : n \in Nodes(d)}

RuntimeStatus ==
  {"NONE", "ACCEPTED", "PREPARING", "PREPARED", "PREPARE_FAILED", "APPLYING",
   "VERIFYING", "ACTIVE", "APPLY_FAILED", "VERIFY_FAILED"}
Runtimes == [status : RuntimeStatus, prepared : BOOLEAN]
Failures == {"PREPARE_FAILED", "APPLY_FAILED", "VERIFY_FAILED"}
FleetStatus ==
  {"NONE", "ACCEPTED", "PREPARING", "PREPARED", "APPLYING", "VERIFYING", "ACTIVE",
   "PARTIAL_FAILED", "FAILED"}
Reservations == Fleet \X Candidate \X Node
(* REVOKED: the model release is.  WITHDRAWN: the stage variant is.            *)
Evidence == {"CURRENT", "STALE", "REVOKED", "WITHDRAWN"}
Withdrawn(d) == evidence[d[2]] = "WITHDRAWN"

Phases == {"APPLY", "START_API", "VERIFY_API", "VERIFY"}
RecordStatus == {"QUEUED", "RUNNING", "SUCCEEDED", "FAILED", "CANCELED"}
Live == {"QUEUED", "RUNNING"}
Lost == {"FAILED", "CANCELED"}
(* no: which operation it is (0: none yet).  task: the records of its phase.    *)
Operations(d) ==
  [no : Nat, phase : Phases \cup {"COMPLETE"}, done : BOOLEAN,
   status : {"QUEUED", "RUNNING", "SUCCEEDED", "PARTIAL_FAILED", "FAILED"},
   task : [Nodes(d) -> RecordStatus \cup {"NONE"}]]
PhaseNodes(d, ph) == IF ph \in {"START_API", "VERIFY_API"} THEN {Head[d[2]]} ELSE Nodes(d)
QueuedMutSparse(d, no, ph) ==
  [no |-> no, phase |-> ph, done |-> FALSE, status |-> "QUEUED",
   task |-> [n \in PhaseNodes(d, ph) |-> "QUEUED"]]
Queued(d, no, ph) ==
  [no |-> no, phase |-> ph, done |-> FALSE, status |-> "QUEUED",
   task |-> [n \in Nodes(d) |-> IF n \in PhaseNodes(d, ph) THEN "QUEUED" ELSE "NONE"]]
NoOperation(d) ==
  [Queued(d, 0, "APPLY") EXCEPT !.done = TRUE, !.task = [n \in Nodes(d) |-> "NONE"]]

Deployed(f) == {d \in {f} \X Candidate : runtime[d].status # "NONE"}

(* _aggregate_status                                                         *)
Aggregate(f, rt) ==
  LET all == {rt[d].status : d \in Deployed(f)}
  IN  IF all = {"ACTIVE"} THEN "ACTIVE"
      ELSE IF "APPLYING" \in all THEN "APPLYING"
      ELSE IF "VERIFYING" \in all THEN "VERIFYING"
      ELSE IF all \cap Failures # {}
           THEN IF all \subseteq Failures THEN "FAILED" ELSE "PARTIAL_FAILED"
      ELSE IF all = {"PREPARED"} THEN "PREPARED"
      ELSE IF "ACTIVE" \in all THEN "APPLYING"
      ELSE IF all = {"ACCEPTED"} THEN "ACCEPTED" ELSE "PREPARING"

RecomputeMutForgotten(f, rt) == runtime' = rt /\ fleet' = fleet
(* recompute_fleet_runtime_status, in the transaction that changes a runtime    *)
Recompute(f, rt) ==
  /\ runtime' = rt
  /\ fleet' = [fleet EXCEPT ![f] = Aggregate(f, rt)]

SetRuntime(d, r) == Recompute(FleetOf(d), [runtime EXCEPT ![d] = r])

----------------------------------------------------------------------------
(* Who occupies a node *)

SameGpuMutNodeOnly(m, n) == m = n
(* Reservations and placed work count for every node that reports the GPU.     *)
SameGpu(m, n) == GpuOf[m] = GpuOf[n]

ReservedNode(n) == \E r \in reserved : r[3] = n
ReservedGpu(n) == \E r \in reserved : SameGpu(r[3], n)
Operated(n) == \E d \in Deployment : ~op[d].done /\ n \in Nodes(d)

(* _fleet_occupancy                                                          *)
Occupied ==
  {n \in Node : \/ ReservedNode(n) \/ ReservedGpu(n) \/ Operated(n)
                \/ \E v \in visitors : v[1] = n \/ (v[2] = "WORK" /\ SameGpu(v[1], n))}

Compatible(c, e) ==
  c # e => \A m \in NodesOf[c], n \in NodesOf[e] : m # n /\ GpuOf[m] # GpuOf[n]

(* FleetObjectiveScore without minimum replicas: the sorted quality vectors are  *)
(* compared, so the best candidate that only one of two sets has decides.     *)
Outranks(s, t) == \E c \in s \ t : \A e \in t \ s : Rank[c] < Rank[e]

(* schedule_fleet: what the search tries, sets of candidates without conflict,  *)
(* and what consider keeps.                                                  *)
Packings(cs) == {s \in SUBSET cs : \A c, e \in s : Compatible(c, e)}
NoWorse(best, s) == best = s \/ Outranks(best, s)
Schedules(cs) == {best \in Packings(cs) : \A s \in Packings(cs) : NoWorse(best, s)}

(* _project_candidates: qualified on exactly these nodes and GPUs, still there.  *)
CurrentCandidates == {c \in Candidate : evidence[c] = "CURRENT"}

(* evaluate_fleet_recommendation: the inventory it looks at, the candidates     *)
(* whose evidence holds on free nodes, and the record of its choice.          *)
Inventory ==
  [online |-> online, occupied |-> Occupied, current |-> CurrentCandidates]
Eligible(i) == {c \in i.current : NodesOf[c] \subseteq i.online \ i.occupied}
Inventories == [online : SUBSET Node, occupied : SUBSET Node, current : SUBSET Candidate]
Evaluations == [inventory : Inventories, selected : SUBSET Candidate]
Snapshots == Evaluations \cup {NoFleet}

----------------------------------------------------------------------------
(* Recommendation and acceptance *)

(* persist_fleet_recommendation: the record is identified by its content.      *)
Recommend(f) ==
  \E s \in Schedules(Eligible(Inventory)) :
    LET evaluation == [inventory |-> Inventory, selected |-> s]
    IN  /\ snapshot[f] = NoFleet /\ s # {}
        /\ \A g \in Fleet : snapshot[g] # evaluation
        /\ snapshot' = [snapshot EXCEPT ![f] = evaluation]
        /\ UNCHANGED <<fleet, reserved, runtime, prep, ready, op, verified, command, nodeVars>>

StillCurrentMutTrusted(f) == TRUE
(* accept_fleet_recommendation evaluates again, under the gate, and compares   *)
(* the whole snapshot; the same inventory gives the same schedule.            *)
StillCurrent(f) == snapshot[f].inventory = Inventory

(* _validated_existing_fleet: a repeated acceptance returns the stored Fleet if  *)
(* its rows are still those of the snapshot.                                 *)
StoredWhole(f) ==
  /\ Deployed(f) = {f} \X snapshot[f].selected
  /\ {r \in reserved : r[1] = f} = UNION {Bindings(d) : d \in Deployed(f)}

(* All deployments, runtimes and reservations of the snapshot, or none.         *)
Accept(f) ==
  LET ds == {f} \X snapshot[f].selected
  IN  /\ fleet[f] = "NONE" /\ snapshot[f] # NoFleet
      /\ StillCurrent(f)
      /\ \A c, e \in snapshot[f].selected : Compatible(c, e)
      /\ \A d \in ds : \A n \in Nodes(d) : ~ReservedNode(n) /\ ~ReservedGpu(n)
      /\ reserved' = reserved \cup UNION {Bindings(d) : d \in ds}
      /\ runtime' = [d \in Deployment |->
                       IF d \in ds THEN [runtime[d] EXCEPT !.status = "ACCEPTED"] ELSE runtime[d]]
      /\ fleet' = [fleet EXCEPT ![f] = "ACCEPTED"]
      /\ UNCHANGED <<snapshot, prep, ready, op, verified, command, nodeVars>>

(* ensure_fleet_reservation_scope for a request that belongs to no Fleet: work  *)
(* with a plan (a deployment, a qualification, a benchmark) names its GPU,    *)
(* a plain task only its node.                                              *)
ScopeFree(v) == ~ReservedNode(v[1]) /\ (v[2] = "WORK" => ~ReservedGpu(v[1]))

Visit(v) ==
  /\ v \notin visitors /\ v[1] \in online
  /\ ScopeFree(v)
  /\ visitors' = visitors \cup {v}
  /\ UNCHANGED <<snapshot, fleet, reserved, runtime, prep, ready, op, verified, command,
                 online, evidence, faults>>
Leave(v) ==
  /\ v \in visitors
  /\ visitors' = visitors \ {v}
  /\ UNCHANGED <<snapshot, fleet, reserved, runtime, prep, ready, op, verified, command,
                 online, evidence, faults>>

----------------------------------------------------------------------------
(* fleet prepare, one deployment *)

Started == {"APPLYING", "VERIFYING", "ACTIVE", "APPLY_FAILED", "VERIFY_FAILED"}

(* bind_fleet_preparation: once an APPLY was started, a preparation no longer   *)
(* moves the runtime.                                                       *)
MovesBack(d) == runtime[d].status \notin Started

Bind(d, st) ==
  IF ~MovesBack(d)
  THEN UNCHANGED <<runtime, fleet>>
  ELSE SetRuntime(d, [runtime[d] EXCEPT
         !.prepared = TRUE,
         !.status = CASE st = "SUCCEEDED" -> "PREPARED"
                      [] st = "FAILED" -> "PREPARE_FAILED"
                      [] st = "RUNNING" -> "PREPARING"])

Preparable(d) == evidence[d[2]] = "CURRENT" /\ Nodes(d) \subseteq online
Settled(d) == prep[d] \in {"SUCCEEDED", "RUNNING"}
MayPrepare(d) == runtime[d].status \notin Started \cup {"NONE"}

(* A finished or running preparation is bound as it is; another one is queued.  *)
PrepareFleet(d) ==
  /\ MayPrepare(d) /\ (Settled(d) \/ Preparable(d))
  /\ prep' = [prep EXCEPT ![d] = IF Settled(d) THEN @ ELSE "RUNNING"]
  /\ Bind(d, prep'[d])
  /\ UNCHANGED <<snapshot, reserved, ready, op, verified, command, nodeVars>>

Expected(d) == <<runtime[d].status, runtime[d].prepared, op[d].no>>
Failed(kind, d) == [kind |-> kind, dep |-> d, expected |-> Expected(d)]

PrepareFails(d) ==
  /\ command = NoCommand
  /\ MayPrepare(d) /\ ~Settled(d) /\ ~Preparable(d)
  /\ command' = Failed("PREPARE", d)
  /\ UNCHANGED <<snapshot, fleet, reserved, runtime, prep, ready, op, verified, nodeVars>>

(* The agents finish a preparation, or an attempt of it fails or expires;       *)
(* sync_fleet_preparation_status follows in the same transaction.  A model that *)
(* arrives for a revoked variant fails its attempt; where only images are left, *)
(* the preparation succeeds without its caches.                              *)
PreparationEnds(d) ==
  /\ prep[d] = "RUNNING"
  /\ \/ /\ prep' = [prep EXCEPT ![d] = "SUCCEEDED"]
        /\ ready' = IF Withdrawn(d) THEN ready ELSE ready \cup ({d} \X Nodes(d))
        /\ UNCHANGED faults
     \/ /\ \/ faults < MaxFaults /\ faults' = faults + 1
           \/ Withdrawn(d) /\ UNCHANGED faults
        /\ prep' = [prep EXCEPT ![d] = "FAILED"]
        /\ UNCHANGED ready
  /\ Bind(d, prep'[d])
  /\ UNCHANGED <<snapshot, reserved, op, verified, command, visitors, online, evidence>>

----------------------------------------------------------------------------
(* fleet apply, one deployment *)

(* effective_deployment_plan: a later phase of the operation checks all but the *)
(* qualification, which its own tasks would seem to contradict.              *)
Queueable(d) ==
  /\ prep[d] = "SUCCEEDED" /\ evidence[d[2]] \notin {"REVOKED", "WITHDRAWN"}
  /\ {d} \X Nodes(d) \subseteq ready
Applicable(d) == Queueable(d) /\ evidence[d[2]] = "CURRENT" /\ Nodes(d) \subseteq online

MayApply(d) == runtime[d].status \in {"PREPARED", "APPLY_FAILED", "VERIFY_FAILED"} /\ op[d].done

(* bind_fleet_operation                                                      *)
BindOperation(d, o) ==
  /\ op' = [op EXCEPT ![d] = o]
  /\ SetRuntime(d, [runtime[d] EXCEPT !.status = "APPLYING"])

(* create_tasks for every reserved node                                       *)
ApplyFleet(d) ==
  /\ MayApply(d) /\ Applicable(d)
  /\ BindOperation(d, Queued(d, op[d].no + 1, "APPLY"))
  /\ UNCHANGED <<snapshot, reserved, prep, ready, verified, command, nodeVars>>

ApplyFails(d) ==
  /\ command = NoCommand
  /\ MayApply(d) /\ ~Applicable(d)
  /\ command' = Failed("APPLY", d)
  /\ UNCHANGED <<snapshot, fleet, reserved, runtime, prep, ready, op, verified, nodeVars>>

UnchangedSinceMutAlways(c) == TRUE
(* _record_runtime_failure compares before it writes: another request may have  *)
(* succeeded since the producer was rolled back.                             *)
UnchangedSince(c) == c.expected = Expected(c.dep)

RecordFailure ==
  LET d == command.dep
  IN  /\ command # NoCommand
      /\ \/ /\ UnchangedSince(command)
            /\ SetRuntime(d, [runtime[d] EXCEPT !.status =
                               IF command.kind = "APPLY" THEN "APPLY_FAILED" ELSE "PREPARE_FAILED"])
         \/ ~UnchangedSince(command) /\ UNCHANGED <<runtime, fleet>>
      /\ command' = NoCommand
      /\ UNCHANGED <<snapshot, reserved, prep, ready, op, verified, nodeVars>>

(* The control plane stops before the second transaction.                      *)
LoseCommand ==
  /\ command # NoCommand /\ command' = NoCommand
  /\ UNCHANGED <<snapshot, fleet, reserved, runtime, prep, ready, op, verified, nodeVars>>

----------------------------------------------------------------------------
(* The operation *)

(* sync_fleet_operation_status                                               *)
Synced(o) ==
  IF o.status \in {"FAILED", "PARTIAL_FAILED"}
  THEN IF o.phase \in {"VERIFY", "VERIFY_API"} THEN "VERIFY_FAILED" ELSE "APPLY_FAILED"
  ELSE IF o.phase = "COMPLETE" THEN "ACTIVE"
  ELSE IF o.phase \in {"VERIFY", "VERIFY_API"} THEN "VERIFYING" ELSE "APPLYING"
SetOperation(d, o) ==
  /\ op' = [op EXCEPT ![d] = o]
  /\ SetRuntime(d, [runtime[d] EXCEPT !.status = Synced(o)])

TasksIn(o, sts) == {n \in DOMAIN o.task : o.task[n] \in sts}

(* _update_failed_operation                                                  *)
Judged(o) ==
  [o EXCEPT !.status = IF TasksIn(o, Lost) = TasksIn(o, RecordStatus)
                       THEN "FAILED" ELSE "PARTIAL_FAILED",
            !.done = TasksIn(o, Live) = {}]

NextPhase(ph) ==
  CASE ph = "APPLY" -> "START_API" [] ph = "START_API" -> "VERIFY_API"
    [] ph = "VERIFY_API" -> "VERIFY" [] ph = "VERIFY" -> "COMPLETE"

PhaseDoneMutFirst(o) == TasksIn(o, {"SUCCEEDED"}) # {}
PhaseDone(o) == TasksIn(o, {"SUCCEEDED"}) = TasksIn(o, RecordStatus)

(* finish_operation_task after a success, _finish_generic_operation             *)
Advanced(d, o) ==
  IF TasksIn(o, Lost) # {} THEN Judged(o)
  ELSE IF ~PhaseDone(o) THEN [o EXCEPT !.status = "RUNNING"]
  ELSE IF o.phase = "VERIFY"
       THEN [o EXCEPT !.status = "SUCCEEDED", !.phase = "COMPLETE", !.done = TRUE]
  ELSE Queued(d, o.no, NextPhase(o.phase))

ClaimTask(d, n) ==
  /\ op[d].task[n] = "QUEUED" /\ n \in online
  /\ SetOperation(d, [op[d] EXCEPT !.task[n] = "RUNNING", !.status = "RUNNING"])
  /\ UNCHANGED <<snapshot, reserved, prep, ready, verified, command, nodeVars>>

(* A phase that cannot be queued fails the report, and the task stays with its  *)
(* lease.                                                                   *)
TaskSucceeds(d, n) ==
  LET o == Advanced(d, [op[d] EXCEPT !.task[n] = "SUCCEEDED"])
  IN  /\ op[d].task[n] = "RUNNING" /\ n \in online
      /\ o.phase \notin {op[d].phase, "COMPLETE"} => Queueable(d)
      /\ SetOperation(d, o)
      /\ verified' = IF o.phase = "COMPLETE" THEN verified \cup {d} ELSE verified
      /\ UNCHANGED <<snapshot, reserved, prep, ready, command, nodeVars>>

(* A failed verification also marks the node's cache CORRUPT.                  *)
LoseTask(d, n, st) ==
  /\ SetOperation(d, Judged([op[d] EXCEPT !.task[n] = st]))
  /\ ready' = IF st = "FAILED" /\ op[d].phase = "VERIFY" THEN ready \ {<<d, n>>} ELSE ready

(* The task fails, or its lease runs out.  A report that cannot advance the     *)
(* operation leaves only that.                                              *)
TaskFails(d, n) ==
  /\ op[d].task[n] = "RUNNING"
  /\ \/ faults < MaxFaults /\ faults' = faults + 1
     \/ ~Queueable(d) /\ UNCHANGED faults
  /\ LoseTask(d, n, "FAILED")
  /\ UNCHANGED <<snapshot, reserved, prep, verified, command, visitors, online, evidence>>

CancelTask(d, n) ==
  /\ op[d].task[n] = "QUEUED"
  /\ faults < MaxFaults /\ faults' = faults + 1
  /\ LoseTask(d, n, "CANCELED")
  /\ UNCHANGED <<snapshot, reserved, prep, verified, command, visitors, online, evidence>>

----------------------------------------------------------------------------
(* Nodes and evidence *)

(* revoke_node: the node's preparation and operation tasks are canceled or      *)
(* failed.                                                                  *)
Revoke(n) ==
  /\ n \in Departing \cap online /\ faults < MaxFaults
  /\ faults' = faults + 1 /\ online' = online \ {n}
  /\ \/ \E d \in Deployment :
          /\ n \in Nodes(d) /\ op[d].task[n] \in Live
          /\ LoseTask(d, n, IF op[d].task[n] = "QUEUED" THEN "CANCELED" ELSE "FAILED")
          /\ UNCHANGED prep
     \/ \E d \in Deployment :
          /\ n \in Nodes(d) /\ prep[d] = "RUNNING"
          /\ \E st \in {"RUNNING", "FAILED"} :
               prep' = [prep EXCEPT ![d] = st] /\ Bind(d, st)
          /\ UNCHANGED <<op, ready>>
     \/ /\ \A d \in Deployment : n \in Nodes(d) =>
               op[d].task[n] \notin Live /\ prep[d] # "RUNNING"
        /\ UNCHANGED <<op, runtime, fleet, prep, ready>>
  /\ UNCHANGED <<snapshot, reserved, verified, command, visitors, evidence>>
Return(n) ==
  /\ n \notin online /\ online' = online \cup {n}
  /\ UNCHANGED <<snapshot, fleet, reserved, runtime, prep, ready, op, verified, command,
                 visitors, evidence, faults>>

(* Evidence expires or is replaced, or the model release is revoked, which      *)
(* leaves the caches as they are.                                            *)
LoseEvidence(c) ==
  /\ evidence[c] = "CURRENT" /\ faults < MaxFaults /\ faults' = faults + 1
  /\ \E e \in {"STALE", "REVOKED"} : evidence' = [evidence EXCEPT ![c] = e]
  /\ UNCHANGED <<snapshot, fleet, reserved, runtime, prep, ready, op, verified, command,
                 visitors, online>>
(* transition_stage_artifact_variant to REVOKED: mark_stage_variant_revoked     *)
(* makes every cache of the variant STALE in the same transaction, whatever   *)
(* deployment uses it.                                                       *)
RevokeVariant(v) ==
  LET users == {c \in Candidate : VariantOf[c] = v}
  IN  /\ \E c \in users : evidence[c] # "WITHDRAWN"
      /\ faults < MaxFaults /\ faults' = faults + 1
      /\ evidence' = [c \in Candidate |-> IF c \in users THEN "WITHDRAWN" ELSE evidence[c]]
      /\ ready' = {x \in ready : x[1][2] \notin users}
      /\ UNCHANGED <<snapshot, fleet, reserved, runtime, prep, op, verified, command,
                     visitors, online>>
RegainEvidence(c) ==
  /\ evidence[c] = "STALE" /\ evidence' = [evidence EXCEPT ![c] = "CURRENT"]
  /\ UNCHANGED <<snapshot, fleet, reserved, runtime, prep, ready, op, verified, command,
                 visitors, online, faults>>

----------------------------------------------------------------------------
Init ==
  /\ snapshot = [f \in Fleet |-> NoFleet]
  /\ fleet = [f \in Fleet |-> "NONE"]
  /\ reserved = {} /\ visitors = {} /\ online = Node
  /\ evidence = [c \in Candidate |-> "CURRENT"]
  /\ runtime = [d \in Deployment |-> [status |-> "NONE", prepared |-> FALSE]]
  /\ prep = [d \in Deployment |-> "NONE"]
  /\ ready = {} /\ verified = {}
  /\ op = [d \in Deployment |-> NoOperation(d)]
  /\ command = NoCommand /\ faults = 0

Planner == \E f \in Fleet : Recommend(f) \/ Accept(f)
Others == \E v \in Visits : Visit(v) \/ Leave(v)
Operator ==
  \/ \E d \in Deployment :
       \/ PrepareFleet(d) \/ PrepareFails(d) \/ ApplyFleet(d) \/ ApplyFails(d)
       \/ \E n \in Nodes(d) : CancelTask(d, n)
  \/ RecordFailure \/ LoseCommand
Agents ==
  \E d \in Deployment :
    \/ PreparationEnds(d)
    \/ \E n \in Nodes(d) : ClaimTask(d, n) \/ TaskSucceeds(d, n) \/ TaskFails(d, n)
World ==
  \/ \E n \in Node : Revoke(n) \/ Return(n)
  \/ \E c \in Candidate : LoseEvidence(c) \/ RegainEvidence(c)
  \/ \E v \in Variant : RevokeVariant(v)

Next == Planner \/ Others \/ Operator \/ Agents \/ World
Spec == Init /\ [][Next]_vars

----------------------------------------------------------------------------
(* Properties *)

(* Every row keeps the shape and the status values of its table.               *)
TypeOK ==
  /\ snapshot \in [Fleet -> Snapshots]
  /\ fleet \in [Fleet -> FleetStatus]
  /\ reserved \subseteq Reservations
  /\ visitors \subseteq Visits /\ online \subseteq Node
  /\ evidence \in [Candidate -> Evidence]
  /\ runtime \in [Deployment -> Runtimes]
  /\ \A d \in Deployment : op[d] \in Operations(d)
  /\ prep \in [Deployment -> {"NONE", "RUNNING", "SUCCEEDED", "FAILED"}]
  /\ ready \subseteq Deployment \X Node /\ verified \subseteq Deployment
  /\ faults \in 0 .. MaxFaults

(* A GPU has at most one reservation, although a Fleet is accepted on the       *)
(* strength of a snapshot taken long before, and although two nodes may report *)
(* one GPU.                                                                  *)
GpuReservedOnce ==
  \A r, s \in reserved : r # s => r[3] # s[3] /\ GpuOf[r[3]] # GpuOf[s[3]]

(* What comes from outside never runs on a reserved node, and placed work from  *)
(* outside never on a reserved GPU, whichever was there first.                *)
ReservedForFleetOnly ==
  \A v \in visitors, r \in reserved :
    /\ v[1] # r[3]
    /\ v[2] = "WORK" => GpuOf[v[1]] # GpuOf[r[3]]

(* A deployment reads ACTIVE exactly when it is VERIFIED: every phase of its     *)
(* current operation ended on every node after a preparation that succeeded,   *)
(* and nothing later takes one of the two rows back, whatever becomes of the   *)
(* nodes, the evidence and the caches.                                       *)
ActiveIsVerified ==
  \A d \in Deployment :
    /\ runtime[d].status = "ACTIVE" <=> d \in verified
    /\ d \in verified =>
         /\ op[d].status = "SUCCEEDED" /\ op[d].done /\ prep[d] = "SUCCEEDED"
         /\ \A n \in Nodes(d) : op[d].task[n] = "SUCCEEDED"

(* The status of a Fleet is the aggregate of its deployments, whichever         *)
(* transaction changed one of them last.                                    *)
AggregateIsCurrent ==
  \A f \in Fleet : fleet[f] = IF Deployed(f) = {} THEN "NONE" ELSE Aggregate(f, runtime)

(* While an operation has live tasks the runtime shows what it is doing: the    *)
(* late record of a failed command does not hide it.                         *)
RuntimeShowsOperation ==
  \A d \in Deployment : ~op[d].done => runtime[d].status = Synced(op[d])

(* The rows of an accepted Fleet stay those of its snapshot, so that accepting  *)
(* it again finds it.                                                       *)
AcceptedIsWhole == \A f \in Fleet : fleet[f] # "NONE" => StoredWhole(f)

(* Runtime and Fleet rows, which five modules write, say what the operations    *)
(* and the tasks do.                                                       *)
StatusesAgree == AggregateIsCurrent /\ RuntimeShowsOperation /\ AcceptedIsWhole

(* A preparation that ends late, or is asked for again, does not take a         *)
(* deployment back behind its first APPLY.                                   *)
NeverBackToPreparing ==
  [][\A d \in Deployment :
       runtime[d].status \in Started => runtime'[d].status \in Started]_runtime
=============================================================================
