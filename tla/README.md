# A verification of the dure control plane

`dure` (in `src/dure/src/dure`) serves large language models on a pool of GPU
machines. A control plane keeps deployments, nodes, tasks and operations in a
SQL database; an agent on each machine polls for tasks, executes them with
Docker and Ray and reports the outcome. The hard part is not any single
request. It is that administrators, agents, lease expiries and node departures
interleave over the same few rows, and that a rollback of a running generation
is a distributed transaction that may fail in any phase on any node.

This directory holds TLA+ modules translated from that code, the TLC runs that
check them on small instances, and theorems about them that TLAPS proves for
every instance. The reference is the code. Where a document or a docstring says
something else, that is recorded as a finding, not modelled.

Contents: [inventory](#inventory-of-the-system), [plan](#plan),
the modules [Rollout](#rollout-operations-tasks-and-membership),
[Agent](#agent-journal-lost-answers-and-leaving),
[Preparation](#preparation-attempts-and-cache-rows),
[NodeStore](#nodestore-the-cache-on-disk),
[Fleet](#fleet-reservations-and-runtimes) and
[Evidence](#evidence-qualification-benchmarks-promotion),
[runs](#runs), [proofs](#proofs), [findings](#findings),
[what is not modelled](#not-modelled).

    tlc -workers 2 -config Rollback.cfg MCRollout.tla  # any of the runs
    tlc -workers 2 -config AgentEnds.cfg Agent.tla     # the Agent* runs
    tlapm RolloutProofs.tla                            # the proofs
    tlapm RolloutRowProofs.tla
    tlapm AgentProofs.tla
    tlapm PreparationProofs.tla
    tlapm FleetProofs.tla
    tlapm NodeStoreProofs.tla
    tlapm EvidenceProofs.tla

## Inventory of the system

Paths are relative to `src/dure/src/dure`. `PROJECT.json` lists the same parts
with their status, and every hazard with its line.

### Control plane

**Deployment operations and rollback** (`control/rollout.py`).
State: `DeploymentOperation` rows (kind, source and target generation, phase,
status, `active_lineage_id`), one `DeploymentOperationNode` row per phase and
node (status, attempt number, task), and the deployment's `status` and
`verified_at`. Operations: attach a bulk APPLY or VERIFY, prepare, apply and
retry a rollback, and the hooks that claim, finish, cancel and revoke call.
A rollback runs STOP_SOURCE, START_TARGET, VERIFY_TARGET and, when it serves,
START_API and VERIFY_API; the last report of a phase queues the next phase in
the same transaction. Hard: sibling nodes fail while others run; a retry queues
the failed nodes only; a report of an old attempt arrives late; the cache gate
is checked between stopping the source and starting the target; two lineages
meet on one node. Correct when: active operations own their nodes and lineage
alone, every live task belongs to the current attempt, phases run in order,
operations settle, verification evidence is true.

**Task queues and leases** (`control/service.py`, `control/api.py`, `task.py`).
State: `Task` rows with status, lease expiry and attempt. Operations:
`create_tasks`, `claim_task`, `extend_task`, `finish_task`, `cancel_task`.
Claiming takes the oldest claimable task of the node when no lease is running;
an expired lease makes an unbound task claimable again and fails a bound one.
Hard: the claim endpoint reads `approved` before the transaction locks the
node; a late report of an expired lease; a rejected claim at the head of a
queue would block the node for ever. Correct when: one lease per node, no
overtaking, no orphaned and no unclaimable task.

**Node membership and credentials** (`control/service.py`). State: `Node`
rows, credentials, enrollment tokens. Operations: join, approve, rotate,
revoke, unjoin. A revocation cancels or fails the node's operation tasks; an
UNJOIN task that succeeds removes the node. Correct when: an operation never
waits for a task that nobody can end.

**Deployment generations** (`control/recommendation.py`,
`control/models.py`). State: immutable generations, each pointing to the
previous one of its lineage. Operations: recommend, accept. Correct when: a
lineage is a chain, and an active rollback keeps a valid source and target.

**Artifact preparation** (`control/preparation.py`). State: one preparation per
deployment, one row per node and stage (MODEL, IMAGE), its attempts with task,
lease and progress. Operations: prepare, apply, retry, claim, renew, serve the
manifest, finish, expire, cancel, revoke. Hard: an expired attempt that reports,
renews or counts progress after its successor was queued; the status of a
preparation is derived from rows that five transactions write. Correct when: an
ended attempt changes nothing, and attempts, tasks, rows and status agree.

**Artifact cache lifecycle** (`control/cache_lifecycle.py`,
`cache_quarantine.py`). State: one cache row per node and exact identity (READY,
STALE, MISSING, CORRUPT, QUARANTINED), a pending quarantine request. Operations:
a successful preparation, a probe's observation, a failed verification, a
revoked variant, and a quarantine in two steps (request, report). Hard: they
change the same row in any order, each from a view of the disk that may be old.
Correct when: only a current success makes a row READY, what is READY is on the
disk, and a quarantine never takes a cache that is in use.

**Stage artifact registry and builder** (`control/stage_artifacts.py`,
`stage_artifact.py`, `stage_cache.py`). State: variants of split models with
their ranks, validation evidence and publication state. Correct when: no cache
of a variant that failed its last test, or was revoked, counts as READY.

**Fleet records, recommendation, acceptance, reservation, runtime**
(`control/fleet*.py`, `control/resource_reservation.py`, `fleet_scheduler.py`,
`resource_pool.py`). State: recommendation snapshots, Fleets, GPU reservations,
one runtime row per deployment, an aggregated status. Hard: acceptance long
after the recommendation; a GPU that two nodes report; the failure of a command
recorded in a second transaction. Correct when: a GPU has one owner, nothing
else runs there, and the stored statuses say what operations and tasks do.

**Profile qualification** (`control/qualification.py`, `profile_generator.py`)
and **benchmarks** (`control/benchmark.py`, `benchmark_runtime.py`). State:
runs, bindings, evidence, benchmark tasks, the container on the node, the
release's status. Hard: measurements take hours, outlive leases, agents and
inventories, and exclude every other use of the node. Correct when: nobody
measures beside somebody else, and a release is promoted only on evidence that
still holds.

**Planning** (`planner.py`, `selector.py`, `catalog.py`, `models.py`): pure
functions from hardware to a plan.

### Node

**Agent** (`agent.py`). State: the credential file, a durable history of
executed tasks, a journal of reports not yet accepted. Hard: a crash between
executing, recording and reporting; a report that is retried. Correct when: no
recorded execution is repeated and every task ends.

**Downloads and caches** (`artifact_prepare.py`, `artifact_download.py`,
`artifact_manifest.py`, `model_cache.py`) and **model store**
(`model_store.py`). State: chunk directories, staging trees, markers, an attempt
journal. Hard: a crash between any two file system steps. Correct when: a
published cache is complete.

**Runtime and attestation** (`runtime.py`, `pipeline_runtime.py`,
`readiness.py`), **local orchestrator** (`orchestrator.py`, `state.py`),
**bootstrap** (`bootstrap.py`, `host_setup.py`, `envfile.py`): sequential
drivers of one host.

### Client

**Activation workflow** (`activation.py`): a resumable sequence from
registration to verification whose deterministic identifiers make some of its
requests idempotent. **CLI, probes, diagnostics** (`cli.py`, `probe.py`,
`diagnostics.py`, `command.py`, `http.py`, `server.py`): input and output.
`dure/speed/async_pipeline_optimizer.py` is a performance experiment nothing
calls.

### Interaction

Every transition of the control plane is one database transaction that locks
the Node, Task, Operation and Deployment rows it decides on. Administrators and
agents reach it through HTTP; it never calls an agent. A node learns of work
only by claiming and the control plane learns of results only by reports, so a
node that stops is visible only as a lease that expires. Preparations,
quarantines, benchmarks and operations meet in the task queue of a node and in
the cache rows.

## Plan

Written, in this order, most important behaviour first:

| module | models | relation to the others |
|--------|--------|------|
| `Rollout`, `MCRollout`, `RolloutProofs`, `RolloutRowProofs` | operations, task queues, membership | takes a preparation as one step, a cache row as READY or not |
| `Agent`, `Ledger`, `AgentProofs` | the process of one node, its journal, its queue | implements `Ledger`; the inside of what `Rollout` calls an agent |
| `Preparation`, `MCPreparation`, `PreparationProofs` | preparation attempts, cache rows, variants, quarantine | the detail of `Prepare` and `CacheDemoted` in `Rollout`, with the disk they are about |
| `NodeStore`, `CacheStore`, `MCNodeStore`, `NodeStoreProofs` | the directories a preparation writes | implements `CacheStore`; the detail of "the agent carries a task out" in `Preparation` |
| `Fleet`, `MCFleet`, `FleetProofs` | recommendation, reservation, runtime status | takes a preparation as a status, an operation as its phases |
| `Evidence`, `MCEvidence`, `EvidenceProofs` | qualification, benchmarks, promotion | what makes a candidate of `Fleet` eligible |

The modules are not composed into one: a step of one is invisible in the others
(a preparation keeps its nodes busy for every request of `Rollout`; a worker of
`NodeStore` is one step of `Preparation`), and a product of their states would
be out of reach.

Left, in the order of their worth: an abstract node ownership that `Rollout`,
`Fleet` and `Evidence` implement; the pure selection of `planner.py` against a
reference definition.

## Rollout: operations, tasks and membership

`Rollout.tla` models the transactions of `control/rollout.py` and those of
`control/service.py` and `control/api.py` that create, lease, renew, end or
cancel the tasks of deployments, or change the membership of nodes. One action
is one transaction, and includes everything the transaction does: the report
that ends a phase also fails, advances or completes the operation, queues the
next tasks, moves the deployments' statuses and evidence, and demotes caches.

| state | code |
|-------|------|
| `approved`, `joined` | `Node.approved`, an unrevoked credential |
| `claiming` | claim requests past `node_auth` and the approval check of `agent_claim`, not yet in `claim_task` |
| `accepted`, `status`, `verified` | `Deployment` rows, `status`, `verified_at` |
| `prepared`, `ready` | a SUCCEEDED preparation, READY cache rows |
| `tasks` | `Task` rows per node in `created_at` order |
| `ops` | `DeploymentOperation` with its node rows `rec[phase][node]`; `active` is `active_lineage_id IS NOT NULL` |

| action | code |
|--------|------|
| `Accept` | `accept_deployment_recommendation`, `_previous_generation` |
| `CreateBulk`, `CreateDirect`, `CreateUnjoin` | `create_tasks` by task type, with `attach_deployment_bulk_operation` |
| `PrepareRollback`, `ApplyRollback`, `RetryRollback` | `prepare_or_apply_rollback` with and without `apply`, on a new, a prepared and a failed operation |
| `ClaimRequest`, then `ClaimNothing`, `Claim` or `ClaimExpired` | `agent_claim`, `claim_task`, `claim_operation_task` |
| `Extend`, `Tick` | `extend_task`; time |
| `ReportBound`, `ReportDirect` | `finish_task`, `finish_operation_task`, `_mark_node_unjoined` |
| `Cancel` | `cancel_task`, `cancel_operation_task` |
| `Revoke`, `Unjoin`, `Rejoin`, `Approve`, `Rotate` | `revoke_node` with `revoke_operation_tasks_for_node`, `unjoin_node`, `join_node`, `approve_node`, `rotate_node_credential` |
| `Prepare`, `CacheDemoted` | the preparation flow as a whole; observations of a cache, which only demote |

Only one transaction is split: the claim endpoint reads `Node.approved` before
`claim_task` takes a lock, so anything may happen between `ClaimRequest` and
`Claim`. Everything else decides on rows it has locked.

Abstractions.
- `Prepare` is one step. While a preparation runs, its tasks make its nodes busy
  for every request of this module, so nothing here can observe the middle of it.
- Refusals that depend on the environment (node online, agent version, plan
  qualification, Fleet reservation) are left out: a refused request changes
  nothing, and the model may refuse any request by not taking the action.
- A result is SUCCEEDED or FAILED; a success report the validator rejects is a
  failure report. Payloads, desired state and audit rows are data no property
  is about.
- Fleet deployments, whose operations have phases of their own, are in `Fleet`.
- A revoked node's reports are refused; one that was authenticated before the
  revocation committed is not modelled.
- Time is a countdown per lease. A lease with `lease = 0` has expired, and the
  agent may still report, at any later time.

Bounds. `MaxOps` limits operations, `MaxDirect` the unbound tasks ever created
on one node, `MaxAttempts` the attempts a retry may reach, `LeaseTicks` the
duration of a lease, `Requests` the kinds of request an instance issues. They
appear in the guards of the actions that create rows, nowhere else. The proofs
hold for every value of them.

## Agent: journal, lost answers and leaving

`Agent.tla` models the process of one node between any two of its steps: the
loop `once()` of `agent.py`, the journal on disk, the HTTP calls, and of the
control plane what they reach, the node's task queue and its credential.
`Rollout` sees the agents of many nodes as callers that may do anything;
`Agent` sees one of them from the inside, and `BULK` tasks stand for whatever
an operation queues.

| state | code |
|-------|------|
| `tasks` | `Task` rows of the node in `created_at` order, the lease as a countdown |
| `accepted`, `approved`, `left` | the unrevoked `NodeCredential` (the one the agent holds, another, none), `Node.approved`, how the node last unjoined |
| `completed`, `pending` | `history["completed"]` and `["pending_reports"]`, one file replaced by `_atomic_json` |
| `log` | every outcome ever written: a history variable |
| `pc`, `cur`, `outcome` | where `once()` is, with which task and result |
| `container`, `registered`, `service` | containers of a deployment, the credential file, the systemd unit |
| `cli` | where a running `dure unjoin` is |
| `stray` | requests that timed out at the agent and may still be served |

| action | code |
|--------|------|
| `Heartbeat`, `Claim*`, `Flush*`, `Replay*` | `once()` up to the execution; `*Answered` and `*Unanswered` are the two ends of an HTTP call |
| `Execute`, `Defer`, `Renew`, `Record`, `Report*` | execution with its renewal thread, `_record_terminal_report`, `_send_pending_report` |
| `Disable`, `Retire` | `_finish_unjoin`, after the report or the replay of an UNJOIN |
| `UnjoinStop` .. `UnjoinRetire`, `Join` | `unjoin_control_plane`, `join_control_plane` |
| `ServeClaim`, `ServeRenew`, `ServeReport`, `ServeUnjoin` | `claim_task`, `extend_task`, `finish_task` and the benchmark variants, `unjoin_node`; taken with the answer, or late from `stray` |
| `Crash`, `Start` | loss of the process or the host; systemd |
| `Create`, `Cancel`, `Approve`, `Revoke`, `Rotate`, `Install`, `Tick` | administrators and time |

`Ledger.tla` is the promise: a task is opened once, answered at most once, ends
at most once, and succeeds only if the answer was a success. `Agent` maps to it
through the rows (`LedgerState`) and the journal (`Answers`).

Abstractions. A result is complete or failed. The journal's order is left open:
`_save_history` keeps the last 1000 entries of the dictionary, but
`_atomic_json` sorts its keys, so after a restart the dictionary is in the order
of random task identifiers, and which outcomes are dropped is arbitrary except
that the one just written stays. Containers are one flag. A disk on which the
credential file cannot be removed is not modelled, nor are two hosts with one
credential. PREPARE and QUARANTINE tasks are in `Preparation`.

## Preparation: attempts and cache rows

`Preparation.tla` models the transactions of `control/preparation.py`,
`cache_lifecycle.py` and `stage_artifacts.py` on preparations, cache rows and
stage variants, with the requests of `service.py` that compete with them for a
node, and of each node the one thing they are about: what its cache directory
holds. The disk is a variable beside the cache row, so a property can ask
whether what the control plane believes is true.

| state | code |
|-------|------|
| `approved`, `status` | `Node.approved` with an unrevoked credential; `Deployment.status` |
| `prep`, `record` | `ArtifactPreparation.status`; its node rows per stage with their attempt number |
| `queue` | `Task` rows of a node in `created_at` order; the row of a preparation task stands for its attempt row too, which every transaction changes with it |
| `cache` | `NodeArtifactCache`: status, `last_ready_attempt_id`, `quarantine_request_id` |
| `variant` | `StageArtifactVariant` with the last registered GPU evidence |
| `disk`, `job` | the directory under the cache's name; what the agent's thread is working on |

| action | code |
|--------|------|
| `Accept`, `Verify` | a next generation; a VERIFY operation with its phase end |
| `Create`, `Apply` | `prepare_deployment_artifacts`, first call and retry, with `_queue_attempt`, the fence against expired attempts and `_recompute_status` |
| `Lease`, `LeaseExpires`, `ClaimExpired` | `claim_task` on a queued or expired task; an expired attempt ends instead of being leased again |
| `Fetch`, `Extend` | the manifest of an attempt; `extend_task` with its progress watermark |
| `CarryOut`, `Report`, `Crash` | execution on the node; `finish_task` by task type; loss of the process |
| `CancelAttempt`, `CancelVerify`, `CancelQuarantine`, `Revoke`, `Rotate` | `cancel_task`; `revoke_node` with its three hooks; a new credential |
| `RequestQuarantine`, `FinishQuarantine` | the proof of no references with the task it queues; the report |
| `RequestProbe`, `FinishProbe` | a PROBE and the observations its report carries (`Reconciled`) |
| `RegisterVariant`, `RegisterEvidence`, `ValidateVariant`, `RevokeVariant` | `control/stage_artifacts.py` |
| `Damage` | anything outside that spoils a directory |

Abstractions. Payload digests, desired state and the append-only event rows are
data. The agent's heartbeats carry no profile, so
only a PROBE reconciles. A
lost answer to a claim is a `Crash` right after the `Lease`. A directory that is
there but damaged is refused and never overwritten, as `NodeStore` shows; only
a quarantine clears the name. The reports of quarantine, PROBE and VERIFY tasks
are accepted from a RUNNING task whatever its lease, those of an attempt only
within it: that difference is in the code and is kept. `revoke_node` leaves
QUARANTINE and PROBE tasks where they are.

Bounds. `MaxTasks` rows per node and `MaxAttempts` per record appear in the
guards of the actions that create rows; `Chunks` is the unit of progress.

## NodeStore: the cache on disk

`NodeStore.tla` takes one step of `Preparation`, the agent carrying out a
MODEL task, and looks inside it: `model_store.py`, `artifact_download.py`,
`stage_cache.py` and `cache_quarantine.py` between any two system calls that
change a name. Several processes share the store.

| state | code |
|-------|------|
| `cas`, `part` | the published name of a chunk, its `.part` file; a publication is a hard link and then an unlink |
| `tree` | the staging directory of an artifact: files, work directory, manifest sidecar, marker |
| `final`, `kept` | the directory under its final name; quarantine directories named after their task |
| `worker` | where each process is, with the artifact lock and the chunk lock it holds |

| action | code |
|--------|------|
| `Start`, `Reuse`, `InspectStaging` | `prepare_full_snapshot`, `prepare_stage`: lock, look for the final directory, `_verified_staging_bytes` |
| `UseStored`, `OpenPartial`, `Receive`, `Interrupted`, `CheckDigest` | `_verified_chunk_without_lock`, `download_chunk_locked` with its attempts and resets |
| `Link`, `Unlink`, `Downloaded` | `publish_chunk_partial` |
| `CreateDirectories`, `CopyFile`, `RemoveWork`, `WriteSidecar`, `WriteMarker` | `_assemble`, `_assemble_file` |
| `VerifyStaging`, `Activate`, `Confirm` | the scan before the rename, `RENAME_NOREPLACE`, the look after it |
| `MoveAway` | `ArtifactCacheQuarantineExecutor.execute`, which takes no lock of the store |
| `DiskFault`, `Crash`, `Intrude` | a system call that fails, a process that dies, somebody else who creates the final name |

Abstractions. Contents are their digest's verdict: a partial file is a prefix,
complete or wrong. The code takes the chunks in the order of their digests, the
model in any order. The locks are flocks, so a process that dies releases them;
bytes reach the disk in the order they are written, so a power failure that
tears an unsynced file is not modelled. The attempt journal tells an operator
what happened and decides nothing, so it is left out.

`CacheStore` is what all this promises to the rest of the system: chunks are
published, a cache appears whole, in one step, under a free name and after every
chunk of its manifest, and leaves that name only into quarantine. There are no
processes, locks, staging directories or crashes in it. `Shown` maps the tree under
a final name to `ABSENT`, `WHOLE` or `FOREIGN` (a name somebody else took); a tree
that is none of these would be `TORN`, which no step of `CacheStore` produces.

Bounds. `MaxFaults` counts faults of all kinds together, `Attempts` is the
retry limit of a chunk.

## Fleet: reservations and runtimes

`Fleet.tla` models the records of `control/fleet*.py` and
`resource_reservation.py`. A recommendation stores the inventory it was
evaluated on and the schedule it gave; an acceptance evaluates again and
compares. A preparation appears as the status it leaves, an operation as its
phases with one task per node.

| state | code |
|-------|------|
| `snapshot`, `fleet` | `recommendation_snapshot`; `FleetRecord.status` |
| `reserved` | active `FleetResourceReservation` rows |
| `runtime`, `prep`, `op`, `verified`, `ready` | `FleetDeploymentRuntime`, `ArtifactPreparation.status`, the current `DeploymentOperation` with its records, `verified_at`, READY caches |
| `visitors`, `online`, `evidence` | work outside Fleets, approved nodes that answer, whether a candidate passes when it is checked again |
| `command` | a producer that failed and was rolled back, its failure not yet recorded |

| action | code |
|--------|------|
| `Recommend`, `Accept` | `persist_fleet_recommendation` on `_fleet_occupancy` and the scheduler; `accept_fleet_recommendation` |
| `Visit`, `Leave` | any other request, under `ensure_fleet_reservation_scope` |
| `PrepareFleet`, `PreparationEnds` | `bind_fleet_preparation`, `sync_fleet_preparation_status` |
| `ApplyFleet`, `ClaimTask`, `TaskSucceeds`, `TaskFails`, `CancelTask` | `bind_fleet_operation`, `sync_fleet_operation_status` with the phases of `control/rollout.py` |
| `PrepareFails`, `ApplyFails`, `RecordFailure`, `LoseCommand` | a command whose transaction is refused; `_record_runtime_failure` in a second transaction, or a command that dies before it |
| `Revoke`, `Return`, `LoseEvidence`, `RegainEvidence` | `revoke_node`; a node approved again; expiry and renewal of evidence, revocation of a release |
| `RevokeVariant` | `transition_stage_artifact_variant` to REVOKED with `mark_stage_variant_revoked`: every READY cache of the variant becomes STALE, those of running and ACTIVE deployments too |

Abstractions. Quality vectors are an injective rank and the schedule is the
lexicographically best compatible set of candidates, which is what the search
returns when its node budget suffices; minimum replicas are left out. The
commands loop over deployments, and each deployment is a transaction and an
action. No code releases a reservation, so no action does. A reserved node is
kept free of probes and of other deployments, so caches are demoted by a failed
VERIFY and by the revocation of their variant only. A revoked variant lets a
preparation that has only images left succeed, and closes the gate of every later
phase; a deployment that was verified before stays ACTIVE.

Bounds. `MaxFaults` counts failed tasks and preparations, cancellations,
revocations and lost evidence together.

## Evidence: qualification, benchmarks, promotion

`Evidence.tla` models how a release comes to be offered: qualifications, which
an operator measures by hand and only records here, benchmarks, which are tasks
with a container on the node, and the gate that promotes the release.

| state | code |
|-------|------|
| `release`, `profile`, `qualified` | `ModelRelease.status`, `PlacementProfileRecord.status` and its evidence |
| `qrun` | `ProfileQualificationRun` rows with request and inventory |
| `brun`, `task`, `evidence`, `failedLater` | `BenchmarkRun`, its BENCHMARK task, the `BenchmarkEvidence` registered last, the failed runs that ended after it |
| `doing`, `result`, `container` | the agent's process, its undelivered result, the container |
| `host`, `inv`, `visitors` | the node, the profile it reports, other work there |
| `lastTry` | history: what the last attempt to measure a placement showed |

| action | code |
|--------|------|
| `PrepareQualification`, `RegisterQualification`, `CancelQualification`, `ActivateProfile` | `control/qualification.py` |
| `PrepareBenchmark`, `ApplyBenchmark`, `CancelBenchmark`, `Report`, `RegisterByHand` | `control/benchmark.py` and the benchmark branches of `service.py` |
| `GenerateProfiles`, `AddManual`, `Transition`, `Promote` | releases, profiles and the promotion gate |
| `Claim`, `LeaseExpires`, `Defer`, `Start`, `Refuse`, `Measure`, `Crash`, `ContainerEnds` | the lease, and `benchmark_runtime.py`: reconcile, start, attach, stop |
| `CleanUp` | what `docs/operations-reference.md:803` asks of an operator |
| `SetHost`, `SetInventory`, `Visit`, `Leave` | nodes that go, come back or report another profile; other work |

Abstractions. Thresholds and metrics are the verdict they produce; a benchmark
may also end without metrics. An inventory is the one measured, another that
fits, or one that does not. An agent that finds a container of the same run
reports nothing and lets its lease run out (`Defer`). `revoke_node` leaves
BENCHMARK tasks and qualification runs as they are, and so does the model.

Bounds. `MaxFaults` counts changes of nodes, crashes, bad results, canceled
qualifications and withdrawn releases together.

## Runs

An `MC*` module names the instance of its module; each `.cfg` takes what its
question needs. The state counts are those of the instances as they are.

| run | question | instance | distinct states |
|-----|----------|----------|-----------------|
| `Rollback` | Partial failure, retry and departure in any phase of a rollback or VERIFY | two nodes, two attempts; cancel, damage; a node leaves, rejoins, is approved again | 235,136 |
| `Lifecycle` | Rows, statuses and lineages over three generations and a second lineage | one node that may leave, two operations, one unbound task, seven kinds of request | 455,403 |
| `Settling` | Does every operation end? | fair agents, expiring leases, damaged cache, all five phases | 6,352 |
| `RetryAfterGate` | Can a closed cache gate be passed by a retry? | fair operator too | a finding |
| `AgentJournal` | Is a finished task executed again? Can a leave be finished from any state? | two tasks of START, BULK, UNJOIN; a journal of one outcome; two crashes or rotations; one late request; revocation, rejoining, `dure unjoin` | 667,945 |
| `AgentEnds` | Does every task end? | PROBE, BULK, BENCHMARK; one crash, one late request | 32,099 |
| `AgentUnjoined` | Does an unjoined node forget its credential? | one UNJOIN task, no crash | a finding |
| `Cache` | Does a cache row tell the truth, in any order of its writers? | one stage cache on one node, four tasks, three generations of two lineages, revocation of variant and node | 531,878 |
| `Store` | Is everything published whole, and does a retry get through? | two processes, a snapshot and a stage that share a chunk, two faults, one quarantine | 76,388 |
| `StoreResumes` | Can every staging tree the store leaves behind be continued? | as `Store` | a finding |
| `Fleet` | Has a GPU one owner, and do the stored statuses tell the truth? | two recommendations, three candidates, one of them of a stage variant, on four nodes, two of which report one GPU; one fault | 179,956 |
| `Evidence` | Does nobody measure beside another, and is a promotion earned? | two generated profiles and one manual; two qualifications, two benchmarks; two nodes with one GPU; one fault | 183,978 |

What they show.

- `Rollback`: phases run in order; settled records stay settled; an expired
  attempt never revives; a live task is current; every phase finds READY caches;
  VERIFIED means every assigned node.
- `Lifecycle`: a rollback's source and target stay valid; rows, statuses and
  evidence agree (`RowsAgree`); active operations share no node; two deployment
  tasks never share a node; one lease at a time.
- `AgentJournal`: recorded outcomes are never repeated; a success is on disk
  before it is reported; agent and queue implement `Ledger`; a leave drops the
  credential only after the control plane did, and an UNJOIN task leaves no
  container (`LeavingIsClean`).
- `Cache`: a READY row is backed by a current success, a measured variant and a
  directory that is there; only such a success makes a row READY; the proof made
  when a quarantine is requested holds until it ends; attempts, tasks, rows and
  the status of the preparation agree; what ended stays ended.
- `Store`: the store implements `CacheStore`; a final name holds a whole cache or
  was never ours; a marker, a chunk
  name and a `.part` mean what they should; nothing is replaced, and a cache
  disappears only into quarantine; when faults stop, asking again ends in a cache
  or in the refusal the finding is about.
- `Fleet`: one reservation per GPU, nobody else beside it; ACTIVE means VERIFIED
  and every task succeeded, whatever is lost or revoked later; Fleet, runtime, operation and reservation rows
  agree; a late preparation never takes a started deployment back.
- `Evidence`: one user per node; runs, tasks, profiles and evidence agree; a
  release is promoted only on the last attempt of every active profile, and on
  nodes that are still what was measured.

Deadlock is checked in `Store`, where the store must always be able to go on.
Elsewhere a system with no request left to issue and no live task is idle, and
an instance that has used up its bounds stops.

Why the bounds are enough. The hazards are between two actors: two operations on
one node, a sibling node failing while another runs, one attempt and the next,
one phase and the next, one request between a check and its use. Two nodes, two
operations and two attempts contain each of those; a third generation is there
because `IsLatest` can only be wrong with something newer than a rollback's
source. A lease of one tick already separates running, expired and ended. A
journal of one outcome and two tasks is the smallest instance in which the
journal forgets. STOP tasks are left out of the instances: they differ from
START in needing no plan and in keeping the evidence. Two faults allow a crash and a rotation in one behaviour of the
agent (the rotation loses the report, the crash the memory of the process), and
in the store a failure followed by a crash of the attempt that resumes it.

In `Cache` the generation `g2` moves its lineage away from the node, after which
a quarantine becomes legal, and `h1` asks for the same cache again with a second
attempt left: four tasks hold one full round of preparation, verification or
probe, quarantine and preparation. In `Fleet` one fault is enough, because each
hazard is one failure met by a correct second transaction; the candidates are
chosen so that a pair and a single compete for one GPU through different nodes
and a third stays independent. In `Evidence` one fault is one of a crash, a bad
result, a changed node or a withdrawn release, each combined with every order of
the two benchmarks and two qualifications; a second fault multiplies the run by
more than five. Identifiers of qualification runs and of benchmark runs are
interchangeable there (`SYMMETRY`); the properties are invariants and an action
property, none of which names an identifier.

Fairness. `FairSpec` of `Rollout` assumes of each node weak fairness of sending
a claim, of the claim transaction, and of a lease ending (the agent reports, or
it stops renewing and time passes). The agent's main loop polls without end and
HTTP requests return, which justifies the first two; a renewal thread that
renews for ever with no outcome is a task that never ends, bounded in the code
by the executor's timeouts. Nothing obliges an agent to report once its lease
has expired, nor any administrator to act. `RepairSpec` adds strong fairness of
preparations and retries, the most an operator can do, and only to show that
even this does not repair a closed cache gate.

The agent's `FairSpec` assumes that the process runs and is started again (weak
fairness), that a call which is tried again and again is answered in the end
(strong fairness: the loop polls for ever, with a back-off), and that from some
point on no request is served late, which holds when the network recovers and
follows from the 30 s limit of a call. `Renew` has no fairness.

`FairSpec` of `NodeStore` assumes that a running process goes on (weak fairness
of its work, of which a fault or a crash is no part) and that every artifact is
asked for again and again while its lock is free (strong fairness of `Start`):
the control plane queues another attempt, or the operator does. It assumes no
quarantine and no end of faults: those are bounded.

## Proofs

### Rollout

`RolloutProofs.tla` proves, for every set of nodes and generations, every plan,
every bound and every set of requests, from the assumptions `PlanAssumption`,
`ScopeAssumption` and `BoundAssumption` of `Rollout.tla` alone (TLC evaluates
these on every run):

| theorem | property | argument |
|---------|----------|----------|
| `TypeCorrect` | `TypeOK` | from `TypeInvariant` |
| `TypeInvariant` | `TypeInv` | inductive: `TypeOK` and `RowsOK` |
| `ActiveDisjoint` | `ActiveOperationsDisjoint` | inductive with `TypeInv` |
| `OneLease` | `OneLeasePerNode` | inductive with `TypeInv` |
| `LiveTaskIsCurrent` | `LiveBoundTaskIsCurrent` | inductive with `TypeInv` and `OneTaskPerRecord` |

Why strengthenings are needed. `TypeOK` is not inductive: a failed operation in
phase COMPLETE would be retried in a phase that has no records. `RowsOK` says
that a COMPLETE operation has succeeded, and that a PREPARED one is inactive.
`LiveBoundTaskIsCurrent` is not inductive either: with two live tasks for one
record, the end of the first would leave the second pointing at a settled
record. `OneTaskPerRecord` excludes it, and is preserved because a phase starts
only on a row that has no live task: a new row, a PREPARED one (`RowsOK`), a
failed one none of whose records is live, or one whose phase has just settled.

How the proofs are laid out. Lemmas about `Append` and `EXCEPT` on queues and
rows come first. `Progress` and `OperationStep` then say what every path through
the end of a task leaves behind, whichever of `FailPhase`, `Complete`,
`CloseCacheGate` and `AdvancePhase` it took. `StepShapes` reduces every step of
`Next` to four shapes: an operation is created or restarted (`Activates`), a
task is leased (`Claims`), a bound task ends (`Ends`), or no operation is
concerned (`Unbound`). Each theorem is then an argument about the four shapes:
only `Activates` can make two active operations meet, only `Claims` can run a
task, and so on.

`RolloutRowProofs.tla` goes on from there, under the same assumptions, to what
rows, records, generations and queues say of each other:

| theorem | property | argument |
|---------|----------|----------|
| `OrderInvariant` | | inductive: `RowsOrdered`, with the above |
| `PhaseOrderKept` | `PhasesInOrder` | from `RowsOrdered` |
| `ConsistentInvariant` | | `RowsOrdered` and, inductive with it, `GenerationsAgree` |
| `RollbackStaysValid` | `ActiveRollbackStaysValid` | from `Consistent` |
| `RowsInAgreement` | `RowsAgree` | `LiveRecordHasTask` inductive under `Consistent` |
| `TasksExclusive` | `DeploymentTasksExclusive` | `TasksTyped` and `DirectAlone` inductive under `Consistent` |
| `ExpiredStaysExpired` | `ExpiredAttemptNeverRevived` | step by step, under `Consistent` |
| `SettledKept` | `SettledStaysSettled` | step by step, under `Consistent` |
| `QueuedWhenPrepared` | `QueuedOnlyWhenPrepared` | step by step, under `Consistent` |
| `VerifiedEverywhere` | `VerifiedByEveryNode` | step by step, under `Consistent` |

Why the strengthenings are needed. `PhasesInOrder` speaks of live records only,
so a retry could start a phase behind a record it says nothing of; `RowsOrdered`
says of every row which records it has, that those of earlier phases have
succeeded and those of later ones wait, and what scope the checks of the request
left it with. `GenerationsAgree` adds what the deployment rows say of an active
operation (an APPLY of a generation that is not verified, a rollback from the
latest generation of its lineage to a verified one), because the report that ends
it writes verification and status without looking at them again.
`DeploymentTasksExclusive` needs the node of every task that no operation tracks
to be outside every active operation (`DirectAlone`): two checks, made by
different requests, that only together exclude the collision.

The layout is that of `RolloutProofs`, with shapes that say more: a step of
`Next` prepares a rollback (`Prepares`), begins a phase on a new or retried row
(`Begun`), leases a task (`Leasing`), ends a bound task (`Finished`), or is one of
`Others`, which touch no operation. The end of a task leaves its row in one of five
results (`EndShape`), shown once, on which every theorem draws.

### Agent

`AgentProofs.tla` proves, from `AgentAssumption` alone, for every set of task
types and administrative requests and every bound, the size of the journal
included:

| theorem | property | argument |
|---------|----------|----------|
| `Invariant` | `IInv` | inductive |
| `TypeCorrect` | `TypeOK` | a part of `IInv` |
| `NeverRepeated` | `RecordedNeverRepeated` | from `Fresh` |
| `SuccessRecorded` | `SuccessIsRecorded` | from `Successes` and `Once` |
| `Implements` | `ImplementsLedger` | step by step, under `IInv` |
| `LeaveInvariant` | | inductive: `Leaving` and `LettingGo`, with `IInv` |
| `LeftClean` | `LeavingIsClean` | step by step, under `LeaveInv` |

Why the strengthening is needed. The agent decides whether to execute a claimed
task by looking into a journal that forgets, so `RecordedNeverRepeated` is not
inductive: the journal could have dropped the outcome of a task that is still
in the queue. It never does, for a reason that lies in the control plane. A
task is leased only when every older one has ended (`InOrder`). So a recorded
task that still lives is the only one that can be leased; as long as it lives
no other outcome is written; and the outcome written last is the one
`SaveHistory` never drops (`LiveKept`). `Fresh` says the same of the task being
executed: nothing recorded is alive beside it. `Calls` says that every report,
pending, late or about to be sent, speaks of an outcome on disk, from which a
success at the control plane has its answer at the node.

`LeavingIsClean` speaks of the moment in which the answer to an UNJOIN_NODE report
takes the credential, which may be long after the containers were stopped and the
outcome recorded. In between nothing may start one: the agent alone could, and by
`Fresh` it executes nothing while a recorded task still lives. `StoppedFirst` and
`Departed` say so before and after the answer. An agent that is about to forget its
credential relies on the answer having been the first one: an UNJOIN_NODE task ends
in no other way than by a recorded answer (`UnjoinAnswered`), so a success that is
reported with a credential that still counts finds the task running
(`UnjoinUnserved`). `LettingGo` adds that the command `dure unjoin` has stopped the
agent before it lets go, and that a host without a credential runs none.

How the proof is laid out. Lemmas about one row of the queue come first. A step
of the control plane is then one of five shapes (`QueueStep`: statuses kept, a
task added, leased, succeeded, or some ended), whoever asked for it. Every step
of the system but three is `Routine`: such a step of the queue, no new outcome,
and the process stays or forgets its task. `RoutinePreserves` shows once that
these keep the invariant; `ExecutePreserves`, `RecordPreserves` and
`ClaimPreserves` are the three others. The refinement uses the same shapes: a
lease and a kept status are stutters of `Ledger`, an added task is `Open`, a
success is `Succeed`, ended tasks are `Fail`, and `Record` is `Answer`.

### Fleet

`FleetProofs.tla` proves, from `FleetAssumption` alone, for every number of
Fleets, candidates and nodes, every assignment of GPUs to nodes and of stage
variants to candidates, and every number of faults:

| theorem | property | argument |
|---------|----------|----------|
| `ReservationsHold` | | inductive: `ReservationInv` |
| `OneOwner` | `GpuReservedOnce` | a part of `ReservationInv` |
| `ReservedOnly` | `ReservedForFleetOnly` | a part of `ReservationInv` |
| `FleetInvariant` | | inductive: `FleetInv` |
| `TypeCorrect` | `TypeOK` | a part of `FleetInv` |
| `StatusesTrue` | `StatusesAgree` | from `FleetInv` |
| `ActiveVerified` | `ActiveIsVerified` | from `RowsInv` |
| `StartedStays` | `NeverBackToPreparing` | step by step, under `FleetInv` |

`FleetAssumption` says that the tables describing candidates and nodes have
their types, that no two candidates rank alike (the identity breaks ties), and
that no candidate names one GPU twice: such a binding is refused
(`fleet_acceptance.py:208`).

Why the strengthenings are needed. A reservation is made on the strength of a
snapshot, so `ReservationInv` adds that every stored snapshot placed its
candidates on nodes that were free in the inventory it was evaluated on; that
this inventory is still the current one is the check of the acceptance itself.
`ActiveIsVerified` is not inductive: the runtime is written from the operation,
so `RowOK` says of one deployment what operation, runtime, preparation and
`verified` say of each other, in particular that only a finished operation is
verified, and that what is verified stays ACTIVE. It says nothing of READY caches:
`RevokeVariant` takes them from running, verifying and ACTIVE deployments alike. `CommandInv` is the part
that concerns the second transaction of a failed command: it names the operation
number the command saw, and as long as that number stands no operation of the
deployment runs, so that the late record hides nothing. `StoredInv` ties
reservations, snapshots and Fleet rows, for `AcceptedIsWhole`.

How the proof is laid out. `Moves` is the common effect of everything that writes
a runtime and recomputes the Fleet; `Local` says that only one deployment's rows
change. A step of `Next` is then one of five: it moves a deployment along its
preparation (`PreparationStep`) or its operation (`OperationStep`), records a
failure, changes none of these rows and at most demotes caches (`QuietStep`), or is one of the two
planner steps. Each shape is shown once to keep `FleetInv` and to take no
deployment back (`Forward`), and `FleetStep` puts them together.

### Preparation

`PreparationProofs.tla` proves, from `PlanAssumption` and `BoundAssumption`
alone, for every number of nodes, generations, artifacts, tasks, attempts and
faults:

| theorem | property | argument |
|---------|----------|----------|
| `PreparationInvariant` | | inductive: `PreparationInv` |
| `TypeCorrect` | `TypeOK` | a part of `PreparationInv` |
| `AttemptsInAgreement` | `AttemptsAgree` | from `RecordInv` and `QuarantineInv` |
| `ReadyBacked` | `ReadyIsBacked` | from `ReadyInv` |
| `QuarantineUnused` | `QuarantinedIsUnused` | from `QueueInv` and `QuarantineInv` |
| `EndedStays` | `EndedStaysEnded` | step by step, under `PreparationInv` |
| `ReadyOnlyBySuccess` | `ReadyOnlyByCurrentSuccess` | step by step, under `PreparationInv` |

Why the strengthening is needed. A report is accepted on the word of its task row and
writes record, preparation and cache row without comparing them again, so the three
must already agree: a live task is the current attempt of its record, a live record
has a task, and an IMAGE attempt exists only behind a complete model (`RecordInv`).
That this survives a retry rests on `OneBusy`: a node has one live task besides a
probe, whoever asked for it. `QuarantinedIsUnused` is decided once, by the request,
and must hold until the report, which comes when no row is looked at any more;
`QuarantineInv` therefore says of every live quarantine that no generation refers to
the artifact on that node, and that exactly its row waits for it (`pending`), so that
its report or cancellation finds the row it was asked for. A generation that is
VERIFYING may not be taken for idle meanwhile: a live VERIFY task keeps it so
(`VerifyInv`). `JobInv` is what the agent knows and the control plane does not yet: a
success that is still to be reported found the directory complete. `ReadyInv` adds to
a READY row the attempt it came from, a variant that is validated and measured, and
that no quarantine waits for it.

How the proof is laid out. A step's effect on the queues is `QueuesGrow`: rows keep
their work and die once, and a new row is alone on its node. `RecordsFollow` says
what then happens to the records; `StatusesMove`, `CachesMove`, `VariantsMove` and
`JobsMove` bound the rest. `Moves` is their conjunction, `MovesKeep` shows once that it
keeps `PreparationInv`, and there is one lemma for each action, which shows that it
moves. The two action properties are read off `Moves`.

### NodeStore

`NodeStoreProofs.tla` proves, for every number of processes, artifacts, chunks,
retries and faults:

| theorem | property | argument |
|---------|----------|----------|
| `StoreInvariant` | | inductive: `StoreInv` |
| `TypeCorrect` | `TypeOK` | a part of `StoreInv` |
| `FinalWhole` | (`FinalIsWhole`, a part of `PublishedIsVerified`) | a part of `StoreInv` |
| `PublishedVerified` | `PublishedIsVerified` | `MarkerIsLast`, `ChunkOK` and `Exclusive` |
| `NothingReplaced` | `NothingIsReplaced` | step by step, under `StoreInv` |
| `Implements` | `ImplementsCacheStore` | step by step, under `StoreInv` and `TreesBacked` |

The assumptions are `StoreAssumption` and `NoTreeAssumption`: the tables have
their types, and the names for "no chunk" and "no tree" are no chunk and no tree.

Why the strengthening is needed. A process decides on what it finds on the disk
and acts several steps later: it renames a staging tree it verified, and links a
partial file whose digest it computed. `HoldsTree` and `HoldsChunk` say what a
process at each step relies on (at ACTIVATE the tree is exactly the artifact, at
PUBLISH the partial file is full and the name still free), and `Exclusive`, which
the two kinds of lock give, says that nobody else can have changed it. A crash
keeps the disk, so the next process finds no more than `MarkerIsLast` and
`ChunkOK` promise; that is why every path checks the disk again.

How the proof is laid out. A step of a process is `StepOf`: it becomes another
row, may take a free lock, and changes only what its locks protect. `QuietStep`,
`ChunkStep` and `TreeStep` show once that this keeps the invariant when the step
changes nothing, one chunk or one tree; there is then one lemma for each action.
`NothingReplaced` follows from what a step may change of the final names
(`StepKeepsFinal`) and of a published chunk (`StepKeepsChunk`).

That the store implements `CacheStore` needs one thing more, because the abstract
store shows a cache only after every chunk of its manifest, while a process renames
a tree that several attempts, some of them dead, may have filled. `TreesBacked` says
that a file of a staging tree was copied from chunks that are published: a file is
begun only from stored chunks (`StepBegins`), and no process takes a chunk back
(`StepPublishes`). Then every step of a process is `PublishChunk` (the hard link),
`PublishCache` (the rename) or shows nothing, and the other two actions are
`MoveAway` and `Intrude`.

### Evidence

`EvidenceProofs.tla` proves, from `EvidenceAssumption` alone, for every number of
nodes, placements, requests, qualification runs, benchmarks and faults:

| theorem | property | argument |
|---------|----------|----------|
| `EvidenceInvariant` | | inductive: `EvidenceInv` |
| `TypeCorrect` | `TypeOK` | a part of `EvidenceInv` |
| `NodesOnce` | `NodesUsedOnce` | from `Apart`, `Alone`, `OneBenchmark`, `OneContainer` |
| `RecordsInAgreement` | `RecordsAgree` | from `ProfileInv` and `RunAgreesWithTask` |
| `PromotionEarned` | `PromotionIsEarned` | step by step, from `ProfileInv` and `TryInv` |

Why the strengthening is needed. `NodesUsedOnce` counts the users of a node;
`Apart`, `Alone`, `OneBenchmark` and `OneContainer` say the same as uniqueness,
which the steps preserve one pair at a time, and they need the agreement of a
benchmark's run, task and container, because a run ends in one transaction and
its container in another. `ProfileInv` names the run a profile was validated by
(`qualified`) and says that it is the only PRIMARY one that passed or is under
way; without it a second run of one placement could fail a profile that is
already active. `TryInv` says that manual evidence is what the last attempt
showed, unless a failure came after it, so a promotion rests on no result that a
later one has overtaken.

How the proof is laid out. A step of `Next` is one of `ControlAct`, `BenchAct`,
`AgentAct` and `WorldAct`, and a frame lemma says for each which variables it
leaves alone. Every conjunct of the invariant then has to be shown only against
the kinds that touch it.

### What is only model-checked

Every safety property that a run checks, invariant or action property, is a
theorem. Left to TLC are the liveness properties `OperationsSettle`,
`EveryTaskEnds` and `RetriesSucceed`, which are out of reach of the prover, and
the three properties that TLC refutes.

## Findings

Each of the first three is a run that TLC must find violated.

- A rollback closed by the cache gate cannot be retried (`RetryAfterGate`). The
  documents say that after the cause is repaired by the supported preparation
  procedure, the same request retries the failed phase. But a SUCCEEDED
  preparation is returned without queueing anything, observations only demote a
  cache, and the failed rollback keeps its lineage locked. A Fleet deployment
  whose cache a failed verification made CORRUPT is stuck for the same reason,
  and keeps its reservations, although `docs/operations-reference.md:476` speaks
  of a retry.
- An UNJOIN_NODE task whose first report is not answered leaves the agent
  registered (`AgentUnjoined`): the pending report is delivered without
  `_finish_unjoin`, or every later heartbeat gets 401.
- A staging directory can become one that every later attempt refuses
  (`StoreResumes`): the attempt that wrote the marker fails before the rename,
  and the next one is cut off after it created the work directory again.

Two more were met while modelling and have no run of their own. A revoked node
can still be leased one task, because approval is read before the lock and not
again after it (`ClaimRequest` and `Claim` in `Rollout`). And `dure unjoin` stops
the containers before the agent, so a START that finishes in between leaves
containers on a node whose state file says that it released its GPU
(`UnjoinStop` and `Execute` in `Agent`).

`PROJECT.json` quotes the lines. The code was otherwise found to do what its
properties say.

## Not modelled

- **Activation workflow.** One client process that calls the modelled requests
  in a fixed order and polls. It keeps no state, and each request it repeats is
  idempotent or refused where it is served.
- **Local orchestrator, host bootstrap, container runtime and attestation.**
  Sequential drivers of one host whose correctness is that of Docker, Ray, vLLM
  and the package manager; a task's outcome is all the control plane sees.
- **Planning, selection, profile generation.** Pure functions over hardware
  profiles with real-valued memory estimates: nothing interleaves.
- **Command line, HTTP, probes, diagnostics**, and the pipeline optimiser, which
  nothing calls.
- **Migrations**, which rewrite schemas and hold no protocol. Columns and status
  values of the modelled tables are in the types of the modules.
- Parts of modelled components: enrollment tokens; the minimum replicas, the
  search order and the node budget of the Fleet scheduler; the tensor layout a
  stage builder writes and its cache check reads; torn writes after a power
  failure; a request that was authenticated before a revocation committed, the
  claim excepted.

`PROJECT.json` gives every part's status and every hazard with the properties
that cover it, or the reason why none does.
