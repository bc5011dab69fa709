------------------------------ MODULE Evidence ------------------------------
(***************************************************************************)
(* What a model release must show before it is offered: profile             *)
(* qualification, benchmark runs and their evidence, and the promotion gate   *)
(* (control/qualification.py, benchmark.py, service.py; on the node          *)
(* benchmark_runtime.py).                                                  *)
(*                                                                         *)
(* A qualification is measured by an operator and only recorded here.  A     *)
(* benchmark is a task: it is leased, runs in a container that outlives the  *)
(* agent, and may be leased again, reported late or canceled meanwhile.     *)
(* Both need the node for themselves from the request to the result, and     *)
(* both are worth nothing once the node is no longer what was measured.     *)
(*                                                                         *)
(* Every control-plane action is one transaction; those that take a node     *)
(* hold the reservation gate, those that end a benchmark the release's row. *)
(***************************************************************************)
EXTENDS Integers, FiniteSets

CONSTANTS
  Node, Gpu,
  GpuOf,       \* [Node -> Gpu]: the GPU UUID of its profile
  Generated,   \* generated placement profiles of the release
  Manual,      \* placement profiles an operator wrote, single-GPU
  Site,        \* [Manual -> Node]: the node its benchmarks run on
  Request,     \* qualification requests: [placement, nodes, purpose]
  Qualification,  \* identifiers of qualification runs
  Benchmark,   \* identifiers of benchmark runs
  Of,          \* [Benchmark -> Manual]: the placement each one measures
  Visits,      \* other work that may come: <<node, "WORK" or "TASK">>
  Changing,    \* nodes that may go down, be revoked or change their inventory
  MaxFaults,   \* bound: such changes, crashes, bad results, canceled
               \* qualifications, a release revoked or deprecated
  None

ASSUME EvidenceAssumption ==
  /\ GpuOf \in [Node -> Gpu] /\ Site \in [Manual -> Node] /\ Of \in [Benchmark -> Manual]
  /\ Request \subseteq [placement : Generated, nodes : (SUBSET Node) \ {{}},
                        purpose : {"PRIMARY", "SUPPLEMENTARY"}]
  /\ Visits \subseteq Node \X {"WORK", "TASK"} /\ Changing \subseteq Node
  /\ Generated \cap Manual = {} /\ MaxFaults \in Nat
  /\ None \notin Qualification   \* NULL is no identifier

VARIABLES
  release,    \* ModelRelease.status
  profile,    \* PlacementProfileRecord.status, "NONE" before it is created
  qualified,  \* qualification_evidence_id, as the run it belongs to
  qrun,       \* ProfileQualificationRun rows
  brun,       \* BenchmarkRun rows
  task,       \* the BENCHMARK task of each run; EXPIRED is RUNNING out of lease
  evidence,   \* the BenchmarkEvidence of a placement registered last
  failedLater,\* FAILED runs that ended after that evidence
  doing,      \* what the agent's process is executing: lost when it stops
  result,     \* outcomes the agent recorded and has not delivered
  container,  \* the container of each run; OLD: ended, or past its deadline
  host,       \* nodes: UP, DOWN or REVOKED
  inv,        \* what the profile of a node, stored or read, says it is
  visitors,   \* other live work on a node
  lastTry,    \* history: what the last attempt to measure a placement showed
  faults

nodeVars == <<host, inv, visitors, faults>>
agentVars == <<doing, result, container>>
benchVars == <<brun, task, evidence, failedLater, lastTry>>
qualVars == <<profile, qualified, qrun>>
vars == <<release, qualVars, benchVars, agentVars, nodeVars>>

Placement == Generated \cup Manual
ReleaseStatus == {"DRAFT", "VALIDATED", "ACTIVE", "DEPRECATED", "REVOKED"}
ProfileStatus == {"NONE", "DRAFT", "QUALIFYING", "VALIDATED", "ACTIVE"}
(* What the thresholds make of the steps and metrics of a measurement.         *)
Outcomes == {"PASSED", "FAILED"}
(* The same for a benchmark, which may also end without metrics.               *)
Results == Outcomes \cup {"ERROR"}
(* An inventory that does not fit the placement, and two that do.              *)
Inventory == {"FIRST", "OTHER", "UNFIT"}
NodeOf(b) == Site[Of[b]]
Live(b) == task[b] \in {"QUEUED", "RUNNING", "EXPIRED"}

Benchmarkable == release \in {"VALIDATED", "ACTIVE"}

----------------------------------------------------------------------------
(* Bound: what is not the good case happens MaxFaults times at most.           *)
Bounded(good) == IF good THEN UNCHANGED faults ELSE faults < MaxFaults /\ faults' = faults + 1

(* Who has a node *)

SameGpuMutNodeOnly(m, n) == m = n
(* gpu_bindings count for every node that reports the GPU.                     *)
SameGpu(m, n) == GpuOf[m] = GpuOf[n]

Qualifying(q) == qrun[q].status = "QUALIFYING"
InQualification(n) == \E q \in Qualification : Qualifying(q) /\ n \in qrun[q].request.nodes
InBenchmark(n) == \E b \in Benchmark : Live(b) /\ NodeOf(b) = n

(* _qualification_occupancy: anything at all that is queued or running counts,  *)
(* except the run that asks.                                                 *)
Occupied(n, self) ==
  \/ \E q \in Qualification \ {self} :
       Qualifying(q) /\ \E m \in qrun[q].request.nodes : m = n \/ SameGpu(m, n)
  \/ InBenchmark(n)
  \/ \E v \in visitors : v[1] = n \/ (v[2] = "WORK" /\ SameGpu(v[1], n))

(* _load_inventory: an approved node that answers and fits the placement.       *)
Usable(n) == host[n] = "UP" /\ inv[n] # "UNFIT"

(* _qualification_context                                                    *)
Eligible(nodes, self) ==
  release # "REVOKED" /\ \A n \in nodes : Usable(n) /\ ~Occupied(n, self)

(* The conflict checks of a deployment operation, a preparation or a            *)
(* reservation; a PROBE is queued without any.                               *)
Visit(v) ==
  /\ v \notin visitors /\ host[v[1]] # "REVOKED"
  /\ v[2] = "WORK" => ~InQualification(v[1]) /\ ~InBenchmark(v[1])
  /\ visitors' = visitors \cup {v}
  /\ UNCHANGED <<release, qualVars, benchVars, agentVars, host, inv, faults>>
Leave(v) ==
  /\ v \in visitors /\ visitors' = visitors \ {v}
  /\ UNCHANGED <<release, qualVars, benchVars, agentVars, host, inv, faults>>

----------------------------------------------------------------------------
(* Release and profiles *)

AddProfiles(ps, st) ==
  /\ release = "DRAFT" /\ \E p \in ps : profile[p] = "NONE"
  /\ profile' = [p \in Placement |->
                   IF p \in ps /\ profile[p] = "NONE" THEN st ELSE profile[p]]
  /\ UNCHANGED <<release, qualified, qrun, benchVars, agentVars, nodeVars>>
(* generate_auto_placement_profiles, add_placement_profile                    *)
GenerateProfiles == AddProfiles(Generated, "DRAFT")
AddManual(p) == AddProfiles({p}, "ACTIVE")

ActiveProfiles == {p \in Placement : profile[p] = "ACTIVE"}

(* transition_model_release                                                  *)
Transition(st) ==
  /\ \/ release = "DRAFT" /\ st = "VALIDATED" /\ ActiveProfiles # {}
     \/ release = "ACTIVE" /\ st = "DEPRECATED"
     \/ release # "REVOKED" /\ st = "REVOKED"
  /\ release' = st
  /\ Bounded(st = "VALIDATED")
  /\ UNCHANGED <<qualVars, benchVars, agentVars, host, inv, visitors>>

----------------------------------------------------------------------------
(* Profile qualification *)

NoQualification == [status |-> "NONE", request |-> None, found |-> None]
Found(nodes) == [n \in nodes |-> inv[n]]
Unchanged(q) == qrun[q].found = Found(qrun[q].request.nodes)

(* What a run of this purpose needs of its profile, before and while it runs.   *)
Startable(r) ==
  IF r.purpose = "PRIMARY"
  THEN profile[r.placement] = "DRAFT" /\ qualified[r.placement] = None
  ELSE profile[r.placement] \in {"VALIDATED", "ACTIVE"} /\ qualified[r.placement] # None
Accepting(r) ==
  IF r.purpose = "PRIMARY" THEN profile[r.placement] = "QUALIFYING" ELSE Startable(r)

SetProfileMutAnyPurpose(r, st) == [profile EXCEPT ![r.placement] = st]
(* Only a primary run moves the profile.                                      *)
SetProfile(r, st) ==
  IF r.purpose = "PRIMARY" THEN [profile EXCEPT ![r.placement] = st] ELSE profile

(* prepare_profile_qualification                                             *)
PrepareQualification(q, r) ==
  /\ qrun[q].status = "NONE"
  /\ Startable(r) /\ Eligible(r.nodes, q)
  /\ qrun' = [qrun EXCEPT ![q] =
                [status |-> "QUALIFYING", request |-> r, found |-> Found(r.nodes)]]
  /\ profile' = SetProfile(r, "QUALIFYING")
  /\ UNCHANGED <<release, qualified, benchVars, agentVars, nodeVars>>

ProfileAfterMutOutcome(st) == st
ProfileAfter(st) == IF st = "PASSED" THEN "VALIDATED" ELSE "DRAFT"

(* register_profile_qualification_evidence: the nodes must be free and the same *)
(* as at the start; otherwise the request fails and the run stays open.       *)
RegisterQualification(q, st) ==
  LET r == qrun[q].request
      moves == r.purpose = "PRIMARY"
  IN  /\ Qualifying(q) /\ Accepting(r)
      /\ Eligible(r.nodes, q) /\ Unchanged(q)
      /\ qrun' = [qrun EXCEPT ![q].status = st]
      /\ profile' = SetProfile(r, ProfileAfter(st))
      /\ qualified' = IF moves /\ st = "PASSED"
                      THEN [qualified EXCEPT ![r.placement] = q] ELSE qualified
      /\ Bounded(st = "PASSED")
      /\ UNCHANGED <<release, benchVars, agentVars, host, inv, visitors>>

(* cancel_profile_qualification                                              *)
CancelQualification(q) ==
  /\ Qualifying(q) /\ Accepting(qrun[q].request)
  /\ Bounded(FALSE)
  /\ qrun' = [qrun EXCEPT ![q].status = "CANCELED"]
  /\ profile' = SetProfile(qrun[q].request, "DRAFT")
  /\ UNCHANGED <<release, qualified, benchVars, agentVars, host, inv, visitors>>

(* validate_profile_qualification_evidence                                    *)
QualificationHolds(p) ==
  LET q == qualified[p]
  IN  /\ q # None /\ qrun[q].status = "PASSED" /\ qrun[q].request.purpose = "PRIMARY"
      /\ Eligible(qrun[q].request.nodes, None) /\ Unchanged(q)

(* activate_validated_profile                                                *)
ActivateProfile(p) ==
  /\ profile[p] = "VALIDATED" /\ QualificationHolds(p)
  /\ profile' = [profile EXCEPT ![p] = "ACTIVE"]
  /\ UNCHANGED <<release, qualified, qrun, benchVars, agentVars, nodeVars>>

----------------------------------------------------------------------------
(* Benchmarks, control plane *)

(* benchmark_context                                                         *)
Measurable(p) ==
  /\ Benchmarkable /\ profile[p] # "NONE"
  /\ host[Site[p]] # "REVOKED" /\ inv[Site[p]] # "UNFIT"

(* prepare_benchmark_run                                                     *)
PrepareBenchmark(b) ==
  /\ brun[b].status = "NONE" /\ Measurable(Of[b])
  /\ brun' = [brun EXCEPT ![b] = [status |-> "PREPARED", found |-> inv[NodeOf(b)]]]
  /\ UNCHANGED <<release, qualVars, task, evidence, failedLater, lastTry, agentVars,
                 nodeVars>>

(* apply_benchmark_run: NODE_EXCLUSIVE work, not a PROBE, keeps it out.         *)
ApplyBenchmark(b) ==
  LET n == NodeOf(b)
  IN  /\ brun[b].status = "PREPARED"
      /\ <<n, "WORK">> \notin visitors /\ ~InBenchmark(n) /\ ~InQualification(n)
      /\ Measurable(Of[b]) /\ inv[n] = brun[b].found
      /\ brun' = [brun EXCEPT ![b].status = "QUEUED"]
      /\ task' = [task EXCEPT ![b] = "QUEUED"]
      /\ UNCHANGED <<release, qualVars, evidence, failedLater, lastTry, agentVars,
                     nodeVars>>

Tried(p, ok, found) ==
  lastTry' = [lastTry EXCEPT ![p] = [ok |-> ok, found |-> IF ok THEN found ELSE "UNFIT"]]

(* register_benchmark_evidence: a later registration is the one that counts.    *)
(* It is stored with the inventory the node has then.                        *)
Registered(p, st, measured) ==
  /\ evidence' = [evidence EXCEPT ![p] = [status |-> st, found |-> inv[Site[p]]]]
  /\ failedLater' = failedLater \ {b \in Benchmark : Of[b] = p}
  /\ Tried(p, st = "PASSED", measured)

(* _fail_benchmark_record, and the cancellation of a run                       *)
RunFailed(b, st) ==
  /\ brun' = [brun EXCEPT ![b].status = "FAILED"]
  /\ task' = [task EXCEPT ![b] = st]
  /\ failedLater' = failedLater \cup {b}
  /\ Tried(Of[b], FALSE, None)
  /\ UNCHANGED evidence

(* The release, the node and its inventory are checked again with the result.   *)
Registrable(b) == Measurable(Of[b]) /\ inv[NodeOf(b)] = brun[b].found

(* complete_benchmark_task, fail_benchmark_task: RUNNING is enough, the lease   *)
(* may have run out.  A result that cannot be registered fails the run.       *)
Report(b) ==
  /\ result[b] # "NONE" /\ host[NodeOf(b)] = "UP"
  /\ task[b] \in {"RUNNING", "EXPIRED"} /\ brun[b].status = "QUEUED"
  /\ \/ /\ result[b] \in Outcomes /\ Registrable(b)
        /\ Registered(Of[b], result[b], brun[b].found)
        /\ brun' = [brun EXCEPT ![b].status = "SUCCEEDED"]
        /\ task' = [task EXCEPT ![b] = "SUCCEEDED"]
     \/ /\ result[b] = "ERROR" \/ ~Registrable(b)
        /\ RunFailed(b, "FAILED")
  /\ result' = [result EXCEPT ![b] = "NONE"]
  /\ UNCHANGED <<release, qualVars, doing, container, nodeVars>>

(* cancel_task                                                               *)
CancelBenchmark(b) ==
  /\ task[b] \in {"QUEUED", "EXPIRED"} /\ brun[b].status = "QUEUED"
  /\ RunFailed(b, "CANCELED")
  /\ UNCHANGED <<release, qualVars, agentVars, nodeVars>>

(* The administrative endpoint: evidence measured outside a run.               *)
RegisterByHand(p, st) ==
  /\ Measurable(p) /\ Registered(p, st, inv[Site[p]]) /\ Bounded(st = "PASSED")
  /\ UNCHANGED <<release, qualVars, brun, task, agentVars, host, inv, visitors>>

----------------------------------------------------------------------------
(* Promotion *)

UnresolvedMutPendingOnly(p) == \E b \in Benchmark : Of[b] = p /\ brun[b].status = "QUEUED"
(* A run that is under way, or that failed after the evidence.                 *)
Unresolved(p) ==
  \E b \in Benchmark : Of[b] = p /\ (brun[b].status = "QUEUED" \/ b \in failedLater)

(* _qualifying_evidence_ids, one placement                                    *)
Earned(p) ==
  IF p \in Generated THEN QualificationHolds(p)
  ELSE /\ evidence[p].status = "PASSED" /\ ~Unresolved(p)
       /\ host[Site[p]] # "REVOKED" /\ inv[Site[p]] = evidence[p].found

(* promote_model_release                                                     *)
Promote ==
  /\ release = "VALIDATED" /\ ActiveProfiles # {}
  /\ \A p \in ActiveProfiles : Earned(p)
  /\ release' = "ACTIVE"
  /\ UNCHANGED <<qualVars, benchVars, agentVars, nodeVars>>

----------------------------------------------------------------------------
(* Benchmarks, node *)

Busy(n) == doing[n] # None

(* claim_task: an expired BENCHMARK is simply leased again.  An outcome the     *)
(* agent has on record is reported without executing anything.               *)
Claim(b) ==
  LET n == NodeOf(b)
  IN  /\ task[b] \in {"QUEUED", "EXPIRED"} /\ host[n] = "UP" /\ ~Busy(n)
      /\ task' = [task EXCEPT ![b] = "RUNNING"]
      /\ doing' = IF result[b] = "NONE"
                  THEN [doing EXCEPT ![n] = [run |-> b, step |-> "CLAIMED"]] ELSE doing
      /\ UNCHANGED <<release, qualVars, brun, evidence, failedLater, lastTry, result, container,
                     nodeVars>>
LeaseExpires(b) ==
  /\ task[b] = "RUNNING"
  /\ task' = [task EXCEPT ![b] = "EXPIRED"]
  /\ UNCHANGED <<release, qualVars, brun, evidence, failedLater, lastTry, agentVars,
                 nodeVars>>

Executing(b, step) == doing[NodeOf(b)] = [run |-> b, step |-> step]
Recorded(b, r) ==
  /\ result' = [result EXCEPT ![b] = r]
  /\ doing' = [doing EXCEPT ![NodeOf(b)] = None]

(* reconcile: the container of an earlier attempt still runs, no report is made *)
(* and the lease is left to run out.                                         *)
Defer(b) ==
  /\ Executing(b, "CLAIMED") /\ container[b] = "RUNNING"
  /\ doing' = [doing EXCEPT ![NodeOf(b)] = None]
  /\ UNCHANGED <<release, qualVars, benchVars, result, container, nodeVars>>

NoOtherContainer(b) ==
  \A c \in Benchmark \ {b} : NodeOf(c) = NodeOf(b) => container[c] = "NONE"

(* A container of this run that ended, or outlived its deadline, is removed     *)
(* first; then nothing else may use the GPU, and the profile must be the one   *)
(* of the request.                                                          *)
Runnable(b) ==
  NoOtherContainer(b) /\ <<NodeOf(b), "WORK">> \notin visitors /\ inv[NodeOf(b)] = brun[b].found
Start(b) ==
  /\ Executing(b, "CLAIMED") /\ container[b] # "RUNNING"
  /\ Runnable(b)
  /\ container' = [container EXCEPT ![b] = "RUNNING"]
  /\ doing' = [doing EXCEPT ![NodeOf(b)].step = "ATTACHED"]
  /\ UNCHANGED <<release, qualVars, benchVars, result, nodeVars>>
Refuse(b) ==
  /\ Executing(b, "CLAIMED") /\ container[b] # "RUNNING"
  /\ ~Runnable(b)
  /\ container' = [container EXCEPT ![b] = "NONE"]
  /\ Recorded(b, "ERROR")
  /\ UNCHANGED <<release, qualVars, benchVars, nodeVars>>

(* The attached container ends with metrics, or the agent stops it.            *)
Measure(b) ==
  /\ Executing(b, "ATTACHED")
  /\ container' = [container EXCEPT ![b] = "NONE"]
  /\ \E r \in Results : Recorded(b, r) /\ Bounded(r = "PASSED")
  /\ UNCHANGED <<release, qualVars, benchVars, host, inv, visitors>>

(* The agent stops; a container it was attached to goes on alone.              *)
Crash(n) ==
  /\ Busy(n) /\ Bounded(FALSE)
  /\ doing' = [doing EXCEPT ![n] = None]
  /\ UNCHANGED <<release, qualVars, benchVars, result, container, host, inv, visitors>>
ContainerEnds(b) ==
  /\ container[b] = "RUNNING" /\ ~Executing(b, "ATTACHED")
  /\ container' = [container EXCEPT ![b] = "OLD"]
  /\ UNCHANGED <<release, qualVars, benchVars, doing, result, nodeVars>>
(* What is left of a canceled run is removed by the operator.                  *)
CleanUp(b) ==
  /\ container[b] = "OLD" /\ ~Live(b)
  /\ container' = [container EXCEPT ![b] = "NONE"]
  /\ UNCHANGED <<release, qualVars, benchVars, doing, result, nodeVars>>

----------------------------------------------------------------------------
(* Nodes *)

(* Nodes go down and come back; revoke_node leaves BENCHMARK tasks and          *)
(* qualification runs as they are.                                           *)
SetHost(n, st) ==
  /\ host[n] # st /\ "UP" \in {host[n], st}
  /\ Bounded(st = "UP")
  /\ host' = [host EXCEPT ![n] = st]
  /\ UNCHANGED <<release, qualVars, benchVars, agentVars, inv, visitors>>

(* The report of a PROBE stores another profile.                              *)
SetInventory(n, i) ==
  /\ inv[n] # i /\ host[n] = "UP" /\ Bounded(FALSE)
  /\ inv' = [inv EXCEPT ![n] = i]
  /\ UNCHANGED <<release, qualVars, benchVars, agentVars, host, visitors>>

----------------------------------------------------------------------------
Init ==
  /\ release = "DRAFT" /\ profile = [p \in Placement |-> "NONE"]
  /\ qualified = [p \in Generated |-> None]
  /\ qrun = [q \in Qualification |-> NoQualification]
  /\ brun = [b \in Benchmark |-> [status |-> "NONE", found |-> "FIRST"]]
  /\ task = [b \in Benchmark |-> "NONE"]
  /\ evidence = [p \in Manual |-> [status |-> "NONE", found |-> "FIRST"]]
  /\ failedLater = {} /\ lastTry = [p \in Manual |-> [ok |-> FALSE, found |-> "UNFIT"]]
  /\ doing = [n \in Node |-> None] /\ result = [b \in Benchmark |-> "NONE"]
  /\ container = [b \in Benchmark |-> "NONE"]
  /\ host = [n \in Node |-> "UP"] /\ inv = [n \in Node |-> "FIRST"]
  /\ visitors = {}
  /\ faults = 0

Operator ==
  \/ GenerateProfiles \/ \E p \in Manual : AddManual(p)
  \/ \E st \in {"VALIDATED", "DEPRECATED", "REVOKED"} : Transition(st)
  \/ Promote
  \/ \E q \in Qualification :
       \/ \E r \in Request : PrepareQualification(q, r)
       \/ \E st \in Outcomes : RegisterQualification(q, st)
       \/ CancelQualification(q)
  \/ \E p \in Generated : ActivateProfile(p)
  \/ \E b \in Benchmark : PrepareBenchmark(b) \/ ApplyBenchmark(b) \/ CancelBenchmark(b)
  \/ \E p \in Manual, st \in Outcomes : RegisterByHand(p, st)
Agents ==
  \E b \in Benchmark :
    \/ Claim(b) \/ LeaseExpires(b) \/ Defer(b) \/ Start(b) \/ Refuse(b) \/ Measure(b)
    \/ Report(b) \/ ContainerEnds(b) \/ CleanUp(b)
World ==
  \/ \E v \in Visits : Visit(v) \/ Leave(v)
  \/ \E n \in Node :
       \/ Crash(n)
       \/ n \in Changing /\ \E st \in {"UP", "DOWN", "REVOKED"} : SetHost(n, st)
       \/ n \in Changing /\ \E i \in Inventory : SetInventory(n, i)

Next == Operator \/ Agents \/ World
Spec == Init /\ [][Next]_vars

----------------------------------------------------------------------------
(* Properties *)

(* The rows of ProfileQualificationRun, of ProfileQualificationEvidence named    *)
(* by its run, of BenchmarkRun and of BenchmarkEvidence.                      *)
QualificationRuns ==
  {NoQualification} \cup
  UNION {[status : {"QUALIFYING", "PASSED", "FAILED", "CANCELED"}, request : {r},
          found : [r.nodes -> Inventory]] : r \in Request}
Qualifications == Qualification \cup {None}
BenchmarkRuns == [status : {"NONE", "PREPARED", "QUEUED", "SUCCEEDED", "FAILED"}, found : Inventory]
BenchmarkEvidences == [status : Outcomes \cup {"NONE"}, found : Inventory]

(* Every row keeps the shape and the status values of its table.               *)
TypeOK ==
  /\ release \in ReleaseStatus /\ profile \in [Placement -> ProfileStatus]
  /\ qualified \in [Generated -> Qualifications] /\ qrun \in [Qualification -> QualificationRuns]
  /\ brun \in [Benchmark -> BenchmarkRuns] /\ evidence \in [Manual -> BenchmarkEvidences]
  /\ \A b \in Benchmark :
       task[b] \in {"NONE", "QUEUED", "RUNNING", "EXPIRED", "SUCCEEDED", "FAILED", "CANCELED"}
  /\ failedLater \subseteq Benchmark
  /\ doing \in [Node -> [run : Benchmark, step : {"CLAIMED", "ATTACHED"}] \cup {None}]
  /\ result \in [Benchmark -> Results \cup {"NONE"}]
  /\ container \in [Benchmark -> {"NONE", "RUNNING", "OLD"}]
  /\ host \in [Node -> {"UP", "DOWN", "REVOKED"}] /\ inv \in [Node -> Inventory]
  /\ visitors \subseteq Visits /\ faults \in 0 .. MaxFaults

(* Nobody measures on a node that another uses: two qualifications share no     *)
(* node and no GPU; a qualification, a benchmark and exclusive work no node;   *)
(* and a benchmark starts no container beside one that an earlier run left.   *)
NodesUsedOnce ==
  /\ \A q, r \in Qualification : q # r /\ Qualifying(q) /\ Qualifying(r) =>
       \A m \in qrun[q].request.nodes, n \in qrun[r].request.nodes : m # n /\ GpuOf[m] # GpuOf[n]
  /\ \A n \in Node :
       /\ ~(InQualification(n) /\ InBenchmark(n))
       /\ <<n, "WORK">> \in visitors => ~InQualification(n) /\ ~InBenchmark(n)
       /\ Cardinality({b \in Benchmark : Live(b) /\ NodeOf(b) = n}) <= 1
       /\ Cardinality({b \in Benchmark : container[b] # "NONE" /\ NodeOf(b) = n}) <= 1

(* The rows of a measurement, which are written by requests, by reports and by  *)
(* cancellations, tell one story: a profile is in qualification exactly while  *)
(* one primary run is open, and has evidence exactly if one passed; a run is   *)
(* open exactly while its task is.                                           *)
ProfileAgreesWithRuns(p) ==
  LET primary(st) == {q \in Qualification : qrun[q].status = st
                        /\ qrun[q].request.placement = p /\ qrun[q].request.purpose = "PRIMARY"}
  IN  /\ Cardinality(primary("QUALIFYING")) = IF profile[p] = "QUALIFYING" THEN 1 ELSE 0
      /\ primary("PASSED") = IF profile[p] \in {"VALIDATED", "ACTIVE"} THEN {qualified[p]} ELSE {}
RunAgreesWithTask(b) ==
  /\ brun[b].status = "QUEUED" <=> Live(b)
  /\ brun[b].status = "SUCCEEDED" <=> task[b] = "SUCCEEDED"
  /\ brun[b].status = "FAILED" <=> task[b] \in {"FAILED", "CANCELED"}
  /\ brun[b].status = "SUCCEEDED" => evidence[Of[b]].status # "NONE"
RecordsAgree ==
  /\ \A p \in Generated : ProfileAgreesWithRuns(p)
  /\ \A b \in Benchmark : RunAgreesWithTask(b)

(* A release is promoted only if the last attempt to measure each of its active *)
(* profiles was a success, none is under way, and the nodes are still what was *)
(* measured, whatever was canceled, repeated or reported late in between.     *)
PromotionIsEarned ==
  [][release' = "ACTIVE" =>
       \A p \in ActiveProfiles :
         \/ /\ p \in Manual /\ lastTry[p].ok
            /\ host[Site[p]] # "REVOKED" /\ inv[Site[p]] = lastTry[p].found
            /\ \A b \in Benchmark : Of[b] = p => ~Live(b)
         \/ /\ p \in Generated /\ qrun[qualified[p]].status = "PASSED"
            /\ \A n \in qrun[qualified[p]].request.nodes :
                 host[n] = "UP" /\ inv[n] = qrun[qualified[p]].found[n]
    ]_release
=============================================================================
