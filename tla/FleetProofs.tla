---------------------------- MODULE FleetProofs ----------------------------
(* Theorems of Fleet for every set of nodes, candidates and recommendations.   *)
EXTENDS Fleet, TLAPS

----------------------------------------------------------------------------
(* Reservations *)

(* A stored snapshot placed its candidates on nodes that were free in the       *)
(* inventory it was evaluated on.                                            *)
PlacedOnFree(e) ==
  /\ e.selected \subseteq Candidate
  /\ \A c \in e.selected : NodesOf[c] \subseteq e.inventory.online \ e.inventory.occupied

ReservationInv ==
  /\ DOMAIN snapshot = Fleet
  /\ \A f \in Fleet : snapshot[f] # NoFleet => PlacedOnFree(snapshot[f])
  /\ visitors \subseteq Visits
  /\ GpuReservedOnce
  /\ ReservedForFleetOnly

(* Whatever schedule_fleet keeps was eligible.                                 *)
LEMMA ScheduledWasEligible ==
  ASSUME NEW i, i.current \subseteq Candidate, NEW s \in Schedules(Eligible(i))
  PROVE  /\ s \subseteq Candidate
         /\ \A c \in s : NodesOf[c] \subseteq i.online \ i.occupied
BY DEF Schedules, Packings, Eligible

LEMMA RecommendPlaces ==
  ASSUME NEW f \in Fleet, Recommend(f), ReservationInv
  PROVE  ReservationInv'
<1>1. PICK s \in Schedules(Eligible(Inventory)) :
        snapshot' = [snapshot EXCEPT ![f] = [inventory |-> Inventory, selected |-> s]]
  BY DEF Recommend
<1>2. Inventory.current \subseteq Candidate
  BY DEF Inventory, CurrentCandidates
<1>3. PlacedOnFree([inventory |-> Inventory, selected |-> s])
  BY <1>2, ScheduledWasEligible DEF PlacedOnFree
<1>4. reserved' = reserved /\ visitors' = visitors
  BY DEF Recommend, nodeVars
<1>5. \A g \in Fleet : snapshot'[g] # NoFleet => PlacedOnFree(snapshot'[g])
  BY <1>1, <1>3 DEF ReservationInv
<1> QED
  BY <1>1, <1>4, <1>5 DEF ReservationInv, PlacedOnFree, GpuReservedOnce, ReservedForFleetOnly

(* The bindings of the deployments that f would place.                        *)
NewBindings(f) == UNION {Bindings(d) : d \in {f} \X snapshot[f].selected}

LEMMA BindingShape ==
  ASSUME NEW f \in Fleet, NEW r \in NewBindings(f)
  PROVE  r[2] \in snapshot[f].selected /\ r[3] \in NodesOf[r[2]] /\ r = <<f, r[2], r[3]>>
BY DEF NewBindings, Bindings, FleetOf, Nodes

(* An acceptance takes only nodes and GPUs that were free in its inventory,     *)
(* which is still the current one.                                           *)
LEMMA AcceptedNodesAreFree ==
  ASSUME NEW f \in Fleet, Accept(f), ReservationInv,
         NEW c \in snapshot[f].selected, NEW n \in NodesOf[c]
  PROVE  n \in Node \ Occupied
<1>1. PlacedOnFree(snapshot[f]) /\ snapshot[f].inventory = Inventory
  BY DEF Accept, ReservationInv, StillCurrent
<1>2. c \in Candidate /\ n \in Node
  BY <1>1, FleetAssumption DEF PlacedOnFree
<1> QED
  BY <1>1, <1>2 DEF PlacedOnFree, Inventory

LEMMA AcceptReserves ==
  ASSUME NEW f \in Fleet, Accept(f), ReservationInv
  PROVE  ReservationInv'
<1>1. /\ reserved' = reserved \cup NewBindings(f)
      /\ snapshot' = snapshot /\ visitors' = visitors
      /\ \A c, e \in snapshot[f].selected : Compatible(c, e)
      /\ snapshot[f].selected \subseteq Candidate
  BY DEF Accept, nodeVars, NewBindings, ReservationInv, PlacedOnFree
<1>2. ASSUME NEW r \in NewBindings(f), NEW s \in reserved
      PROVE  r[3] # s[3] /\ GpuOf[r[3]] # GpuOf[s[3]]
  <2>1. r[3] \in Node \ Occupied
    BY BindingShape, AcceptedNodesAreFree
  <2> QED
    BY <2>1 DEF Occupied, ReservedNode, ReservedGpu, SameGpu
<1>3. ASSUME NEW r \in NewBindings(f), NEW s \in NewBindings(f), r # s
      PROVE  r[3] # s[3] /\ GpuOf[r[3]] # GpuOf[s[3]]
  <2>1. /\ r[2] \in snapshot[f].selected /\ r[3] \in NodesOf[r[2]] /\ r = <<f, r[2], r[3]>>
        /\ s[2] \in snapshot[f].selected /\ s[3] \in NodesOf[s[2]] /\ s = <<f, s[2], s[3]>>
    BY BindingShape
  <2>2. CASE r[2] = s[2]
    BY <1>1, <1>3, <2>1, <2>2, FleetAssumption
  <2>3. CASE r[2] # s[2]
    BY <1>1, <2>1, <2>3 DEF Compatible
  <2> QED
    BY <2>2, <2>3
<1>4. GpuReservedOnce'
  BY <1>1, <1>2, <1>3 DEF ReservationInv, GpuReservedOnce
<1>5. ASSUME NEW v \in visitors, NEW r \in NewBindings(f)
      PROVE  v[1] # r[3] /\ (v[2] = "WORK" => GpuOf[v[1]] # GpuOf[r[3]])
  <2>1. r[3] \in Node \ Occupied
    BY BindingShape, AcceptedNodesAreFree
  <2> QED
    BY <2>1 DEF Occupied, SameGpu
<1>6. ReservedForFleetOnly'
  BY <1>1, <1>5 DEF ReservationInv, ReservedForFleetOnly
<1> QED
  BY <1>1, <1>4, <1>6 DEF ReservationInv, PlacedOnFree

LEMMA VisitKeepsOut ==
  ASSUME NEW v \in Visits, Visit(v), ReservationInv
  PROVE  ReservationInv'
<1>1. /\ visitors' = visitors \cup {v} /\ reserved' = reserved /\ snapshot' = snapshot
      /\ ScopeFree(v)
  BY DEF Visit
<1>2. ASSUME NEW r \in reserved
      PROVE  v[1] # r[3] /\ (v[2] = "WORK" => GpuOf[v[1]] # GpuOf[r[3]])
  BY <1>1 DEF ScopeFree, ReservedNode, ReservedGpu, SameGpu
<1>3. ReservedForFleetOnly'
  BY <1>1, <1>2 DEF ReservationInv, ReservedForFleetOnly
<1> QED
  BY <1>1, <1>3 DEF ReservationInv, GpuReservedOnce, PlacedOnFree

(* No other step stores a snapshot, reserves a GPU or brings work to a node.    *)
LEMMA OthersReserveNothing ==
  ASSUME [Next]_vars,
         ~(\E f \in Fleet : Recommend(f) \/ Accept(f)), ~(\E v \in Visits : Visit(v))
  PROVE  snapshot' = snapshot /\ reserved' = reserved /\ visitors' \subseteq visitors
<1>1. CASE Planner \/ UNCHANGED vars
  BY <1>1 DEF Planner, vars, nodeVars
<1>2. CASE Others
  BY <1>2 DEF Others, Leave
<1>3. CASE Operator
  BY <1>3 DEF Operator, PrepareFleet, PrepareFails, ApplyFleet, ApplyFails, CancelTask,
              RecordFailure, LoseCommand, nodeVars
<1>4. CASE Agents
  BY <1>4 DEF Agents, PreparationEnds, ClaimTask, TaskSucceeds, TaskFails, nodeVars
<1>5. CASE World
  BY <1>5 DEF World, Revoke, Return, LoseEvidence, RegainEvidence, RevokeVariant
<1> QED
  BY <1>1, <1>2, <1>3, <1>4, <1>5 DEF Next

LEMMA ReservationStep ==
  ASSUME ReservationInv, [Next]_vars
  PROVE  ReservationInv'
<1>1. CASE \E f \in Fleet : Recommend(f) \/ Accept(f)
  BY <1>1, RecommendPlaces, AcceptReserves
<1>2. CASE \E v \in Visits : Visit(v)
  BY <1>2, VisitKeepsOut
<1>3. CASE ~(\E f \in Fleet : Recommend(f) \/ Accept(f)) /\ ~(\E v \in Visits : Visit(v))
  <2>1. snapshot' = snapshot /\ reserved' = reserved /\ visitors' \subseteq visitors
    BY <1>3, OthersReserveNothing
  <2> QED
    BY <2>1 DEF ReservationInv, PlacedOnFree, GpuReservedOnce, ReservedForFleetOnly
<1> QED
  BY <1>1, <1>2, <1>3

(* Reservations and visitors are disjoint, and every snapshot was placed on free *)
(* nodes.                                                                    *)
THEOREM ReservationsHold == Spec => []ReservationInv
<1>1. Init => ReservationInv
  BY DEF Init, ReservationInv, GpuReservedOnce, ReservedForFleetOnly
<1>2. ReservationInv /\ [Next]_vars => ReservationInv'
  BY ReservationStep
<1> QED
  BY <1>1, <1>2, PTL DEF Spec

----------------------------------------------------------------------------
(* One deployment: its runtime, its operation, its preparation                *)

Commands ==
  [kind : {"PREPARE", "APPLY"}, dep : Deployment, expected : RuntimeStatus \X BOOLEAN \X Nat]

(* The rows of deployment d with status st, operation o, preparation p, and vf    *)
(* the verified deployments: a finished operation has no live task, a live one  *)
(* shows in the status, and what is verified was prepared and stays ACTIVE.   *)
RowOK(d, st, o, p, vf) ==
  /\ o.done => \A n \in Nodes(d) : o.task[n] \notin Live
  /\ o.phase \in {"VERIFY", "COMPLETE"} => \A n \in Nodes(d) : o.task[n] # "NONE"
  /\ o.phase = "COMPLETE" =>
       o.done /\ o.status = "SUCCEEDED" /\ d \in vf /\ \A n \in Nodes(d) : o.task[n] = "SUCCEEDED"
  /\ o.phase \in {"VERIFY", "COMPLETE"} => p = "SUCCEEDED"
  /\ ~o.done => st = Synced(o)
  /\ st = "ACTIVE" => o.phase = "COMPLETE"
  /\ d \in vf => st = "ACTIVE"
  /\ p # "NONE" => st # "NONE"

RowsInv == \A d \in Deployment : RowOK(d, runtime[d].status, op[d], prep[d], verified)

(* A command that failed names what it saw, and while that is unchanged no      *)
(* operation of its deployment runs.                                         *)
CommandInv ==
  command # NoCommand =>
    /\ command.expected[1] \notin {"NONE", "ACTIVE"}
    /\ command.kind = "PREPARE" => command.expected[1] \notin Started
    /\ op[command.dep].no >= command.expected[3]
    /\ command.kind = "APPLY" /\ op[command.dep].no = command.expected[3] => op[command.dep].done

(* Reservations belong to accepted Fleets, and those stay what they were.        *)
StoredInv ==
  /\ \A f \in Fleet : snapshot[f] # NoFleet => snapshot[f].selected # {}
  /\ \A f \in Fleet : fleet[f] # "NONE" => snapshot[f] # NoFleet /\ StoredWhole(f)
  /\ \A r \in reserved : fleet[r[1]] # "NONE"

TypeInv ==
  /\ TypeOK
  /\ op \in [Deployment -> UNION {Operations(d) : d \in Deployment}]
  /\ command \in Commands \cup {NoCommand}

FleetInv == TypeInv /\ RowsInv /\ AggregateIsCurrent /\ StoredInv /\ CommandInv

----------------------------------------------------------------------------
(* Lemmas about operations *)

LEMMA DeploymentShape ==
  ASSUME NEW d \in Deployment
  PROVE  /\ FleetOf(d) \in Fleet /\ d[2] \in Candidate /\ d = <<FleetOf(d), d[2]>>
         /\ Nodes(d) \subseteq Node /\ Nodes(d) # {}
BY FleetAssumption DEF Deployment, FleetOf, Nodes

Marked(o, n, s) == [o EXCEPT !.task[n] = s]

LEMMA MarkedShape ==
  ASSUME NEW d \in Deployment, NEW o \in Operations(d), NEW n \in Nodes(d), NEW s \in RecordStatus
  PROVE  /\ Marked(o, n, s) \in Operations(d)
         /\ Marked(o, n, s).no = o.no /\ Marked(o, n, s).phase = o.phase
         /\ Marked(o, n, s).done = o.done /\ Marked(o, n, s).status = o.status
         /\ \A m \in Nodes(d) : Marked(o, n, s).task[m] = IF m = n THEN s ELSE o.task[m]
BY DEF Marked, Operations

LEMMA SyncedStatus ==
  ASSUME NEW d \in Deployment, NEW o \in Operations(d)
  PROVE  /\ Synced(o) \in Started
         /\ Synced(o) = "ACTIVE" => o.phase = "COMPLETE"
BY DEF Synced, Started

LEMMA TasksOf ==
  ASSUME NEW d \in Deployment, NEW o \in Operations(d), NEW sts
  PROVE  TasksIn(o, sts) = {n \in Nodes(d) : o.task[n] \in sts}
BY DEF TasksIn, Operations

LEMMA JudgedShape ==
  ASSUME NEW d \in Deployment, NEW o \in Operations(d)
  PROVE  /\ Judged(o) \in Operations(d)
         /\ Judged(o).no = o.no /\ Judged(o).phase = o.phase /\ Judged(o).task = o.task
         /\ Judged(o).done = (\A n \in Nodes(d) : o.task[n] \notin Live)
<1>1. TasksIn(o, Live) = {} <=> \A n \in Nodes(d) : o.task[n] \notin Live
  BY TasksOf
<1> QED
  BY <1>1 DEF Judged, Operations

LEMMA QueuedShape ==
  ASSUME NEW d \in Deployment, NEW k \in Nat, NEW ph \in Phases
  PROVE  /\ Queued(d, k, ph) \in Operations(d)
         /\ Queued(d, k, ph).no = k /\ Queued(d, k, ph).phase = ph
         /\ Queued(d, k, ph).done = FALSE /\ Queued(d, k, ph).status = "QUEUED"
         /\ \A n \in Nodes(d) : Queued(d, k, ph).task[n] \in {"QUEUED", "NONE"}
         /\ ph = "VERIFY" => \A n \in Nodes(d) : Queued(d, k, ph).task[n] = "QUEUED"
BY DEF Queued, Operations, PhaseNodes, RecordStatus

LEMMA NextPhaseShape ==
  ASSUME NEW ph \in Phases \ {"VERIFY"}
  PROVE  NextPhase(ph) \in Phases /\ NextPhase(ph) # ph
<1>1. CASE ph = "APPLY"
  BY <1>1, ZenonT(20) DEF NextPhase, Phases
<1>2. CASE ph = "START_API"
  BY <1>2, ZenonT(20) DEF NextPhase, Phases
<1>3. CASE ph = "VERIFY_API"
  BY <1>3, ZenonT(20) DEF NextPhase, Phases
<1> QED
  BY <1>1, <1>2, <1>3 DEF Phases

----------------------------------------------------------------------------
(* Steps on one runtime *)

(* Runtime d moves to r, and the status of its Fleet follows.                  *)
Moves(d, r) ==
  /\ runtime[d].status # "NONE" /\ r \in Runtimes /\ r.status # "NONE"
  /\ SetRuntime(d, r)

LEMMA AggregateShape ==
  ASSUME NEW f, NEW rt
  PROVE  Aggregate(f, rt) \in FleetStatus \ {"NONE"}
BY DEF Aggregate, FleetStatus

LEMMA MovesShape ==
  ASSUME TypeOK, NEW d \in Deployment, NEW r, Moves(d, r)
  PROVE  /\ runtime' = [runtime EXCEPT ![d] = r]
         /\ runtime' \in [Deployment -> Runtimes]
         /\ \A e \in Deployment : runtime'[e].status = "NONE" <=> runtime[e].status = "NONE"
         /\ fleet' \in [Fleet -> FleetStatus]
         /\ fleet' = [fleet EXCEPT ![FleetOf(d)] = Aggregate(FleetOf(d), runtime')]
         /\ \A f : Deployed(f)' = Deployed(f)
<1>1. runtime \in [Deployment -> Runtimes] /\ fleet \in [Fleet -> FleetStatus]
  BY DEF TypeOK
<1>2. runtime' = [runtime EXCEPT ![d] = r]
  BY DEF Moves, SetRuntime, Recompute
<1>3. fleet' = [fleet EXCEPT ![FleetOf(d)] = Aggregate(FleetOf(d), runtime')]
  BY <1>2 DEF Moves, SetRuntime, Recompute
<1>4. /\ runtime' \in [Deployment -> Runtimes]
      /\ \A e \in Deployment : runtime'[e].status = "NONE" <=> runtime[e].status = "NONE"
  BY <1>1, <1>2 DEF Moves
<1>5. fleet' \in [Fleet -> FleetStatus]
  BY <1>1, <1>3, AggregateShape
<1>6. ASSUME NEW f PROVE Deployed(f)' = Deployed(f)
  <2>1. ASSUME NEW e \in {f} \X Candidate
        PROVE  runtime'[e].status = "NONE" <=> runtime[e].status = "NONE"
    <3>1. CASE e \in Deployment
      BY <1>4, <3>1
    <3>2. CASE e \notin Deployment
      BY <1>1, <1>2, <3>2
    <3> QED
      BY <3>1, <3>2
  <2> QED
    BY <2>1 DEF Deployed
<1> QED
  BY <1>2, <1>3, <1>4, <1>5, <1>6

(* The status of every Fleet stays the aggregate.                              *)
LEMMA MovesAggregate ==
  ASSUME TypeOK, AggregateIsCurrent, NEW d \in Deployment, NEW r, Moves(d, r)
  PROVE  /\ AggregateIsCurrent'
         /\ \A f \in Fleet : fleet'[f] = "NONE" <=> fleet[f] = "NONE"
<1>1. /\ runtime' = [runtime EXCEPT ![d] = r]
      /\ fleet' = [fleet EXCEPT ![FleetOf(d)] = Aggregate(FleetOf(d), runtime')]
      /\ \A f : Deployed(f)' = Deployed(f)
  BY MovesShape
<1>2. d \in Deployed(FleetOf(d)) /\ FleetOf(d) \in Fleet
  BY DeploymentShape DEF Moves, Deployed
<1>3. runtime \in [Deployment -> Runtimes] /\ fleet \in [Fleet -> FleetStatus]
  BY DEF TypeOK
<1>4. ASSUME NEW f \in Fleet
      PROVE  /\ fleet'[f] = IF Deployed(f)' = {} THEN "NONE" ELSE Aggregate(f, runtime)'
             /\ fleet'[f] = "NONE" <=> fleet[f] = "NONE"
  <2>1. fleet[f] = IF Deployed(f) = {} THEN "NONE" ELSE Aggregate(f, runtime)
    BY DEF AggregateIsCurrent
  <2>2. Aggregate(f, runtime)' = Aggregate(f, runtime')
    BY <1>1 DEF Aggregate
  <2>3. CASE f = FleetOf(d)
    BY <1>1, <1>2, <1>3, <2>1, <2>2, <2>3, AggregateShape
  <2>4. CASE f # FleetOf(d)
    <3>1. \A e \in Deployed(f) : runtime'[e] = runtime[e]
      BY <1>1, <1>3, <2>4, DeploymentShape DEF Deployed, Deployment, FleetOf
    <3>2. {runtime'[e].status : e \in Deployed(f)} = {runtime[e].status : e \in Deployed(f)}
      BY <3>1
    <3>3. Aggregate(f, runtime') = Aggregate(f, runtime)
      BY <3>2 DEF Aggregate
    <3>4. fleet'[f] = fleet[f]
      BY <1>1, <1>3, <2>4
    <3> QED
      BY <1>1, <2>1, <2>2, <3>3, <3>4
  <2> QED
    BY <2>3, <2>4
<1> QED
  BY <1>4 DEF AggregateIsCurrent

LEMMA MovesStored ==
  ASSUME TypeOK, AggregateIsCurrent, StoredInv, NEW d \in Deployment, NEW r, Moves(d, r),
         snapshot' = snapshot, reserved' = reserved
  PROVE  StoredInv'
<1>1. \A f : Deployed(f)' = Deployed(f)
  BY MovesShape
<1>2. \A f \in Fleet : fleet'[f] = "NONE" <=> fleet[f] = "NONE"
  BY MovesAggregate
<1>3. \A f \in Fleet : StoredWhole(f) => StoredWhole(f)'
  BY <1>1 DEF StoredWhole
<1>4. \A q \in reserved : q[1] \in Fleet
  BY DEF TypeOK, Reservations
<1> QED
  BY <1>2, <1>3, <1>4 DEF StoredInv

----------------------------------------------------------------------------
(* Steps on one deployment *)

(* Nothing but deployment d changes its rows, and its new rows are in order.    *)
Local(d) ==
  /\ op' \in [Deployment -> UNION {Operations(e) : e \in Deployment}]
  /\ op'[d] \in Operations(d)
  /\ prep' \in [Deployment -> {"NONE", "RUNNING", "SUCCEEDED", "FAILED"}]
  /\ ready' \subseteq Deployment \X Node /\ verified' \subseteq Deployment
  /\ snapshot' = snapshot /\ reserved' = reserved
  /\ \A e \in Deployment \ {d} :
       /\ op'[e] = op[e] /\ prep'[e] = prep[e]
       /\ e \in verified' <=> e \in verified
  /\ RowOK(d, runtime'[d].status, op'[d], prep'[d], verified')

(* Only its own membership in the set of verified deployments matters to a row.  *)
LEMMA RowFrame ==
  ASSUME NEW d, NEW st, NEW o, NEW p, NEW vf, NEW vf2,
         RowOK(d, st, o, p, vf), d \in vf <=> d \in vf2
  PROVE  RowOK(d, st, o, p, vf2)
BY DEF RowOK

LEMMA LocalRows ==
  ASSUME FleetInv, NEW d \in Deployment, NEW r, Moves(d, r), Local(d)
  PROVE  RowsInv' /\ AggregateIsCurrent' /\ StoredInv'
<1>1. AggregateIsCurrent' /\ StoredInv'
  BY MovesAggregate, MovesStored DEF FleetInv, TypeInv, Local
<1>2. ASSUME NEW e \in Deployment
      PROVE  RowOK(e, runtime[e].status, op[e], prep[e], verified)'
  <2>1. CASE e = d
    BY <2>1 DEF Local, RowOK, Nodes, Synced
  <2>2. CASE e # d
    <3>1. runtime'[e] = runtime[e]
      BY <2>2, MovesShape DEF FleetInv, TypeInv, TypeOK
    <3>2. RowOK(e, runtime[e].status, op[e], prep[e], verified)
      BY DEF FleetInv, RowsInv
    <3>3. /\ op'[e] = op[e] /\ prep'[e] = prep[e]
          /\ e \in verified' <=> e \in verified
      BY <2>2 DEF Local
    <3>4. RowOK(e, runtime'[e].status, op'[e], prep'[e], verified)
      BY <3>1, <3>2, <3>3
    <3>5. RowOK(e, runtime'[e].status, op'[e], prep'[e], verified')
      BY <3>3, <3>4, RowFrame
    <3> QED
      BY <3>5 DEF RowOK, Synced, Nodes
  <2> QED
    BY <2>1, <2>2
<1> QED
  BY <1>1, <1>2 DEF RowsInv

----------------------------------------------------------------------------
(* What a step on one deployment must show                                    *)

WorldOK ==
  /\ visitors \subseteq Visits /\ online \subseteq Node
  /\ evidence \in [Candidate -> Evidence] /\ faults \in 0 .. MaxFaults

LEMMA WorldStep ==
  ASSUME TypeOK, [Next]_vars
  PROVE  WorldOK'
<1>1. WorldOK /\ MaxFaults \in Nat
  BY FleetAssumption DEF TypeOK, WorldOK
<1>2. CASE Planner \/ UNCHANGED vars
  BY <1>1, <1>2 DEF Planner, Recommend, Accept, vars, nodeVars, WorldOK
<1>3. CASE Others
  BY <1>1, <1>3 DEF Others, Visit, Leave, WorldOK
<1>4. CASE Operator
  <2>1. ASSUME NEW d \in Deployment, NEW n \in Nodes(d), CancelTask(d, n) PROVE WorldOK'
    BY <1>1, <2>1 DEF CancelTask, WorldOK
  <2>2. CASE UNCHANGED nodeVars
    BY <1>1, <2>2 DEF nodeVars, WorldOK
  <2> QED
    BY <1>4, <2>1, <2>2 DEF Operator, PrepareFleet, PrepareFails, ApplyFleet, ApplyFails,
                            RecordFailure, LoseCommand
<1>5. CASE Agents
  <2>1. ASSUME NEW d \in Deployment, NEW n \in Nodes(d), TaskFails(d, n) PROVE WorldOK'
    BY <1>1, <2>1 DEF TaskFails, WorldOK
  <2>2. ASSUME NEW d \in Deployment, PreparationEnds(d) PROVE WorldOK'
    BY <1>1, <2>2 DEF PreparationEnds, WorldOK
  <2>3. CASE UNCHANGED nodeVars
    BY <1>1, <2>3 DEF nodeVars, WorldOK
  <2> QED
    BY <1>5, <2>1, <2>2, <2>3 DEF Agents, ClaimTask, TaskSucceeds
<1>6. CASE World
  <2>1. ASSUME NEW n \in Node, Revoke(n) PROVE WorldOK'
    BY <1>1, <2>1 DEF Revoke, WorldOK
  <2>2. ASSUME NEW n \in Node, Return(n) PROVE WorldOK'
    BY <1>1, <2>2 DEF Return, WorldOK
  <2>3. ASSUME NEW c \in Candidate, LoseEvidence(c) PROVE WorldOK'
    BY <1>1, <2>3 DEF LoseEvidence, WorldOK, Evidence
  <2>4. ASSUME NEW c \in Candidate, RegainEvidence(c) PROVE WorldOK'
    BY <1>1, <2>4 DEF RegainEvidence, WorldOK, Evidence
  <2>5. ASSUME NEW v \in Variant, RevokeVariant(v) PROVE WorldOK'
    BY <1>1, <2>5 DEF RevokeVariant, WorldOK, Evidence
  <2> QED
    BY <1>6, <2>1, <2>2, <2>3, <2>4, <2>5 DEF World
<1> QED
  BY <1>2, <1>3, <1>4, <1>5, <1>6 DEF Next

LEMMA LocalStep ==
  ASSUME FleetInv, WorldOK', NEW d \in Deployment, NEW r, Moves(d, r), Local(d),
         command' \in Commands \cup {NoCommand}, CommandInv'
  PROVE  FleetInv'
<1>1. RowsInv' /\ AggregateIsCurrent' /\ StoredInv'
  BY LocalRows
<1>2. runtime' \in [Deployment -> Runtimes] /\ fleet' \in [Fleet -> FleetStatus]
  BY MovesShape DEF FleetInv, TypeInv
<1>3. \A e \in Deployment : op'[e] \in Operations(e)
  BY DEF Local, FleetInv, TypeInv, TypeOK
<1>4. TypeOK'
  BY <1>2, <1>3 DEF FleetInv, TypeInv, TypeOK, WorldOK, Local, Operations, Nodes
<1>5. TypeInv'
  BY <1>4 DEF TypeInv, Local, Commands, Deployment, Operations, Nodes
<1> QED
  BY <1>1, <1>5 DEF FleetInv

(* The command is the same, and the operation of d is unchanged, advanced while  *)
(* it was live, or a later one.                                              *)
LEMMA CommandKept ==
  ASSUME FleetInv, NEW d \in Deployment, command' = command,
         \A e \in Deployment \ {d} : op'[e] = op[e],
         \/ op'[d] = op[d]
         \/ ~op[d].done /\ op'[d].no = op[d].no
         \/ op'[d].no = op[d].no + 1
  PROVE  CommandInv' /\ command' \in Commands \cup {NoCommand}
<1>1. CASE command = NoCommand
  BY <1>1 DEF CommandInv
<1>2. CASE command # NoCommand
  <2>1. /\ command \in Commands /\ command.dep \in Deployment /\ command.expected[3] \in Nat
        /\ CommandInv
    BY <1>2 DEF FleetInv, TypeInv, Commands
  <2>2. op[d].no \in Nat /\ op[command.dep].no \in Nat
    BY <2>1 DEF FleetInv, TypeInv, TypeOK, Operations
  <2>3. op'[command.dep].no >= command.expected[3]
    BY <1>2, <2>1, <2>2 DEF CommandInv
  <2>4. command.kind = "APPLY" /\ op'[command.dep].no = command.expected[3] =>
          op'[command.dep].done
    BY <1>2, <2>1, <2>2 DEF CommandInv
  <2> QED
    BY <1>2, <2>1, <2>3, <2>4 DEF CommandInv
<1> QED
  BY <1>1, <1>2

LEMMA CommandEnds ==
  ASSUME command' = NoCommand
  PROVE  CommandInv' /\ command' \in Commands \cup {NoCommand}
BY DEF CommandInv

(* No deployment goes back behind its first APPLY.                            *)
Forward ==
  \A d \in Deployment : runtime[d].status \in Started => runtime'[d].status \in Started

----------------------------------------------------------------------------
(* Preparations *)

LEMMA Stays ==
  ASSUME FleetInv, NEW d \in Deployment, UNCHANGED <<runtime, fleet>>, runtime[d].status # "NONE"
  PROVE  Moves(d, runtime[d])
<1>1. runtime \in [Deployment -> Runtimes] /\ fleet \in [Fleet -> FleetStatus]
  BY DEF FleetInv, TypeInv, TypeOK
<1>2. FleetOf(d) \in Fleet /\ d \in Deployed(FleetOf(d))
  BY DeploymentShape DEF Deployed
<1>3. fleet[FleetOf(d)] = Aggregate(FleetOf(d), runtime)
  BY <1>2 DEF FleetInv, AggregateIsCurrent
<1>4. [runtime EXCEPT ![d] = runtime[d]] = runtime
  BY <1>1
<1>5. [fleet EXCEPT ![FleetOf(d)] = Aggregate(FleetOf(d), runtime)] = fleet
  BY <1>1, <1>3
<1> QED
  BY <1>1, <1>4, <1>5 DEF Moves, SetRuntime, Recompute

Ended == {"SUCCEEDED", "FAILED", "RUNNING"}

(* A preparation leaves a started runtime alone and moves another one within    *)
(* the statuses before the first APPLY.                                      *)
LEMMA BindMoves ==
  ASSUME FleetInv, NEW d \in Deployment, NEW st \in Ended, Bind(d, st),
         runtime[d].status # "NONE"
  PROVE  \E r : /\ Moves(d, r)
                /\ \/ r = runtime[d]
                   \/ runtime[d].status \notin Started /\ r.status \notin Started
<1>1. runtime[d] \in Runtimes
  BY DEF FleetInv, TypeInv, TypeOK
<1>2. CASE ~MovesBack(d)
  BY <1>2, Stays DEF Bind
<1>3. CASE MovesBack(d)
  <2>1. PICK s : s = CASE st = "SUCCEEDED" -> "PREPARED"
                       [] st = "FAILED" -> "PREPARE_FAILED"
                       [] st = "RUNNING" -> "PREPARING"
    OBVIOUS
  <2>2. s \in {"PREPARED", "PREPARE_FAILED", "PREPARING"}
    <3>1. CASE st = "SUCCEEDED"
      BY <2>1, <3>1, ZenonT(20)
    <3>2. CASE st = "FAILED"
      BY <2>1, <3>2, ZenonT(20)
    <3>3. CASE st = "RUNNING"
      BY <2>1, <3>3, ZenonT(20)
    <3> QED
      BY <3>1, <3>2, <3>3 DEF Ended
  <2>3. SetRuntime(d, [runtime[d] EXCEPT !.prepared = TRUE, !.status = s])
    BY <1>3, <2>1 DEF Bind
  <2>4. /\ [runtime[d] EXCEPT !.prepared = TRUE, !.status = s] \in Runtimes
        /\ [runtime[d] EXCEPT !.prepared = TRUE, !.status = s].status = s
    BY <1>1, <2>2 DEF Runtimes, RuntimeStatus
  <2>5. Moves(d, [runtime[d] EXCEPT !.prepared = TRUE, !.status = s])
    BY <2>2, <2>3, <2>4 DEF Moves
  <2> QED
    BY <1>3, <2>2, <2>4, <2>5 DEF MovesBack, Started
<1> QED
  BY <1>2, <1>3

PreparationStep(d, p) ==
  /\ prep' = [prep EXCEPT ![d] = p] /\ p \in Ended /\ Bind(d, p)
  /\ runtime[d].status # "NONE" /\ (prep[d] = "SUCCEEDED" => p = "SUCCEEDED")
  /\ ready' = ready \/ ready' = ready \cup ({d} \X Nodes(d))
  /\ UNCHANGED <<snapshot, reserved, op, verified, command>>

LEMMA PreparationStepShows ==
  ASSUME FleetInv, WorldOK', NEW d \in Deployment, NEW p, PreparationStep(d, p)
  PROVE  /\ FleetInv'
         /\ Forward
<1>1. PICK r : /\ Moves(d, r)
               /\ \/ r = runtime[d]
                  \/ runtime[d].status \notin Started /\ r.status \notin Started
  BY BindMoves DEF PreparationStep
<1>2. runtime' = [runtime EXCEPT ![d] = r] /\ runtime \in [Deployment -> Runtimes]
  BY <1>1, MovesShape DEF FleetInv, TypeInv, TypeOK
<1>3. /\ runtime'[d] = r /\ r.status # "NONE"
      /\ op' = op /\ verified' = verified
      /\ prep'[d] = p
  BY <1>1, <1>2 DEF PreparationStep, Moves, FleetInv, TypeInv, TypeOK
<1>4. RowOK(d, runtime[d].status, op[d], prep[d], verified)
  BY DEF FleetInv, RowsInv
<1>5. op[d] \in Operations(d)
  BY DEF FleetInv, TypeInv, TypeOK
<1>6. RowOK(d, r.status, op[d], p, verified')
  <2>1. CASE r = runtime[d]
    BY <1>3, <1>4, <2>1 DEF RowOK, PreparationStep
  <2>2. CASE runtime[d].status \notin Started /\ r.status \notin Started
    <3>1. op[d].done
      BY <1>4, <1>5, <2>2, SyncedStatus DEF RowOK
    <3>2. r.status # "ACTIVE" /\ runtime[d].status # "ACTIVE"
      BY <2>2 DEF Started
    <3> QED
      BY <1>3, <1>4, <3>1, <3>2 DEF RowOK, PreparationStep
  <2> QED
    BY <1>1, <2>1, <2>2
<1>7. Local(d)
  <2>1. Nodes(d) \subseteq Node
    BY DeploymentShape
  <2>2. prep' \in [Deployment -> {"NONE", "RUNNING", "SUCCEEDED", "FAILED"}]
    BY DEF PreparationStep, FleetInv, TypeInv, TypeOK, Ended
  <2>3. ready' \subseteq Deployment \X Node
    BY <2>1 DEF PreparationStep, FleetInv, TypeInv, TypeOK
  <2>4. \A e \in Deployment \ {d} : prep'[e] = prep[e]
    BY DEF PreparationStep, FleetInv, TypeInv, TypeOK
  <2> QED
    BY <1>3, <1>5, <1>6, <2>2, <2>3, <2>4
       DEF Local, PreparationStep, FleetInv, TypeInv, TypeOK
<1>8. CommandInv' /\ command' \in Commands \cup {NoCommand}
  BY <1>3, CommandKept DEF PreparationStep
<1>9. Forward
  BY <1>1, <1>2 DEF Forward
<1> QED
  BY <1>1, <1>7, <1>8, <1>9, LocalStep

LEMMA RunningRow ==
  ASSUME FleetInv, NEW d \in Deployment, prep[d] # "NONE"
  PROVE  runtime[d].status # "NONE"
BY DEF FleetInv, RowsInv, RowOK

LEMMA PrepareFleetStep ==
  ASSUME FleetInv, NEW d \in Deployment, PrepareFleet(d)
  PROVE  \E p : PreparationStep(d, p)
<1>1. PICK p : p = IF Settled(d) THEN prep[d] ELSE "RUNNING"
  OBVIOUS
<1>2. prep \in [Deployment -> {"NONE", "RUNNING", "SUCCEEDED", "FAILED"}]
  BY DEF FleetInv, TypeInv, TypeOK
<1>3. prep' = [prep EXCEPT ![d] = p] /\ prep'[d] = p
  BY <1>1, <1>2 DEF PrepareFleet
<1>4. p \in Ended /\ (prep[d] = "SUCCEEDED" => p = "SUCCEEDED")
  BY <1>1 DEF Settled, Ended
<1> QED
  BY <1>3, <1>4 DEF PrepareFleet, PreparationStep, MayPrepare

LEMMA PreparationEndsStep ==
  ASSUME FleetInv, NEW d \in Deployment, PreparationEnds(d)
  PROVE  \E p : PreparationStep(d, p)
<1>1. prep \in [Deployment -> {"NONE", "RUNNING", "SUCCEEDED", "FAILED"}]
  BY DEF FleetInv, TypeInv, TypeOK
<1>2. runtime[d].status # "NONE" /\ prep[d] # "SUCCEEDED"
  BY RunningRow DEF PreparationEnds
<1>3. PICK p \in Ended : prep' = [prep EXCEPT ![d] = p]
  BY DEF PreparationEnds, Ended
<1>4. prep'[d] = p
  BY <1>1, <1>3
<1> QED
  BY <1>2, <1>3, <1>4 DEF PreparationEnds, PreparationStep

----------------------------------------------------------------------------
(* Operations *)

(* The operation of d becomes o: the same one, advanced while it was live, or   *)
(* the next one.                                                             *)
OperationStep(d, o) ==
  /\ o \in Operations(d) /\ SetOperation(d, o)
  /\ \/ ~op[d].done /\ o.no = op[d].no
     \/ o.no = op[d].no + 1 /\ runtime[d].status # "NONE"
  /\ ready' \subseteq ready
  /\ verified \subseteq verified' /\ verified' \subseteq verified \cup {d}
  /\ RowOK(d, Synced(o), o, prep[d], verified')
  /\ UNCHANGED <<snapshot, reserved, prep, command>>

LEMMA OperationStepShows ==
  ASSUME FleetInv, WorldOK', NEW d \in Deployment, NEW o, OperationStep(d, o)
  PROVE  FleetInv' /\ Forward
<1> DEFINE r == [runtime[d] EXCEPT !.status = Synced(o)]
<1>1. /\ runtime \in [Deployment -> Runtimes] /\ op[d] \in Operations(d)
      /\ op \in [Deployment -> UNION {Operations(e) : e \in Deployment}]
  BY DEF FleetInv, TypeInv, TypeOK
<1>2. Synced(o) \in Started /\ Synced(op[d]) \in Started
  BY <1>1, SyncedStatus DEF OperationStep
<1>3. r \in Runtimes /\ r.status = Synced(o)
  BY <1>1, <1>2 DEF Runtimes, RuntimeStatus, Started
<1>4. runtime[d].status # "NONE"
  BY <1>2 DEF OperationStep, FleetInv, RowsInv, RowOK, Started
<1>5. Moves(d, r)
  BY <1>2, <1>3, <1>4 DEF Moves, OperationStep, SetOperation, Started
<1>6. runtime' = [runtime EXCEPT ![d] = r]
  BY <1>5, MovesShape DEF FleetInv, TypeInv
<1>7. op' = [op EXCEPT ![d] = o] /\ op'[d] = o
  BY <1>1 DEF OperationStep, SetOperation
<1>8. Local(d)
  <2>1. op' \in [Deployment -> UNION {Operations(e) : e \in Deployment}]
    BY <1>1, <1>7 DEF OperationStep
  <2>2. ready' \subseteq Deployment \X Node /\ verified' \subseteq Deployment
    BY DEF OperationStep, FleetInv, TypeInv, TypeOK
  <2>3. prep' \in [Deployment -> {"NONE", "RUNNING", "SUCCEEDED", "FAILED"}]
    BY DEF OperationStep, FleetInv, TypeInv, TypeOK
  <2>4. RowOK(d, runtime'[d].status, op'[d], prep'[d], verified')
    <3>1. runtime'[d].status = Synced(o) /\ prep'[d] = prep[d]
      BY <1>1, <1>3, <1>6 DEF OperationStep
    <3> QED
      BY <1>7, <3>1 DEF OperationStep
  <2>5. ASSUME NEW e \in Deployment \ {d}
        PROVE  /\ op'[e] = op[e] /\ prep'[e] = prep[e]
               /\ e \in verified' <=> e \in verified
    BY <1>1, <1>7 DEF OperationStep
  <2> QED
    BY <1>7, <2>1, <2>2, <2>3, <2>4, <2>5 DEF Local, OperationStep
<1>9. CommandInv' /\ command' \in Commands \cup {NoCommand}
  BY <1>1, <1>7, CommandKept DEF OperationStep
<1>10. Forward
  BY <1>1, <1>2, <1>3, <1>6 DEF Forward
<1> QED
  BY <1>5, <1>8, <1>9, <1>10, LocalStep

(* Only an operation that is not done has a live task.                         *)
LEMMA LiveTask ==
  ASSUME FleetInv, NEW d \in Deployment, NEW n \in Nodes(d), op[d].task[n] \in Live
  PROVE  ~op[d].done /\ op[d].phase # "COMPLETE" /\ op[d] \in Operations(d)
BY DEF FleetInv, TypeInv, TypeOK, RowsInv, RowOK

LEMMA CurrentRow ==
  ASSUME FleetInv, NEW d \in Deployment
  PROVE  RowOK(d, runtime[d].status, op[d], prep[d], verified)
BY DEF FleetInv, RowsInv

(* The deployment of a live operation is not verified yet.                     *)
LEMMA LiveIsUnverified ==
  ASSUME FleetInv, NEW d \in Deployment, ~op[d].done
  PROVE  d \notin verified
BY CurrentRow DEF RowOK

(* A live operation whose phase does not change stays in order.                *)
LEMMA SamePhaseRow ==
  ASSUME FleetInv, NEW d \in Deployment, ~op[d].done, op[d].phase # "COMPLETE",
         NEW o \in Operations(d), o.phase = op[d].phase, verified' = verified,
         o.done => \A n \in Nodes(d) : o.task[n] \notin Live,
         \A n \in Nodes(d) : op[d].task[n] # "NONE" => o.task[n] # "NONE"
  PROVE  RowOK(d, Synced(o), o, prep[d], verified')
<1>1. RowOK(d, runtime[d].status, op[d], prep[d], verified) /\ d \notin verified
  BY CurrentRow, LiveIsUnverified
<1>2. Synced(o) \in Started /\ Synced(o) # "NONE" /\ (Synced(o) = "ACTIVE" => o.phase = "COMPLETE")
  BY SyncedStatus DEF Started
<1>3. o.phase \in {"VERIFY", "COMPLETE"} => \A n \in Nodes(d) : o.task[n] # "NONE"
  BY <1>1 DEF RowOK
<1>4. o.phase \in {"VERIFY", "COMPLETE"} => prep[d] = "SUCCEEDED"
  BY <1>1 DEF RowOK
<1> QED
  BY <1>1, <1>2, <1>3, <1>4 DEF RowOK

LEMMA ClaimTaskStep ==
  ASSUME FleetInv, NEW d \in Deployment, NEW n \in Nodes(d), ClaimTask(d, n)
  PROVE  \E o : OperationStep(d, o)
<1> DEFINE o == [op[d] EXCEPT !.task[n] = "RUNNING", !.status = "RUNNING"]
<1>1. ~op[d].done /\ op[d].phase # "COMPLETE" /\ op[d] \in Operations(d)
  BY LiveTask DEF ClaimTask, Live
<1>2. /\ o \in Operations(d) /\ o.no = op[d].no /\ o.phase = op[d].phase /\ o.done = op[d].done
      /\ \A m \in Nodes(d) : o.task[m] = IF m = n THEN "RUNNING" ELSE op[d].task[m]
  BY <1>1 DEF Operations, RecordStatus
<1>3. ready' = ready /\ verified' = verified /\ SetOperation(d, o) /\ op[d].task[n] = "QUEUED"
  BY DEF ClaimTask
<1>4. RowOK(d, Synced(o), o, prep[d], verified')
  <2>1. \A m \in Nodes(d) : op[d].task[m] # "NONE" => o.task[m] # "NONE"
    BY <1>2
  <2>2. o.done => \A m \in Nodes(d) : o.task[m] \notin Live
    BY <1>1, <1>2
  <2> HIDE DEF o
  <2> QED
    BY <1>1, <1>2, <1>3, <2>1, <2>2, SamePhaseRow
<1> HIDE DEF o
<1> QED
  BY <1>1, <1>2, <1>3, <1>4 DEF OperationStep, ClaimTask

LEMMA LoseTaskStep ==
  ASSUME FleetInv, NEW d \in Deployment, NEW n \in Nodes(d), NEW st \in Lost,
         op[d].task[n] \in Live, LoseTask(d, n, st),
         UNCHANGED <<snapshot, reserved, prep, verified, command>>
  PROVE  \E o : OperationStep(d, o)
<1> DEFINE m == Marked(op[d], n, st)
           o == Judged(m)
<1>1. ~op[d].done /\ op[d].phase # "COMPLETE" /\ op[d] \in Operations(d)
  BY LiveTask
<1>2. st \in RecordStatus
  BY DEF Lost, RecordStatus
<1>3. /\ m \in Operations(d) /\ m.no = op[d].no /\ m.phase = op[d].phase
      /\ \A k \in Nodes(d) : m.task[k] = IF k = n THEN st ELSE op[d].task[k]
  BY <1>1, <1>2, MarkedShape
<1>4. /\ o \in Operations(d) /\ o.no = op[d].no /\ o.phase = op[d].phase /\ o.task = m.task
      /\ o.done = (\A k \in Nodes(d) : o.task[k] \notin Live)
  <2> HIDE DEF m
  <2> QED
    BY <1>3, JudgedShape
<1>5. SetOperation(d, o) /\ ready' \subseteq ready
  BY DEF LoseTask, Marked
<1>6. \A k \in Nodes(d) : op[d].task[k] # "NONE" => o.task[k] # "NONE"
  BY <1>3, <1>4 DEF Lost
<1> HIDE DEF o, m
<1>7. RowOK(d, Synced(o), o, prep[d], verified')
  BY <1>1, <1>4, <1>6, SamePhaseRow
<1> QED
  BY <1>1, <1>4, <1>5, <1>7 DEF OperationStep

LEMMA TaskSucceedsStep ==
  ASSUME FleetInv, NEW d \in Deployment, NEW n \in Nodes(d), TaskSucceeds(d, n)
  PROVE  \E o : OperationStep(d, o)
<1> DEFINE m == Marked(op[d], n, "SUCCEEDED")
           o == Advanced(d, m)
<1>1. ~op[d].done /\ op[d].phase # "COMPLETE" /\ op[d] \in Operations(d)
  BY LiveTask DEF TaskSucceeds, Live
<1>2. /\ m \in Operations(d) /\ m.no = op[d].no /\ m.phase = op[d].phase /\ m.done = op[d].done
      /\ \A k \in Nodes(d) : m.task[k] = IF k = n THEN "SUCCEEDED" ELSE op[d].task[k]
  <2>1. "SUCCEEDED" \in RecordStatus
    BY DEF RecordStatus
  <2> QED
    BY <1>1, <2>1, MarkedShape
<1>3. /\ SetOperation(d, o) /\ ready' = ready /\ op[d].task[n] = "RUNNING"
      /\ o.phase \notin {op[d].phase, "COMPLETE"} => Queueable(d)
      /\ verified' = IF o.phase = "COMPLETE" THEN verified \cup {d} ELSE verified
      /\ UNCHANGED <<snapshot, reserved, prep, command>>
  BY DEF TaskSucceeds, Marked
<1>4. RowOK(d, runtime[d].status, op[d], prep[d], verified)
  BY CurrentRow
<1>5. \A k \in Nodes(d) : op[d].task[k] # "NONE" => m.task[k] # "NONE"
  BY <1>2, <1>3
<1>6. o = IF TasksIn(m, Lost) # {} THEN Judged(m)
          ELSE IF ~PhaseDone(m) THEN [m EXCEPT !.status = "RUNNING"]
          ELSE IF m.phase = "VERIFY"
               THEN [m EXCEPT !.status = "SUCCEEDED", !.phase = "COMPLETE", !.done = TRUE]
          ELSE Queued(d, m.no, NextPhase(m.phase))
  BY DEF Advanced
<1> HIDE DEF o, m
<1>7. o \in Operations(d) /\ o.no = op[d].no /\ RowOK(d, Synced(o), o, prep[d], verified')
  <2>1. CASE TasksIn(m, Lost) # {}
    <3>1. o = Judged(m)
      BY <1>6, <2>1
    <3>2. /\ o \in Operations(d) /\ o.no = op[d].no /\ o.phase = op[d].phase /\ o.task = m.task
          /\ o.done = (\A k \in Nodes(d) : o.task[k] \notin Live)
      BY <1>2, <3>1, JudgedShape
    <3>3. verified' = verified
      BY <1>1, <1>3, <3>2
    <3> QED
      BY <1>1, <1>5, <3>2, <3>3, SamePhaseRow
  <2>2. CASE TasksIn(m, Lost) = {} /\ ~PhaseDone(m)
    <3>1. o = [m EXCEPT !.status = "RUNNING"]
      BY <1>6, <2>2
    <3>2. /\ o \in Operations(d) /\ o.no = op[d].no /\ o.phase = op[d].phase /\ o.task = m.task
          /\ ~o.done
      BY <1>1, <1>2, <3>1 DEF Operations
    <3>3. verified' = verified
      BY <1>1, <1>3, <3>2
    <3> QED
      BY <1>1, <1>5, <3>2, <3>3, SamePhaseRow
  <2>3. CASE TasksIn(m, Lost) = {} /\ PhaseDone(m) /\ m.phase = "VERIFY"
    <3>1. o = [m EXCEPT !.status = "SUCCEEDED", !.phase = "COMPLETE", !.done = TRUE]
      BY <1>6, <2>3
    <3>2. /\ o \in Operations(d) /\ o.no = op[d].no /\ o.phase = "COMPLETE" /\ o.task = m.task
          /\ o.done /\ o.status = "SUCCEEDED"
      BY <1>2, <3>1 DEF Operations
    <3>3. \A k \in Nodes(d) : m.task[k] \in RecordStatus
      BY <1>2, <1>4, <1>5, <2>3 DEF RowOK, Operations
    <3>4. \A k \in Nodes(d) : m.task[k] = "SUCCEEDED"
      BY <1>2, <2>3, <3>3, TasksOf DEF PhaseDone
    <3>5. prep[d] = "SUCCEEDED"
      BY <1>2, <1>4, <2>3 DEF RowOK
    <3>6. Synced(o) = "ACTIVE" /\ d \in verified'
      BY <1>3, <3>2 DEF Synced
    <3> QED
      BY <3>2, <3>4, <3>5, <3>6 DEF RowOK, Live
  <2>4. CASE TasksIn(m, Lost) = {} /\ PhaseDone(m) /\ m.phase # "VERIFY"
    <3>1. o = Queued(d, m.no, NextPhase(m.phase))
      BY <1>6, <2>4
    <3>2. m.phase \in Phases \ {"VERIFY"} /\ m.no \in Nat
      BY <1>1, <1>2, <2>4 DEF Operations
    <3>3. PICK ph \in Phases : ph = NextPhase(m.phase) /\ ph # m.phase
      BY <3>2, NextPhaseShape
    <3>4. /\ o \in Operations(d) /\ o.no = op[d].no /\ o.phase = ph /\ o.done = FALSE
          /\ o.phase = "VERIFY" => \A k \in Nodes(d) : o.task[k] = "QUEUED"
      <4>1. o = Queued(d, m.no, ph)
        BY <3>1, <3>3
      <4>2. o \in Operations(d)
        BY <3>2, <4>1, QueuedShape
      <4>3. o.no = op[d].no /\ o.phase = ph /\ o.done = FALSE
        BY <1>2, <4>1 DEF Queued
      <4>4. ph = "VERIFY" => \A k \in Nodes(d) : o.task[k] = "QUEUED"
        BY <4>1 DEF Queued, PhaseNodes
      <4> QED
        BY <4>2, <4>3, <4>4
    <3>5. o.phase \in Phases /\ o.phase # "COMPLETE" /\ o.phase # op[d].phase
      BY <1>2, <3>3, <3>4 DEF Phases
    <3>6. prep[d] = "SUCCEEDED" /\ d \notin verified'
      BY <1>1, <1>3, <3>5, LiveIsUnverified DEF Queueable
    <3>7. Synced(o) # "NONE" /\ Synced(o) # "ACTIVE"
      BY <3>4, <3>5, SyncedStatus DEF Started
    <3> QED
      BY <3>4, <3>5, <3>6, <3>7 DEF RowOK
  <2> QED
    BY <2>1, <2>2, <2>3, <2>4
<1> QED
  BY <1>1, <1>3, <1>7 DEF OperationStep

LEMMA ApplyFleetStep ==
  ASSUME FleetInv, NEW d \in Deployment, ApplyFleet(d)
  PROVE  \E o : OperationStep(d, o)
<1>1. PICK k \in Nat : k = op[d].no + 1
  BY DEF FleetInv, TypeInv, TypeOK, Operations
<1> DEFINE o == Queued(d, k, "APPLY")
<1>2. /\ o \in Operations(d) /\ o.no = k /\ o.phase = "APPLY"
      /\ o.done = FALSE /\ o.status = "QUEUED"
  <2>1. "APPLY" \in Phases
    BY DEF Phases
  <2> QED
    BY <2>1, QueuedShape DEF Queued
<1>3. BindOperation(d, o) /\ runtime[d].status \notin {"NONE", "ACTIVE"}
  BY <1>1 DEF ApplyFleet, MayApply
<1> HIDE DEF o
<1>4. Synced(o) = "APPLYING"
  BY <1>2 DEF Synced
<1>5. SetOperation(d, o)
  BY <1>3, <1>4 DEF BindOperation, SetOperation
<1>6. RowOK(d, Synced(o), o, prep[d], verified')
  <2>1. d \notin verified'
    BY <1>3, CurrentRow DEF RowOK, ApplyFleet
  <2> QED
    BY <1>2, <1>4, <2>1 DEF RowOK
<1> QED
  BY <1>1, <1>2, <1>3, <1>5, <1>6 DEF OperationStep, ApplyFleet

----------------------------------------------------------------------------
(* Commands that fail, and steps that change no row of a deployment            *)

(* Caches may be demoted meanwhile.                                            *)
QuietStep ==
  /\ UNCHANGED <<snapshot, fleet, reserved, runtime, prep, op, verified>>
  /\ ready' \subseteq ready

LEMMA CommandStays ==
  ASSUME FleetInv, UNCHANGED <<op, command>>
  PROVE  CommandInv' /\ command' \in Commands \cup {NoCommand}
BY DEF FleetInv, TypeInv, CommandInv

LEMMA QuietStepShows ==
  ASSUME FleetInv, WorldOK', QuietStep, CommandInv', command' \in Commands \cup {NoCommand}
  PROVE  FleetInv' /\ Forward
<1>1. TypeOK'
  BY DEF FleetInv, TypeInv, TypeOK, QuietStep, WorldOK, Operations, Nodes
<1>2. TypeInv'
  BY <1>1 DEF FleetInv, TypeInv, QuietStep, Operations, Nodes, Commands, Deployment
<1>3. RowsInv'
  BY DEF FleetInv, RowsInv, RowOK, QuietStep, Synced, Nodes
<1>4. \A f : Deployed(f)' = Deployed(f) /\ Aggregate(f, runtime)' = Aggregate(f, runtime)
  BY DEF QuietStep, Deployed, Aggregate
<1>5. AggregateIsCurrent'
  BY <1>4 DEF FleetInv, AggregateIsCurrent, QuietStep
<1>6. StoredInv'
  BY <1>4 DEF FleetInv, StoredInv, StoredWhole, QuietStep
<1>7. Forward
  BY DEF Forward, QuietStep
<1> QED
  BY <1>2, <1>3, <1>5, <1>6, <1>7 DEF FleetInv

(* The operation and the runtime of one deployment have their types.           *)
LEMMA ExpectedType ==
  ASSUME FleetInv, NEW d \in Deployment, runtime[d].status # "NONE",
         NEW kind \in {"PREPARE", "APPLY"}, command' = Failed(kind, d)
  PROVE  /\ command' \in Commands /\ command'.kind = kind /\ command'.dep = d
         /\ command'.expected[1] = runtime[d].status
         /\ command'.expected[3] = op[d].no /\ op[d].no \in Nat
<1>1. runtime[d] \in Runtimes /\ op[d].no \in Nat
  BY DEF FleetInv, TypeInv, TypeOK, Operations
<1> QED
  BY <1>1 DEF Failed, Expected, Commands, Runtimes

LEMMA PrepareFailsStep ==
  ASSUME FleetInv, NEW d \in Deployment, PrepareFails(d)
  PROVE  QuietStep /\ CommandInv' /\ command' \in Commands \cup {NoCommand}
<1>1. /\ runtime[d].status \notin Started \cup {"NONE"}
      /\ command' = Failed("PREPARE", d) /\ op' = op /\ QuietStep
  BY DEF PrepareFails, MayPrepare, QuietStep
<1>2. /\ command' \in Commands /\ command'.kind = "PREPARE" /\ command'.dep = d
      /\ command'.expected[1] = runtime[d].status
      /\ command'.expected[3] = op[d].no /\ op[d].no \in Nat
  BY <1>1, ExpectedType
<1> QED
  BY <1>1, <1>2 DEF CommandInv, Started

LEMMA ApplyFailsStep ==
  ASSUME FleetInv, NEW d \in Deployment, ApplyFails(d)
  PROVE  QuietStep /\ CommandInv' /\ command' \in Commands \cup {NoCommand}
<1>1. /\ runtime[d].status \in {"PREPARED", "APPLY_FAILED", "VERIFY_FAILED"} /\ op[d].done
      /\ command' = Failed("APPLY", d) /\ op' = op /\ QuietStep
  BY DEF ApplyFails, MayApply, QuietStep
<1>2. /\ command' \in Commands /\ command'.kind = "APPLY" /\ command'.dep = d
      /\ command'.expected[1] = runtime[d].status
      /\ command'.expected[3] = op[d].no /\ op[d].no \in Nat
  BY <1>1, ExpectedType
<1> QED
  BY <1>1, <1>2 DEF CommandInv

(* The record of a failure finds the deployment without a running operation, or  *)
(* leaves it alone.                                                          *)
LEMMA RecordFailureShows ==
  ASSUME FleetInv, WorldOK', RecordFailure
  PROVE  FleetInv' /\ Forward
<1>1. /\ command \in Commands /\ command.dep \in Deployment /\ CommandInv
      /\ command # NoCommand /\ command' = NoCommand
      /\ UNCHANGED <<snapshot, reserved, prep, ready, op, verified>>
  BY DEF RecordFailure, FleetInv, TypeInv, Commands
<1>2. CommandInv' /\ command' \in Commands \cup {NoCommand}
  BY <1>1, CommandEnds
<1>3. PICK d \in Deployment : d = command.dep
  BY <1>1
<1>4. CASE UNCHANGED <<runtime, fleet>>
  BY <1>1, <1>2, <1>4, QuietStepShows DEF QuietStep
<1>5. CASE /\ UnchangedSince(command)
           /\ SetRuntime(d, [runtime[d] EXCEPT !.status =
                               IF command.kind = "APPLY" THEN "APPLY_FAILED" ELSE "PREPARE_FAILED"])
  <2> DEFINE s == IF command.kind = "APPLY" THEN "APPLY_FAILED" ELSE "PREPARE_FAILED"
             r == [runtime[d] EXCEPT !.status = s]
  <2>1. /\ runtime \in [Deployment -> Runtimes] /\ op[d] \in Operations(d)
        /\ RowOK(d, runtime[d].status, op[d], prep[d], verified)
    BY CurrentRow DEF FleetInv, TypeInv, TypeOK
  <2>2. command.expected[1] = runtime[d].status /\ command.expected[3] = op[d].no
    BY <1>3, <1>5 DEF UnchangedSince, Expected
  <2>3. /\ runtime[d].status # "NONE"
        /\ command.kind # "APPLY" => runtime[d].status \notin Started
        /\ runtime[d].status # "ACTIVE"
    BY <1>1, <2>2 DEF CommandInv, Commands
  <2>4. op[d].done
    <3>1. CASE command.kind = "APPLY"
      BY <1>1, <1>3, <2>2, <3>1 DEF CommandInv
    <3>2. CASE command.kind # "APPLY"
      BY <2>1, <2>3, <3>2, SyncedStatus DEF RowOK
    <3> QED
      BY <3>1, <3>2
  <2>5. r \in Runtimes /\ r.status = s /\ s \notin {"NONE", "ACTIVE"}
    BY <2>1 DEF Runtimes, RuntimeStatus
  <2>6. Moves(d, r)
    BY <1>5, <2>3, <2>5 DEF Moves
  <2>7. runtime' = [runtime EXCEPT ![d] = r]
    BY <2>6, MovesShape DEF FleetInv, TypeInv
  <2>8. runtime'[d].status = s
    BY <2>1, <2>5, <2>7
  <2>9. RowOK(d, runtime'[d].status, op'[d], prep'[d], verified')
    <3>1. RowOK(d, s, op[d], prep[d], verified)
      BY <2>1, <2>3, <2>4, <2>5 DEF RowOK
    <3> QED
      BY <1>1, <2>8, <3>1
  <2>10. Local(d)
    <3>1. /\ op \in [Deployment -> UNION {Operations(e) : e \in Deployment}]
          /\ prep \in [Deployment -> {"NONE", "RUNNING", "SUCCEEDED", "FAILED"}]
          /\ ready \subseteq Deployment \X Node /\ verified \subseteq Deployment
      BY DEF FleetInv, TypeInv, TypeOK
    <3> QED
      BY <1>1, <2>1, <2>9, <3>1 DEF Local
  <2>11. FleetInv'
    BY <1>2, <2>6, <2>10, LocalStep
  <2>12. Forward
    BY <2>1, <2>3, <2>7, <2>8 DEF Forward, Started
  <2> QED
    BY <2>11, <2>12
<1> QED
  BY <1>3, <1>4, <1>5 DEF RecordFailure

----------------------------------------------------------------------------
(* Recommendation and acceptance *)

LEMMA RecommendShows ==
  ASSUME FleetInv, WorldOK', NEW f \in Fleet, Recommend(f)
  PROVE  FleetInv' /\ Forward
<1>1. PICK s \in Schedules(Eligible(Inventory)) :
        /\ s # {}
        /\ snapshot' = [snapshot EXCEPT ![f] = [inventory |-> Inventory, selected |-> s]]
  BY DEF Recommend
<1>2. /\ snapshot[f] = NoFleet
      /\ UNCHANGED <<fleet, reserved, runtime, prep, ready, op, verified, command>>
  BY DEF Recommend
<1>3. Inventory \in Inventories
  BY DEF Inventory, Inventories, Occupied, CurrentCandidates, FleetInv, TypeInv, TypeOK
<1>4. s \subseteq Candidate
  BY <1>3, ScheduledWasEligible DEF Inventories
<1>5. snapshot \in [Fleet -> Snapshots]
  BY DEF FleetInv, TypeInv, TypeOK
<1>6. [inventory |-> Inventory, selected |-> s] \in Snapshots
  BY <1>3, <1>4 DEF Snapshots, Evaluations
<1>7. snapshot' \in [Fleet -> Snapshots]
  BY <1>1, <1>5, <1>6
<1>8. TypeInv'
  <2>1. TypeOK'
    BY <1>2, <1>7 DEF FleetInv, TypeInv, TypeOK, WorldOK, Operations, Nodes
  <2> QED
    BY <1>2, <2>1 DEF FleetInv, TypeInv, Operations, Nodes, Commands, Deployment
<1>9. RowsInv'
  BY <1>2 DEF FleetInv, RowsInv, RowOK, Synced, Nodes
<1>10. \A g : Deployed(g)' = Deployed(g) /\ Aggregate(g, runtime)' = Aggregate(g, runtime)
  BY <1>2 DEF Deployed, Aggregate
<1>11. AggregateIsCurrent'
  BY <1>2, <1>10 DEF FleetInv, AggregateIsCurrent
<1>12. StoredInv'
  <2>1. \A g \in Fleet : snapshot'[g] # NoFleet => snapshot'[g].selected # {}
    BY <1>1, <1>5 DEF FleetInv, StoredInv
  <2>2. ASSUME NEW g \in Fleet, fleet'[g] # "NONE"
        PROVE  snapshot'[g] # NoFleet /\ StoredWhole(g)'
    <3>1. snapshot[g] # NoFleet /\ StoredWhole(g)
      BY <1>2, <2>2 DEF FleetInv, StoredInv
    <3>2. snapshot'[g] = snapshot[g]
      BY <1>1, <1>2, <1>5, <3>1
    <3> QED
      BY <1>2, <1>10, <3>1, <3>2 DEF StoredWhole
  <2> QED
    BY <1>2, <2>1, <2>2 DEF FleetInv, StoredInv
<1>13. CommandInv' /\ command' \in Commands \cup {NoCommand}
  BY <1>2, CommandStays
<1>14. Forward
  BY <1>2 DEF Forward
<1> QED
  BY <1>8, <1>9, <1>11, <1>12, <1>13, <1>14 DEF FleetInv

LEMMA AcceptShows ==
  ASSUME FleetInv, WorldOK', NEW f \in Fleet, Accept(f)
  PROVE  FleetInv' /\ Forward
<1>1. PICK ds : ds = {f} \X snapshot[f].selected
  OBVIOUS
<1>2. /\ fleet[f] = "NONE" /\ snapshot[f] # NoFleet
      /\ reserved' = reserved \cup UNION {Bindings(d) : d \in ds}
      /\ runtime' = [d \in Deployment |->
                       IF d \in ds THEN [runtime[d] EXCEPT !.status = "ACCEPTED"] ELSE runtime[d]]
      /\ fleet' = [fleet EXCEPT ![f] = "ACCEPTED"]
      /\ UNCHANGED <<snapshot, prep, ready, op, verified, command>>
  BY <1>1 DEF Accept
<1>3. /\ runtime \in [Deployment -> Runtimes] /\ fleet \in [Fleet -> FleetStatus]
      /\ snapshot \in [Fleet -> Snapshots] /\ reserved \subseteq Reservations
  BY DEF FleetInv, TypeInv, TypeOK
<1>4. /\ snapshot[f].selected \subseteq Candidate /\ snapshot[f].selected # {}
  BY <1>2, <1>3 DEF Snapshots, Evaluations, FleetInv, StoredInv
<1>5. ds \subseteq Deployment /\ ds # {} /\ ds \subseteq {f} \X Candidate
  <2>1. PICK c \in snapshot[f].selected : TRUE
    BY <1>4
  <2>2. <<f, c>> \in ds
    BY <1>1, <2>1
  <2> QED
    BY <1>1, <1>4, <2>2 DEF Deployment
<1>6. Deployed(f) = {}
  BY <1>2, AggregateShape DEF FleetInv, AggregateIsCurrent
<1>7. \A d \in {f} \X Candidate : runtime[d].status = "NONE"
  BY <1>6 DEF Deployed
<1>8. /\ runtime' \in [Deployment -> Runtimes]
      /\ \A d \in ds : runtime'[d].status = "ACCEPTED" /\ runtime[d].status = "NONE"
      /\ \A d \in Deployment \ ds : runtime'[d] = runtime[d]
  BY <1>2, <1>3, <1>5, <1>7 DEF Runtimes, RuntimeStatus
<1>9. Deployed(f)' = ds
  <2>1. \A d \in {f} \X Candidate : runtime'[d].status # "NONE" <=> d \in ds
    BY <1>7, <1>8 DEF Deployment
  <2> QED
    BY <1>5, <2>1 DEF Deployed
<1>10. ASSUME NEW g \in Fleet, g # f
       PROVE  /\ Deployed(g)' = Deployed(g) /\ fleet'[g] = fleet[g]
              /\ Aggregate(g, runtime)' = Aggregate(g, runtime)
  <2>1. \A d \in {g} \X Candidate : runtime'[d] = runtime[d]
    BY <1>5, <1>8, <1>10 DEF Deployment
  <2>2. Deployed(g)' = Deployed(g)
    BY <2>1 DEF Deployed
  <2>3. {runtime'[e].status : e \in Deployed(g)'} = {runtime[e].status : e \in Deployed(g)}
    BY <2>1, <2>2 DEF Deployed
  <2> QED
    BY <1>2, <1>3, <1>10, <2>2, <2>3 DEF Aggregate
<1>11. Aggregate(f, runtime)' = "ACCEPTED"
  <2>1. {runtime'[e].status : e \in Deployed(f)'} = {"ACCEPTED"}
    BY <1>5, <1>8, <1>9
  <2> QED
    BY <2>1 DEF Aggregate, Failures
<1>12. fleet'[f] = "ACCEPTED" /\ fleet' \in [Fleet -> FleetStatus]
  BY <1>2, <1>3 DEF FleetStatus
<1>13. AggregateIsCurrent'
  <2>1. ASSUME NEW g \in Fleet
        PROVE  fleet'[g] = IF Deployed(g)' = {} THEN "NONE" ELSE Aggregate(g, runtime)'
    <3>1. CASE g = f
      BY <1>5, <1>9, <1>11, <1>12, <3>1
    <3>2. CASE g # f
      BY <1>10, <3>2 DEF FleetInv, AggregateIsCurrent
    <3> QED
      BY <3>1, <3>2
  <2> QED
    BY <2>1 DEF AggregateIsCurrent
<1>14. \A q \in UNION {Bindings(d) : d \in ds} : q \in Reservations /\ q[1] = f
  <2>1. ASSUME NEW d \in ds, NEW q \in Bindings(d) PROVE q \in Reservations /\ q[1] = f
    <3>1. FleetOf(d) = f /\ d \in Deployment
      BY <1>5 DEF FleetOf
    <3>2. d[2] \in Candidate /\ Nodes(d) \subseteq Node
      BY <3>1, DeploymentShape
    <3>3. q[1] = f
      BY <3>1 DEF Bindings
    <3> QED
      BY <3>1, <3>2, <3>3 DEF Bindings, Reservations
  <2> QED
    BY <2>1
<1>15. \A q \in reserved : q[1] \in Fleet /\ q[1] # f
  BY <1>2, <1>3 DEF FleetInv, StoredInv, Reservations
<1>16. StoredInv'
  <2>1. ASSUME NEW g \in Fleet, fleet'[g] # "NONE"
        PROVE  snapshot'[g] # NoFleet /\ StoredWhole(g)'
    <3>1. CASE g = f
      <4>1. {q \in reserved' : q[1] = f} = UNION {Bindings(d) : d \in ds}
        BY <1>2, <1>14, <1>15
      <4>2. {q \in reserved' : q[1] = f} = UNION {Bindings(d)' : d \in Deployed(f)'}
        BY <1>9, <4>1 DEF Bindings, FleetOf, Nodes
      <4> QED
        BY <1>1, <1>2, <1>9, <3>1, <4>2 DEF StoredWhole
    <3>2. CASE g # f
      <4>1. fleet[g] # "NONE" /\ Deployed(g)' = Deployed(g)
        BY <1>10, <2>1, <3>2
      <4>2. {q \in reserved' : q[1] = g} = {q \in reserved : q[1] = g}
        BY <1>2, <1>14, <3>2
      <4>3. snapshot[g] # NoFleet /\ StoredWhole(g)
        BY <4>1 DEF FleetInv, StoredInv
      <4> QED
        BY <1>2, <4>1, <4>2, <4>3 DEF StoredWhole
    <3> QED
      BY <3>1, <3>2
  <2>2. \A q \in reserved' : fleet'[q[1]] # "NONE"
    BY <1>2, <1>3, <1>12, <1>14, <1>15 DEF FleetInv, StoredInv
  <2> QED
    BY <1>2, <2>1, <2>2 DEF FleetInv, StoredInv
<1>17. RowsInv'
  <2>1. ASSUME NEW d \in Deployment
        PROVE  RowOK(d, runtime'[d].status, op[d], prep[d], verified)
    <3>1. RowOK(d, runtime[d].status, op[d], prep[d], verified) /\ op[d] \in Operations(d)
      BY CurrentRow DEF FleetInv, TypeInv, TypeOK
    <3>2. CASE d \in ds
      BY <1>8, <3>1, <3>2, SyncedStatus DEF RowOK, Started
    <3>3. CASE d \notin ds
      BY <1>8, <3>1, <3>3
    <3> QED
      BY <3>2, <3>3
  <2>2. ASSUME NEW d \in Deployment
        PROVE  RowOK(d, runtime[d].status, op[d], prep[d], verified)'
    BY <1>2, <2>1 DEF RowOK, Synced, Nodes
  <2> QED
    BY <2>2 DEF RowsInv
<1>18. TypeInv'
  <2>1. reserved' \subseteq Reservations
    BY <1>2, <1>3, <1>14
  <2>2. TypeOK'
    BY <1>2, <1>8, <1>12, <2>1 DEF FleetInv, TypeInv, TypeOK, WorldOK, Operations, Nodes
  <2> QED
    BY <1>2, <2>2 DEF FleetInv, TypeInv, Operations, Nodes, Commands, Deployment
<1>19. CommandInv' /\ command' \in Commands \cup {NoCommand}
  BY <1>2, CommandStays
<1>20. Forward
  BY <1>8 DEF Forward, Started
<1> QED
  BY <1>13, <1>16, <1>17, <1>18, <1>19, <1>20 DEF FleetInv

----------------------------------------------------------------------------
(* Every step *)

LEMMA RevokeShows ==
  ASSUME FleetInv, WorldOK', NEW n \in Node, Revoke(n)
  PROVE  FleetInv' /\ Forward
<1>1. UNCHANGED <<snapshot, reserved, verified, command>>
  BY DEF Revoke
<1>2. ASSUME NEW d \in Deployment, n \in Nodes(d), op[d].task[n] \in Live,
             LoseTask(d, n, IF op[d].task[n] = "QUEUED" THEN "CANCELED" ELSE "FAILED"),
             UNCHANGED prep
      PROVE  FleetInv' /\ Forward
  <2>1. PICK st \in Lost : st = IF op[d].task[n] = "QUEUED" THEN "CANCELED" ELSE "FAILED"
    BY DEF Lost
  <2>2. LoseTask(d, n, st)
    BY <1>2, <2>1
  <2> QED
    BY <1>1, <1>2, <2>2, LoseTaskStep, OperationStepShows
<1>3. ASSUME NEW d \in Deployment, NEW st \in {"RUNNING", "FAILED"},
             prep[d] = "RUNNING", prep' = [prep EXCEPT ![d] = st], Bind(d, st),
             UNCHANGED <<op, ready>>
      PROVE  FleetInv' /\ Forward
  <2>1. runtime[d].status # "NONE"
    BY <1>3, RunningRow
  <2>2. PreparationStep(d, st)
    BY <1>1, <1>3, <2>1 DEF PreparationStep, Ended
  <2> QED
    BY <2>2, PreparationStepShows
<1>4. ASSUME UNCHANGED <<op, runtime, fleet, prep, ready>>
      PROVE  FleetInv' /\ Forward
  BY <1>1, <1>4, CommandStays, QuietStepShows DEF QuietStep
<1> QED
  BY <1>2, <1>3, <1>4 DEF Revoke

LEMMA FleetStep ==
  ASSUME FleetInv, [Next]_vars
  PROVE  FleetInv' /\ Forward
<1>1. WorldOK'
  BY WorldStep DEF FleetInv, TypeInv
<1>2. CASE QuietStep /\ UNCHANGED command
  BY <1>1, <1>2, CommandStays, QuietStepShows DEF QuietStep
<1>3. CASE Planner
  BY <1>1, <1>3, RecommendShows, AcceptShows DEF Planner
<1>4. CASE Others
  BY <1>2, <1>4 DEF Others, Visit, Leave, QuietStep
<1>5. CASE Operator
  <2>1. ASSUME NEW d \in Deployment, PrepareFleet(d) PROVE FleetInv' /\ Forward
    BY <1>1, <2>1, PrepareFleetStep, PreparationStepShows
  <2>2. ASSUME NEW d \in Deployment, PrepareFails(d) PROVE FleetInv' /\ Forward
    BY <1>1, <2>2, PrepareFailsStep, QuietStepShows
  <2>3. ASSUME NEW d \in Deployment, ApplyFleet(d) PROVE FleetInv' /\ Forward
    BY <1>1, <2>3, ApplyFleetStep, OperationStepShows
  <2>4. ASSUME NEW d \in Deployment, ApplyFails(d) PROVE FleetInv' /\ Forward
    BY <1>1, <2>4, ApplyFailsStep, QuietStepShows
  <2>5. ASSUME NEW d \in Deployment, NEW n \in Nodes(d), CancelTask(d, n)
        PROVE  FleetInv' /\ Forward
    <3>1. /\ op[d].task[n] \in Live /\ "CANCELED" \in Lost /\ LoseTask(d, n, "CANCELED")
          /\ UNCHANGED <<snapshot, reserved, prep, verified, command>>
      BY <2>5 DEF CancelTask, Live, Lost
    <3> QED
      BY <1>1, <3>1, LoseTaskStep, OperationStepShows
  <2>6. CASE RecordFailure
    BY <1>1, <2>6, RecordFailureShows
  <2>7. CASE LoseCommand
    BY <1>1, <2>7, CommandEnds, QuietStepShows DEF LoseCommand, QuietStep
  <2> QED
    BY <1>5, <2>1, <2>2, <2>3, <2>4, <2>5, <2>6, <2>7 DEF Operator
<1>6. CASE Agents
  <2>1. ASSUME NEW d \in Deployment, PreparationEnds(d) PROVE FleetInv' /\ Forward
    BY <1>1, <2>1, PreparationEndsStep, PreparationStepShows
  <2>2. ASSUME NEW d \in Deployment, NEW n \in Nodes(d), ClaimTask(d, n)
        PROVE  FleetInv' /\ Forward
    BY <1>1, <2>2, ClaimTaskStep, OperationStepShows
  <2>3. ASSUME NEW d \in Deployment, NEW n \in Nodes(d), TaskSucceeds(d, n)
        PROVE  FleetInv' /\ Forward
    BY <1>1, <2>3, TaskSucceedsStep, OperationStepShows
  <2>4. ASSUME NEW d \in Deployment, NEW n \in Nodes(d), TaskFails(d, n)
        PROVE  FleetInv' /\ Forward
    <3>1. /\ op[d].task[n] \in Live /\ "FAILED" \in Lost /\ LoseTask(d, n, "FAILED")
          /\ UNCHANGED <<snapshot, reserved, prep, verified, command>>
      BY <2>4 DEF TaskFails, Live, Lost
    <3> QED
      BY <1>1, <3>1, LoseTaskStep, OperationStepShows
  <2> QED
    BY <1>6, <2>1, <2>2, <2>3, <2>4 DEF Agents
<1>7. CASE World
  BY <1>1, <1>2, <1>7, RevokeShows
     DEF World, Return, LoseEvidence, RegainEvidence, RevokeVariant, QuietStep
<1>8. CASE UNCHANGED vars
  BY <1>2, <1>8 DEF vars, QuietStep
<1> QED
  BY <1>3, <1>4, <1>5, <1>6, <1>7, <1>8 DEF Next

LEMMA FleetStarts ==
  ASSUME Init
  PROVE  FleetInv
<1>1. \A d \in Deployment :
        /\ NoOperation(d) \in Operations(d) /\ NoOperation(d).done
        /\ NoOperation(d).no = 0 /\ NoOperation(d).phase = "APPLY"
        /\ NoOperation(d).task = [n \in Nodes(d) |-> "NONE"]
  BY DEF NoOperation, Queued, Operations, Phases, RecordStatus
<1>2. TypeOK
  <2>1. MaxFaults \in Nat
    BY FleetAssumption
  <2>2. /\ snapshot \in [Fleet -> Snapshots] /\ fleet \in [Fleet -> FleetStatus]
        /\ runtime \in [Deployment -> Runtimes]
    BY DEF Init, Snapshots, FleetStatus, Runtimes, RuntimeStatus
  <2>3. \A d \in Deployment : op[d] \in Operations(d)
    BY <1>1 DEF Init
  <2> QED
    BY <2>1, <2>2, <2>3 DEF Init, TypeOK, Evidence
<1>3. TypeInv
  <2>1. op \in [Deployment -> UNION {Operations(d) : d \in Deployment}]
    BY <1>1 DEF Init
  <2> QED
    BY <1>2, <2>1 DEF TypeInv, Init
<1>4. RowsInv
  <2>1. ASSUME NEW d \in Deployment
        PROVE  RowOK(d, runtime[d].status, op[d], prep[d], verified)
    <3>1. /\ op[d] = NoOperation(d) /\ runtime[d].status = "NONE" /\ prep[d] = "NONE"
          /\ d \notin verified
      BY DEF Init
    <3>2. \A n \in Nodes(d) : op[d].task[n] \notin Live
      BY <1>1, <3>1 DEF Live
    <3> QED
      BY <1>1, <3>1, <3>2 DEF RowOK
  <2> QED
    BY <2>1 DEF RowsInv
<1>5. \A f \in Fleet : Deployed(f) = {}
  <2>1. ASSUME NEW f \in Fleet, NEW d \in {f} \X Candidate PROVE runtime[d].status = "NONE"
    BY DEF Init, Deployment
  <2> QED
    BY <2>1 DEF Deployed
<1>6. AggregateIsCurrent
  BY <1>5 DEF AggregateIsCurrent, Init
<1>7. StoredInv
  BY DEF StoredInv, Init
<1>8. CommandInv
  BY DEF CommandInv, Init
<1> QED
  BY <1>3, <1>4, <1>6, <1>7, <1>8 DEF FleetInv

----------------------------------------------------------------------------
(* Theorems *)

(* What the rows of a deployment, its operation, its Fleet and a failed command  *)
(* say of each other holds in every state.                                   *)
THEOREM FleetInvariant == Spec => []FleetInv
<1>1. Init => FleetInv
  BY FleetStarts
<1>2. FleetInv /\ [Next]_vars => FleetInv'
  BY FleetStep
<1> QED
  BY <1>1, <1>2, PTL DEF Spec

(* Every row keeps the shape and the status values of its table.               *)
THEOREM TypeCorrect == Spec => []TypeOK
<1>1. FleetInv => TypeOK
  BY DEF FleetInv, TypeInv
<1> QED
  BY <1>1, FleetInvariant, PTL

(* accept_fleet_recommendation never reserves a GPU twice, however long ago the  *)
(* snapshot was taken and however many nodes report the GPU.                  *)
THEOREM OneOwner == Spec => []GpuReservedOnce
<1>1. ReservationInv => GpuReservedOnce
  BY DEF ReservationInv
<1> QED
  BY <1>1, ReservationsHold, PTL

(* The reservation scope keeps work from outside off reserved nodes and GPUs,    *)
(* whichever of the two came first.                                          *)
THEOREM ReservedOnly == Spec => []ReservedForFleetOnly
<1>1. ReservationInv => ReservedForFleetOnly
  BY DEF ReservationInv
<1> QED
  BY <1>1, ReservationsHold, PTL

(* The Fleet status is the aggregate of its deployments, a runtime shows its     *)
(* live operation, and an accepted Fleet is found whole when accepted again.  *)
THEOREM StatusesTrue == Spec => []StatusesAgree
<1>1. FleetInv => StatusesAgree
  BY DEF FleetInv, RowsInv, RowOK, StoredInv, StatusesAgree, RuntimeShowsOperation,
         AcceptedIsWhole
<1> QED
  BY <1>1, FleetInvariant, PTL

(* The runtime row reads ACTIVE exactly when the deployment row is VERIFIED, and  *)
(* then every phase of its operation ended on every prepared node.            *)
THEOREM ActiveVerified == Spec => []ActiveIsVerified
<1>1. FleetInv => ActiveIsVerified
  <2>1. SUFFICES ASSUME FleetInv, NEW d \in Deployment
                 PROVE  /\ runtime[d].status = "ACTIVE" <=> d \in verified
                        /\ d \in verified =>
                             /\ op[d].status = "SUCCEEDED" /\ op[d].done /\ prep[d] = "SUCCEEDED"
                             /\ \A n \in Nodes(d) : op[d].task[n] = "SUCCEEDED"
    BY DEF ActiveIsVerified
  <2>2. RowOK(d, runtime[d].status, op[d], prep[d], verified)
    BY <2>1, CurrentRow
  <2> QED
    BY <2>2 DEF RowOK
<1> QED
  BY <1>1, FleetInvariant, PTL

(* bind_fleet_preparation never takes a deployment back behind its first APPLY,  *)
(* however late a preparation ends, and neither does the record of a failure.  *)
THEOREM StartedStays == Spec => NeverBackToPreparing
<1>1. FleetInv /\ [Next]_vars =>
        [\A d \in Deployment :
           runtime[d].status \in Started => runtime'[d].status \in Started]_runtime
  BY FleetStep DEF Forward
<1> QED
  BY <1>1, FleetInvariant, PTL DEF Spec, NeverBackToPreparing
=============================================================================
