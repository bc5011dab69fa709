-------------------------- MODULE RolloutRowProofs --------------------------
(* More theorems of Rollout: what the operation rows, their records, the      *)
(* deployment rows and the task queues say of each other.                   *)
EXTENDS RolloutProofs

----------------------------------------------------------------------------
(* The inductive invariant *)

ApiPhases == {"START_API", "VERIFY_API"}
KindPhases(kind) ==
  CASE kind = "APPLY" -> {"APPLY"}
    [] kind = "VERIFY" -> {"VERIFY"}
    [] kind = "ROLLBACK" -> {"STOP_SOURCE", "START_TARGET", "VERIFY_TARGET"}

(* The generation an operation starts, and whose head serves the API.          *)
Served(o) == IF o.target = NoDeployment THEN o.dep ELSE o.target

(* Which records a row has never changes.                                      *)
HasRecord(o, p, n) ==
  IF p \in ApiPhases THEN o.serve /\ n = HeadNode[Served(o)]
                     ELSE p \in KindPhases(o.kind) /\ n \in o.nodes
RecordsExist(o) ==
  \A p \in Phases, n \in Node : o.rec[p][n].status # "NONE" <=> HasRecord(o, p, n)

(* What the checks of the request leave in the row for good.                   *)
ScopeOK(o) ==
  /\ o.serve => o.nodes = Assigned[o.dep] /\ o.kind # "VERIFY"
  /\ o.nodes # {}
  /\ o.kind = "ROLLBACK" =>
       /\ o.target = Previous[o.dep] /\ o.target # o.dep
       /\ o.nodes = Assigned[o.dep] /\ Assigned[o.target] = Assigned[o.dep]

PhaseOK(o) ==
  /\ \/ o.phase = "COMPLETE" \/ o.phase \in KindPhases(o.kind)
     \/ o.serve /\ o.phase \in ApiPhases
  /\ o.phase = "COMPLETE" <=> o.status = "SUCCEEDED"
  /\ o.active => o.phase # "COMPLETE"
  /\ o.status = "PREPARED" => o.phase = "STOP_SOURCE"

(* Earlier phases have succeeded, later ones have not begun, and in the current *)
(* one every record has, unless the row still waits to be applied.            *)
RecordsInOrder(o) ==
  \A p \in Phases, n \in Node :
    /\ PhaseIndex[p] < PhaseIndex[o.phase] => o.rec[p][n].status \in {"NONE", "SUCCEEDED"}
    /\ PhaseIndex[p] > PhaseIndex[o.phase] => o.rec[p][n].status \in {"NONE", "PENDING"}
    /\ p = o.phase => IF o.status = "PREPARED" THEN o.rec[p][n].status \in {"NONE", "PENDING"}
                                               ELSE o.rec[p][n].status # "PENDING"

HasWork(o) == \E n \in Node : o.rec[o.phase][n].status \in LiveStatus
RowInv(o) ==
  /\ RecordsExist(o) /\ ScopeOK(o) /\ PhaseOK(o) /\ RecordsInOrder(o)
  /\ o.active /\ o.kind # "ROLLBACK" => HasWork(o)

(* What the deployment rows say of an active operation.                        *)
EvidenceAt(o, acc, st, ver) ==
  /\ o.kind = "APPLY" => o.dep \notin ver
  /\ o.kind = "ROLLBACK" =>
       /\ \A e \in acc : Previous[e] # o.dep
       /\ o.target \in ver
       /\ st[o.dep] \in {"ROLLING_BACK", "ROLLBACK_FAILED"}
EvidenceOK(o) == EvidenceAt(o, accepted, status, verified)

(* A task that no operation tracks is the only deployment task of its node.    *)
TaskTyped(t) ==
  IF t.op = 0 THEN t.type \in DirectTypes \cup {"UNJOIN"} ELSE t.type # "UNJOIN"
Untracked(t) == t.op = 0 /\ t.type \in DirectTypes
DirectAlone ==
  \A n \in Node : \A i \in LiveIds(n) : Untracked(tasks[n][i]) =>
    /\ \A k \in OpIds : ops[k].active => n \notin ops[k].nodes
    /\ \A j \in LiveIds(n) : Untracked(tasks[n][j]) => i = j

----------------------------------------------------------------------------
(* What becomes of one row                                                    *)

SameRequest(r, u) ==
  /\ r.dep = u.dep /\ r.nodes = u.nodes /\ r.target = u.target
  /\ r.kind = u.kind /\ r.serve = u.serve

(* A record of row u has just ended, and u becomes r: its phase fails, waits for *)
(* the other nodes, is the last one, is followed by the next, or the next one  *)
(* is refused by the cache gate.                                             *)
RowFails(r, u) ==
  /\ SameRequest(r, u) /\ r.rec = u.rec /\ r.phase = u.phase
  /\ r.status \in {"FAILED", "PARTIAL_FAILED"} /\ FailedNodes(u, u.phase) # {}
  /\ r.active <=> u.active /\ HoldsLineage(u)
RowWaits(r, u) ==
  /\ SameRequest(r, u) /\ r.rec = u.rec /\ r.phase = u.phase
  /\ r.status = "RUNNING" /\ r.active = u.active
  /\ FailedNodes(u, u.phase) = {} /\ ~PhaseDone(u, u.phase)
RowCompletes(r, u) ==
  /\ SameRequest(r, u) /\ r.rec = u.rec /\ r.phase = "COMPLETE"
  /\ r.status = "SUCCEEDED" /\ r.active = FALSE
  /\ PhaseDone(u, u.phase) /\ NextPhase(u) = "COMPLETE"
RowAdvances(r, u) ==
  /\ PhaseDone(u, u.phase) /\ NextPhase(u) \in Phases
  /\ IsQueued(r, u, NextPhase(u), PhaseNodes(u, NextPhase(u)))
RowGated(r, u) ==
  /\ SameRequest(r, u) /\ PhaseDone(u, u.phase) /\ NextPhase(u) = "START_TARGET"
  /\ r.phase = "START_TARGET" /\ r.status = "FAILED" /\ r.active = u.active
  /\ \A p \in Phases, n \in Node :
       r.rec[p][n] = IF p = "START_TARGET" /\ u.rec[p][n].status # "NONE"
                     THEN [status |-> "FAILED", attempt |-> u.rec[p][n].attempt]
                     ELSE u.rec[p][n]

(* The order of the phases. *)
LEMMA PhaseOrder ==
  /\ PhaseIndex["APPLY"] = 1 /\ PhaseIndex["VERIFY"] = 1 /\ PhaseIndex["STOP_SOURCE"] = 1
  /\ PhaseIndex["START_TARGET"] = 2 /\ PhaseIndex["VERIFY_TARGET"] = 3
  /\ PhaseIndex["START_API"] = 4 /\ PhaseIndex["VERIFY_API"] = 5
  /\ PhaseIndex["COMPLETE"] = 6
  /\ \A p \in Phases : PhaseIndex[p] \in 1 .. 5
BY DEF PhaseIndex, Phases

(* The phase that follows the current one, and the phases it passes over. *)
LEMMA NextPhaseOrder ==
  ASSUME NEW o \in Operation, RowInv(o), o.phase \in Phases
  PROVE  LET q == NextPhase(o)
         IN  /\ q \in Phases => q \in KindPhases(o.kind) \/ (o.serve /\ q \in ApiPhases)
             /\ q \in Phases \cup {"COMPLETE"}
             /\ PhaseIndex[o.phase] < PhaseIndex[q]
             /\ \A p \in Phases : PhaseIndex[o.phase] < PhaseIndex[p] /\ PhaseIndex[p] < PhaseIndex[q]
                  => p \notin KindPhases(o.kind) /\ (o.serve => p \notin ApiPhases)
<1>1. o.kind \in {"APPLY", "VERIFY", "ROLLBACK"} /\ o.serve \in BOOLEAN
  BY OperationFields
<1>2. o.phase \in KindPhases(o.kind) \/ (o.serve /\ o.phase \in ApiPhases)
  BY DEF RowInv, PhaseOK, Phases
<1>3. o.serve => o.kind # "VERIFY"
  BY DEF RowInv, ScopeOK
<1>4. CASE o.kind = "APPLY"
  <2>1. KindPhases(o.kind) = {"APPLY"}
    BY <1>4 DEF KindPhases
  <2>2. CASE o.phase = "APPLY" /\ o.serve
    <3>1. NextPhase(o) = "START_API"
      BY <2>2 DEF NextPhase
    <3> QED
      BY <2>1, <2>2, <3>1, PhaseOrder DEF Phases, ApiPhases
  <2>3. CASE o.phase = "APPLY" /\ ~o.serve
    <3>1. NextPhase(o) = "COMPLETE"
      BY <2>3 DEF NextPhase
    <3> QED
      BY <2>1, <2>3, <3>1, PhaseOrder DEF Phases, ApiPhases
  <2>4. CASE o.phase = "START_API" /\ o.serve
    <3>1. NextPhase(o) = "VERIFY_API"
      BY <2>4 DEF NextPhase
    <3> QED
      BY <2>1, <2>4, <3>1, PhaseOrder DEF Phases, ApiPhases
  <2>5. CASE o.phase = "VERIFY_API" /\ o.serve
    <3>1. NextPhase(o) = "COMPLETE"
      BY <2>5 DEF NextPhase
    <3> QED
      BY <2>1, <2>5, <3>1, PhaseOrder DEF Phases, ApiPhases
  <2> QED
    BY <1>1, <1>2, <2>1, <2>2, <2>3, <2>4, <2>5 DEF ApiPhases
<1>5. CASE o.kind = "VERIFY"
  <2>1. KindPhases(o.kind) = {"VERIFY"} /\ ~o.serve
    BY <1>3, <1>5 DEF KindPhases
  <2>2. o.phase = "VERIFY"
    BY <1>2, <2>1
  <2>3. NextPhase(o) = "COMPLETE"
    BY <2>1, <2>2 DEF NextPhase
  <2> QED
    BY <2>1, <2>2, <2>3, PhaseOrder DEF Phases
<1>6. CASE o.kind = "ROLLBACK"
  <2>1. KindPhases(o.kind) = {"STOP_SOURCE", "START_TARGET", "VERIFY_TARGET"}
    BY <1>6 DEF KindPhases
  <2>2. CASE o.phase = "STOP_SOURCE"
    <3>1. NextPhase(o) = "START_TARGET"
      BY <2>2 DEF NextPhase
    <3> QED
      BY <2>1, <2>2, <3>1, PhaseOrder DEF Phases, ApiPhases
  <2>3. CASE o.phase = "START_TARGET"
    <3>1. NextPhase(o) = "VERIFY_TARGET"
      BY <2>3 DEF NextPhase
    <3> QED
      BY <2>1, <2>3, <3>1, PhaseOrder DEF Phases, ApiPhases
  <2>4. CASE o.phase = "VERIFY_TARGET" /\ o.serve
    <3>1. NextPhase(o) = "START_API"
      BY <2>4 DEF NextPhase
    <3> QED
      BY <2>1, <2>4, <3>1, PhaseOrder DEF Phases, ApiPhases
  <2>5. CASE o.phase = "VERIFY_TARGET" /\ ~o.serve
    <3>1. NextPhase(o) = "COMPLETE"
      BY <2>5 DEF NextPhase
    <3> QED
      BY <2>1, <2>5, <3>1, PhaseOrder DEF Phases, ApiPhases
  <2>6. CASE o.phase = "START_API" /\ o.serve
    <3>1. NextPhase(o) = "VERIFY_API"
      BY <2>6 DEF NextPhase
    <3> QED
      BY <2>1, <2>6, <3>1, PhaseOrder DEF Phases, ApiPhases
  <2>7. CASE o.phase = "VERIFY_API" /\ o.serve
    <3>1. NextPhase(o) = "COMPLETE"
      BY <2>7 DEF NextPhase
    <3> QED
      BY <2>1, <2>7, <3>1, PhaseOrder DEF Phases, ApiPhases
  <2> QED
    BY <1>1, <1>2, <2>1, <2>2, <2>3, <2>4, <2>5, <2>6, <2>7 DEF ApiPhases
<1> QED
  BY <1>1, <1>4, <1>5, <1>6

(* The records of another request's rows are the same ones. *)
LEMMA SameRecords ==
  ASSUME NEW o, NEW r, SameRequest(r, o)
  PROVE  /\ \A p, n : HasRecord(r, p, n) <=> HasRecord(o, p, n)
         /\ ScopeOK(o) => ScopeOK(r)
BY DEF SameRequest, HasRecord, Served, ScopeOK

(* A row whose phase has just been queued is in order, if the earlier phases    *)
(* have succeeded and the later ones have not begun.                         *)
LEMMA RowQueued ==
  ASSUME NEW o \in Operation, NEW q \in Operation, NEW p \in Phases,
         NEW nodes \in SUBSET Node, IsQueued(q, o, p, nodes),
         RecordsExist(o), ScopeOK(o),
         p \in KindPhases(o.kind) \/ (o.serve /\ p \in ApiPhases),
         \A n \in nodes : o.rec[p][n].status # "NONE",
         \A n \in Node \ nodes : o.rec[p][n].status # "PENDING",
         \A r \in Phases, n \in Node :
           /\ PhaseIndex[r] < PhaseIndex[p] => o.rec[r][n].status \in {"NONE", "SUCCEEDED"}
           /\ PhaseIndex[r] > PhaseIndex[p] => o.rec[r][n].status \in {"NONE", "PENDING"},
         o.kind # "ROLLBACK" => nodes # {}
  PROVE  RowInv(q)
<1>1. /\ SameRequest(q, o) /\ q.phase = p /\ q.status = "QUEUED" /\ q.active = o.active
      /\ \A r \in Phases, n \in Node :
           q.rec[r][n] = IF r = p /\ n \in nodes
                         THEN [status |-> "QUEUED", attempt |-> o.rec[p][n].attempt + 1]
                         ELSE o.rec[r][n]
  BY DEF IsQueued, SameScope, SameRequest
<1>2. ASSUME NEW r \in Phases, NEW n \in Node
      PROVE  q.rec[r][n].status = IF r = p /\ n \in nodes THEN "QUEUED" ELSE o.rec[r][n].status
  <2>1. CASE r = p /\ n \in nodes
    <3>1. q.rec[r][n] = [status |-> "QUEUED", attempt |-> o.rec[p][n].attempt + 1]
      BY <1>1, <2>1
    <3> QED
      BY <2>1, <3>1
  <2>2. CASE ~(r = p /\ n \in nodes)
    BY <1>1, <2>2
  <2> QED
    BY <2>1, <2>2
<1>3. RecordsExist(q)
  BY <1>1, <1>2, SameRecords DEF RecordsExist
<1>4. ScopeOK(q)
  BY <1>1, SameRecords
<1>5. PhaseOK(q)
  BY <1>1 DEF PhaseOK, SameRequest, Phases
<1>6. RecordsInOrder(q)
  BY <1>1, <1>2, PhaseOrder DEF RecordsInOrder
<1>7. o.kind # "ROLLBACK" => HasWork(q)
  BY <1>1, <1>2 DEF HasWork, LiveStatus
<1> QED
  BY <1>1, <1>3, <1>4, <1>5, <1>6, <1>7 DEF RowInv, SameRequest

(* One record of a row has ended: the row is in order but for what comes next.  *)
LEMMA RowEnded ==
  ASSUME NEW o \in Operation, RowInv(o), o.phase \in Phases, o.status # "PREPARED",
         NEW n \in Node, o.rec[o.phase][n].status \in LiveStatus,
         NEW s \in Terminal, NEW u, IsOutcome(u, o, o.phase, n, s)
  PROVE  /\ u \in Operation /\ SameRequest(u, o) /\ u.phase = o.phase /\ u.active = o.active
         /\ u.status = o.status
         /\ RecordsExist(u) /\ ScopeOK(u) /\ PhaseOK(u) /\ RecordsInOrder(u)
         /\ u.rec[u.phase][n].status = s /\ NextPhase(u) = NextPhase(o)
<1>1. /\ u \in Operation /\ SameRequest(u, o) /\ u.phase = o.phase /\ u.active = o.active
      /\ u.status = o.status
      /\ \A p \in Phases, m \in Node :
           u.rec[p][m] = IF p = o.phase /\ m = n
                         THEN [status |-> s, attempt |-> o.rec[o.phase][n].attempt]
                         ELSE o.rec[p][m]
  BY DEF IsOutcome, SameScope, SameRequest
<1>2. \A p \in Phases, m \in Node :
        u.rec[p][m].status = IF p = o.phase /\ m = n THEN s ELSE o.rec[p][m].status
  BY <1>1
<1>3. RecordsExist(u)
  BY <1>1, <1>2, SameRecords DEF RecordsExist, RowInv, LiveStatus, Terminal
<1>4. ScopeOK(u) /\ PhaseOK(u)
  BY <1>1, SameRecords DEF RowInv, PhaseOK, SameRequest
<1>5. RecordsInOrder(u)
  BY <1>1, <1>2, PhaseOrder DEF RecordsInOrder, RowInv, Terminal
<1>6. NextPhase(u) = NextPhase(o)
  BY <1>1, Zenon DEF NextPhase, SameRequest
<1> QED
  BY <1>1, <1>2, <1>3, <1>4, <1>5, <1>6

(* A row that keeps its records and its phase stays in order. *)
LEMMA RowKept ==
  ASSUME NEW u \in Operation, NEW r \in Operation, SameRequest(r, u), r.rec = u.rec,
         r.phase = u.phase, u.phase \in Phases, u.status # "PREPARED",
         RecordsExist(u), ScopeOK(u), PhaseOK(u), RecordsInOrder(u),
         r.status \notin {"PREPARED", "SUCCEEDED"},
         r.active /\ r.kind # "ROLLBACK" => HasWork(r)
  PROVE  RowInv(r)
<1>1. RecordsExist(r) /\ ScopeOK(r)
  BY SameRecords DEF RecordsExist
<1>2. PhaseOK(r)
  BY DEF PhaseOK, SameRequest, Phases
<1>3. RecordsInOrder(r)
  BY DEF RecordsInOrder
<1> QED
  BY <1>1, <1>2, <1>3 DEF RowInv

(* Row by row, what follows the end of a record keeps the order.               *)
LEMMA RowEndStep ==
  ASSUME NEW o \in Operation, RowInv(o), o.phase \in Phases, o.status # "PREPARED",
         NEW n \in Node, o.rec[o.phase][n].status \in LiveStatus,
         NEW s \in Terminal, NEW u, IsOutcome(u, o, o.phase, n, s), NEW r \in Operation,
         RowFails(r, u) \/ RowWaits(r, u) \/ RowCompletes(r, u) \/ RowAdvances(r, u)
           \/ RowGated(r, u)
  PROVE  RowInv(r)
<1>1. /\ u \in Operation /\ SameRequest(u, o) /\ u.phase = o.phase /\ u.active = o.active
      /\ u.status = o.status
      /\ RecordsExist(u) /\ ScopeOK(u) /\ PhaseOK(u) /\ RecordsInOrder(u)
      /\ NextPhase(u) = NextPhase(o)
  BY RowEnded
<1>2. \A m \in Node : m \in PhaseNodes(u, u.phase) /\ u.rec[u.phase][m].status \notin Terminal
        => u.rec[u.phase][m].status \in LiveStatus
  <2> SUFFICES ASSUME NEW m \in Node, u.rec[u.phase][m].status \notin {"NONE"} \cup Terminal
               PROVE  u.rec[u.phase][m].status \in LiveStatus
    BY DEF PhaseNodes
  <2>1. u.rec[u.phase][m].status \in RecordStatus
    BY <1>1, OperationFields
  <2>2. u.rec[u.phase][m].status # "PENDING"
    BY <1>1 DEF RecordsInOrder
  <2> QED
    BY <2>1, <2>2 DEF RecordStatus, TaskStatus, LiveStatus, Terminal
<1>3. CASE RowFails(r, u)
  <2>1. r.active /\ r.kind # "ROLLBACK" => HasWork(r)
    <3> SUFFICES ASSUME r.active, r.kind # "ROLLBACK" PROVE HasWork(r)
      OBVIOUS
    <3>1. ~Settled(u)
      BY <1>3 DEF RowFails, HoldsLineage, SameRequest
    <3> QED
      BY <1>2, <1>3, <3>1 DEF Settled, HasWork, RowFails, PhaseNodes
  <2> QED
    BY <1>1, <1>3, <2>1, RowKept DEF RowFails
<1>4. CASE RowWaits(r, u)
  <2>1. HasWork(r)
    <3>1. PICK m \in PhaseNodes(u, u.phase) : u.rec[u.phase][m].status # "SUCCEEDED"
      BY <1>4 DEF RowWaits, PhaseDone
    <3>2. m \in Node /\ u.rec[u.phase][m].status \notin Failed
      BY <1>4, <3>1 DEF RowWaits, FailedNodes, PhaseNodes
    <3>3. u.rec[u.phase][m].status \in LiveStatus
      BY <1>2, <3>1, <3>2 DEF Failed, Terminal
    <3> QED
      BY <1>4, <3>2, <3>3 DEF HasWork, RowWaits
  <2> QED
    BY <1>1, <1>4, <2>1, RowKept DEF RowWaits
<1>5. \A p \in Phases, m \in Node : PhaseDone(u, u.phase) /\ PhaseIndex[p] < PhaseIndex[NextPhase(u)]
        => u.rec[p][m].status \in {"NONE", "SUCCEEDED"}
  <2> SUFFICES ASSUME NEW p \in Phases, NEW m \in Node, PhaseDone(u, u.phase),
                      PhaseIndex[p] < PhaseIndex[NextPhase(u)],
                      u.rec[p][m].status # "NONE"
               PROVE  u.rec[p][m].status = "SUCCEEDED"
    OBVIOUS
  <2>1. HasRecord(u, p, m)
    BY <1>1 DEF RecordsExist
  <2>2. p \in KindPhases(o.kind) \/ (o.serve /\ p \in ApiPhases)
    BY <1>1, <2>1 DEF HasRecord, SameRequest
  <2>3. ~(PhaseIndex[o.phase] < PhaseIndex[p])
    BY <1>1, <2>2, NextPhaseOrder
  <2>4. PhaseIndex[p] < PhaseIndex[u.phase] \/ PhaseIndex[p] = PhaseIndex[u.phase]
    BY <1>1, <2>3, PhaseOrder
  <2>5. CASE PhaseIndex[p] = PhaseIndex[u.phase]
    <3>1. p = u.phase
      <4>1. u.phase \in KindPhases(o.kind) \/ (o.serve /\ u.phase \in ApiPhases)
        BY <1>1 DEF PhaseOK, Phases, SameRequest
      <4>2. o.kind \in {"APPLY", "VERIFY", "ROLLBACK"}
        BY OperationFields
      <4> QED
        BY <2>2, <2>5, <4>1, <4>2, PhaseOrder DEF KindPhases, ApiPhases
    <3> QED
      BY <2>5, <3>1 DEF PhaseDone, PhaseNodes
  <2> QED
    BY <1>1, <2>4, <2>5 DEF RecordsInOrder
<1>6. CASE RowCompletes(r, u)
  <2>1. RecordsExist(r) /\ ScopeOK(r)
    BY <1>1, <1>6, SameRecords DEF RecordsExist, RowCompletes
  <2>2. PhaseOK(r)
    BY <1>6 DEF PhaseOK, RowCompletes
  <2>3. RecordsInOrder(r)
    <3>1. \A p \in Phases : PhaseIndex[p] < PhaseIndex["COMPLETE"]
      BY PhaseOrder
    <3>2. "COMPLETE" \notin Phases
      BY DEF Phases
    <3> QED
      BY <1>5, <1>6, <3>1, <3>2, PhaseOrder DEF RecordsInOrder, RowCompletes
  <2> QED
    BY <1>6, <2>1, <2>2, <2>3 DEF RowInv, RowCompletes
<1>7. CASE RowAdvances(r, u)
  <2> DEFINE p == NextPhase(u)
             nodes == PhaseNodes(u, p)
  <2>1. /\ p \in Phases /\ IsQueued(r, u, p, nodes) /\ nodes \in SUBSET Node
        /\ PhaseDone(u, u.phase)
    BY <1>7 DEF RowAdvances, PhaseNodes
  <2>2. /\ p \in KindPhases(u.kind) \/ (u.serve /\ p \in ApiPhases)
        /\ PhaseIndex[u.phase] < PhaseIndex[p]
    BY <1>1, <2>1, NextPhaseOrder DEF SameRequest
  <2>3. /\ \A m \in nodes : u.rec[p][m].status # "NONE"
        /\ \A m \in Node \ nodes : u.rec[p][m].status # "PENDING"
    BY DEF PhaseNodes
  <2>4. \A q \in Phases, m \in Node :
           /\ PhaseIndex[q] < PhaseIndex[p] => u.rec[q][m].status \in {"NONE", "SUCCEEDED"}
           /\ PhaseIndex[q] > PhaseIndex[p] => u.rec[q][m].status \in {"NONE", "PENDING"}
    <3> SUFFICES ASSUME NEW q \in Phases, NEW m \in Node, PhaseIndex[q] > PhaseIndex[p]
                 PROVE  u.rec[q][m].status \in {"NONE", "PENDING"}
      BY <1>5, <2>1
    <3>1. PhaseIndex[q] > PhaseIndex[u.phase]
      BY <1>1, <2>1, <2>2, PhaseOrder
    <3> QED
      BY <1>1, <3>1 DEF RecordsInOrder
  <2>5. u.kind # "ROLLBACK" => nodes # {}
    <3> SUFFICES ASSUME u.kind # "ROLLBACK" PROVE \E m \in Node : HasRecord(u, p, m)
      BY <1>1, <2>1 DEF RecordsExist, PhaseNodes
    <3>1. u.kind \in {"APPLY", "VERIFY"} /\ u.target = NoDeployment
          /\ u.dep \in Deployment /\ u.nodes \subseteq Node
      BY <1>1, OperationFields
    <3>2. CASE p \in ApiPhases
      <4>1. u.serve
        BY <2>2, <3>1, <3>2 DEF ApiPhases, KindPhases
      <4>2. HeadNode[u.dep] \in Node
        BY <3>1, PlanAssumption
      <4> QED
        BY <3>1, <3>2, <4>1, <4>2 DEF HasRecord, Served
    <3>3. CASE p \notin ApiPhases
      BY <1>1, <2>2, <3>1, <3>3 DEF HasRecord, ScopeOK
    <3> QED
      BY <3>2, <3>3
  <2> HIDE DEF p, nodes
  <2> QED
    BY <1>1, <2>1, <2>2, <2>3, <2>4, <2>5, RowQueued
<1>8. CASE RowGated(r, u)
  <2>1. u.phase = o.phase /\ o.kind = "ROLLBACK" /\ NextPhase(u) = "START_TARGET"
    <3>1. NextPhase(o) = "START_TARGET"
      BY <1>1, <1>8 DEF RowGated
    <3>2. "START_TARGET" \in KindPhases(o.kind)
      BY <3>1, NextPhaseOrder DEF Phases, ApiPhases
    <3>3. o.kind \in {"APPLY", "VERIFY", "ROLLBACK"}
      BY OperationFields
    <3> QED
      BY <1>1, <3>1, <3>2, <3>3 DEF KindPhases
  <2>2. ASSUME NEW p \in Phases, NEW m \in Node
        PROVE  r.rec[p][m].status = IF p = "START_TARGET" /\ u.rec[p][m].status # "NONE"
                                    THEN "FAILED" ELSE u.rec[p][m].status
    <3>1. CASE p = "START_TARGET" /\ u.rec[p][m].status # "NONE"
      <4>1. r.rec[p][m] = [status |-> "FAILED", attempt |-> u.rec[p][m].attempt]
        BY <1>8, <3>1 DEF RowGated
      <4> QED
        BY <3>1, <4>1
    <3>2. CASE ~(p = "START_TARGET" /\ u.rec[p][m].status # "NONE")
      BY <1>8, <3>2 DEF RowGated
    <3> QED
      BY <3>1, <3>2
  <2>3. SameRequest(r, u) /\ r.phase = "START_TARGET" /\ r.status = "FAILED"
        /\ r.kind = "ROLLBACK" /\ PhaseDone(u, u.phase)
    BY <1>1, <1>8, <2>1 DEF RowGated, SameRequest
  <2>4. RecordsExist(r) /\ ScopeOK(r)
    BY <1>1, <2>2, <2>3, SameRecords DEF RecordsExist
  <2>5. PhaseOK(r)
    BY <2>3 DEF PhaseOK, KindPhases
  <2>6. RecordsInOrder(r)
    <3> SUFFICES ASSUME NEW p \in Phases, NEW m \in Node
                 PROVE  /\ PhaseIndex[p] < 2 => r.rec[p][m].status \in {"NONE", "SUCCEEDED"}
                        /\ PhaseIndex[p] > 2 => r.rec[p][m].status \in {"NONE", "PENDING"}
                        /\ p = "START_TARGET" => r.rec[p][m].status # "PENDING"
      BY <2>3, PhaseOrder DEF RecordsInOrder
    <3>1. ASSUME p # "START_TARGET" PROVE r.rec[p][m].status = u.rec[p][m].status
      BY <2>2, <3>1
    <3>2. PhaseIndex[p] < 2 => r.rec[p][m].status \in {"NONE", "SUCCEEDED"}
      BY <1>5, <2>1, <2>3, <3>1, PhaseOrder
    <3>3. PhaseIndex[p] > 2 => r.rec[p][m].status \in {"NONE", "PENDING"}
      <4> SUFFICES ASSUME PhaseIndex[p] > 2 PROVE r.rec[p][m].status \in {"NONE", "PENDING"}
        OBVIOUS
      <4>1. PhaseIndex[u.phase] < 2
        BY <1>1, <2>1, NextPhaseOrder, PhaseOrder
      <4>2. PhaseIndex[p] > PhaseIndex[u.phase] /\ p # "START_TARGET"
        BY <1>1, <4>1, PhaseOrder
      <4> QED
        BY <1>1, <3>1, <4>2 DEF RecordsInOrder
    <3>4. p = "START_TARGET" => r.rec[p][m].status # "PENDING"
      BY <2>2
    <3> QED
      BY <3>2, <3>3, <3>4
  <2> QED
    BY <2>3, <2>4, <2>5, <2>6 DEF RowInv
<1> QED
  BY <1>3, <1>4, <1>6, <1>7, <1>8

----------------------------------------------------------------------------
(* The end of a task: its row, its successor's tasks, its generations          *)

(* The deployment rows after row u, one of whose records has ended, became r.    *)
DeploymentsAfter(r, u) ==
  /\ accepted' = accepted
  /\ \A d \in Deployment : d # u.dep /\ d # u.target =>
       status'[d] = status[d] /\ (d \in verified' <=> d \in verified)
  /\ \A d \in verified' \ verified :
       /\ RowCompletes(r, u)
       /\ IF u.kind = "ROLLBACK" THEN d = u.target
                                 ELSE u.kind = "VERIFY" /\ IsFullSet(u) /\ d = u.dep
  /\ u.kind = "ROLLBACK" /\ r.active = TRUE =>
       /\ verified' = verified
       /\ status'[u.dep] \in {status[u.dep], "ROLLING_BACK", "ROLLBACK_FAILED"}
       /\ status'[u.target] \in {status[u.target], "ROLLBACK_TARGET_PENDING", "ROLLBACK_FAILED"}
  /\ u.kind = "ROLLBACK" /\ r.active = FALSE =>
       status'[u.dep] = "ROLLED_BACK" /\ u.dep \notin verified' /\ status'[u.target] = "VERIFIED"
  /\ u.kind # "ROLLBACK" /\ r.active = TRUE => status' = status /\ verified' \subseteq verified
  /\ u.kind = "APPLY" /\ r.active = FALSE =>
       /\ verified' = verified
       /\ status'[u.dep] \in {"APPLIED", "PARTIALLY_APPLIED", "APPLY_FAILED", "APPLY_PARTIAL_FAILED"}
  /\ u.kind = "VERIFY" /\ r.active = FALSE =>
       \/ status'[u.dep] \in {"VERIFIED", "PARTIALLY_VERIFIED"}
       \/ /\ status'[u.dep] \in {"VERIFY_FAILED", "VERIFY_PARTIAL_FAILED"}
          /\ u.dep \notin verified'

(* Row k, which the end of a task made u, becomes r; ts are the queues without   *)
(* that task.                                                                *)
Becomes(k, r, u, ts) ==
  /\ RowChanged(k, r) /\ DeploymentsAfter(r, u)
  /\ \/ /\ RowFails(r, u) \/ RowWaits(r, u) \/ RowCompletes(r, u) \/ RowGated(r, u)
        /\ tasks' = ts
     \/ /\ RowAdvances(r, u) /\ HasEffectivePlan(PhaseDeployment(u, NextPhase(u)))
        /\ Grown(tasks', ts, PhaseNodes(u, NextPhase(u)), PhaseTasks(k, r), Len(ops'))

EndedRowOK(k, u, ts) ==
  /\ k \in OpIds /\ u \in Operation /\ QueuesOK(ts, Len(ops)) /\ u.active = TRUE
  /\ u.phase \in Phases /\ ScopeOK(u)

(* The rows a transaction on u may write are those of existing generations.    *)
LEMMA RowGenerations ==
  ASSUME TypeOK, NEW u \in Operation, ScopeOK(u)
  PROVE  /\ u.dep \in Deployment /\ u.kind \in {"APPLY", "VERIFY", "ROLLBACK"}
         /\ u.kind = "ROLLBACK" => u.target \in Deployment /\ u.target # u.dep
         /\ u.kind # "ROLLBACK" => u.target \notin Deployment
         /\ status \in [Deployment -> DeploymentStatus] /\ verified \subseteq Deployment
BY OperationFields, PlanAssumption, TypeParts DEF GenerationsOK, ScopeOK

(* A failed phase. *)
LEMMA FailPhaseShape ==
  ASSUME TypeOK, NEW k, NEW u, NEW ts, EndedRowOK(k, u, ts), FailPhase(k, u, ts),
         FailedNodes(u, u.phase) # {}
  PROVE  \E r \in Operation : Becomes(k, r, u, ts)
<1>1. PICK r \in Operation : /\ RowChanged(k, r) /\ SameScope(r, u)
                             /\ r.rec = u.rec /\ r.phase = u.phase
                             /\ r.active <=> u.active /\ HoldsLineage(u)
                             /\ r.status \in {"FAILED", "PARTIAL_FAILED"}
  BY FailPhaseEffect DEF EndedRowOK
<1>2. RowFails(r, u) /\ tasks' = ts
  BY <1>1 DEF RowFails, SameScope, SameRequest, FailPhase
<1>3. r.active \in BOOLEAN /\ u.active = TRUE
  BY OperationFields DEF EndedRowOK
<1>4. /\ u.dep \in Deployment /\ u.kind \in {"APPLY", "VERIFY", "ROLLBACK"}
      /\ u.kind = "ROLLBACK" => u.target \in Deployment /\ u.target # u.dep
      /\ u.kind # "ROLLBACK" => u.target \notin Deployment
      /\ status \in [Deployment -> DeploymentStatus] /\ verified \subseteq Deployment
  BY RowGenerations DEF EndedRowOK
<1>5. DeploymentsAfter(r, u)
  <2>1. CASE u.kind = "ROLLBACK"
    <3>1. r.active = TRUE
      BY <1>1, <1>3, <2>1 DEF HoldsLineage
    <3>2. status' = [status EXCEPT ![u.dep] = "ROLLBACK_FAILED", ![u.target] = "ROLLBACK_FAILED"]
          /\ verified' = verified /\ accepted' = accepted
      BY <2>1 DEF FailPhase
    <3> QED
      BY <1>4, <2>1, <3>1, <3>2 DEF DeploymentsAfter
  <2>2. CASE u.kind # "ROLLBACK" /\ Settled(u)
    <3>1. r.active = FALSE
      BY <1>1, <1>3, <2>2 DEF HoldsLineage
    <3>2. accepted' = accepted
          /\ verified' = IF u.kind = "VERIFY" THEN verified \ {u.dep} ELSE verified
      BY <2>2 DEF FailPhase
    <3>3. CASE u.kind = "APPLY"
      <4>1. \/ status' = [status EXCEPT ![u.dep] = "APPLY_FAILED"]
            \/ status' = [status EXCEPT ![u.dep] = "APPLY_PARTIAL_FAILED"]
        BY <2>2, <3>3 DEF FailPhase
      <4> QED
        BY <1>4, <2>2, <3>1, <3>2, <3>3, <4>1 DEF DeploymentsAfter
    <3>4. CASE u.kind = "VERIFY"
      <4>1. \/ status' = [status EXCEPT ![u.dep] = "VERIFY_FAILED"]
            \/ status' = [status EXCEPT ![u.dep] = "VERIFY_PARTIAL_FAILED"]
        <5>1. CASE FailedNodes(u, u.phase) = PhaseNodes(u, u.phase)
          BY <2>2, <3>4, <5>1, ZenonT(30) DEF FailPhase
        <5>2. CASE FailedNodes(u, u.phase) # PhaseNodes(u, u.phase)
          BY <2>2, <3>4, <5>2, ZenonT(30) DEF FailPhase
        <5> QED
          BY <5>1, <5>2
      <4> QED
        BY <1>4, <2>2, <3>1, <3>2, <3>4, <4>1 DEF DeploymentsAfter
    <3> QED
      BY <1>4, <2>2, <3>3, <3>4
  <2>3. CASE u.kind # "ROLLBACK" /\ ~Settled(u)
    <3>1. r.active = TRUE
      BY <1>1, <1>3, <2>3 DEF HoldsLineage
    <3>2. accepted' = accepted /\ status' = status
          /\ verified' = IF u.kind = "VERIFY" THEN verified \ {u.dep} ELSE verified
      BY <2>3 DEF FailPhase
    <3> QED
      BY <1>4, <2>3, <3>1, <3>2 DEF DeploymentsAfter
  <2> QED
    BY <2>1, <2>2, <2>3
<1> QED
  BY <1>1, <1>2, <1>5 DEF Becomes

(* An operation that is complete. *)
LEMMA CompleteShape ==
  ASSUME TypeOK, NEW k, NEW u, NEW ts, EndedRowOK(k, u, ts), Complete(k, u, ts),
         accepted' = accepted, PhaseDone(u, u.phase), NextPhase(u) = "COMPLETE"
  PROVE  \E r \in Operation : Becomes(k, r, u, ts)
<1> DEFINE r == [u EXCEPT !.status = "SUCCEEDED", !.phase = "COMPLETE", !.active = FALSE]
<1>1. r \in Operation /\ SameRequest(r, u) /\ r.rec = u.rec /\ r.phase = "COMPLETE"
      /\ r.status = "SUCCEEDED" /\ r.active = FALSE
  BY DEF EndedRowOK, Operation, OperationStatus, SameRequest
<1>2. ops' = [ops EXCEPT ![k] = r] /\ tasks' = ts
  BY DEF Complete
<1> HIDE DEF r
<1>3. RowChanged(k, r)
  BY <1>1, <1>2, Tables, OperationReplaced DEF RowChanged, OpIds, EndedRowOK
<1>4. RowCompletes(r, u)
  BY <1>1 DEF RowCompletes
<1>5. /\ u.dep \in Deployment /\ u.kind \in {"APPLY", "VERIFY", "ROLLBACK"}
      /\ u.kind = "ROLLBACK" => u.target \in Deployment /\ u.target # u.dep
      /\ u.kind # "ROLLBACK" => u.target \notin Deployment
      /\ status \in [Deployment -> DeploymentStatus] /\ verified \subseteq Deployment
  BY RowGenerations DEF EndedRowOK
<1>6. DeploymentsAfter(r, u)
  <2>1. CASE u.kind = "APPLY"
    <3>1. /\ verified' = verified
          /\ \/ status' = [status EXCEPT ![u.dep] = "APPLIED"]
             \/ status' = [status EXCEPT ![u.dep] = "PARTIALLY_APPLIED"]
      BY <2>1 DEF Complete
    <3> QED
      BY <1>1, <1>5, <2>1, <3>1 DEF DeploymentsAfter
  <2>2. CASE u.kind = "VERIFY"
    <3>1. /\ verified' = IF IsFullSet(u) THEN verified \cup {u.dep} ELSE verified
          /\ \/ status' = [status EXCEPT ![u.dep] = "VERIFIED"]
             \/ status' = [status EXCEPT ![u.dep] = "PARTIALLY_VERIFIED"]
      BY <2>2 DEF Complete
    <3> QED
      BY <1>1, <1>4, <1>5, <2>2, <3>1 DEF DeploymentsAfter
  <2>3. CASE u.kind = "ROLLBACK"
    <3>1. /\ status' = [status EXCEPT ![u.dep] = "ROLLED_BACK", ![u.target] = "VERIFIED"]
          /\ verified' = (verified \ {u.dep}) \cup {u.target}
      BY <2>3 DEF Complete
    <3> QED
      BY <1>1, <1>4, <1>5, <2>3, <3>1 DEF DeploymentsAfter
  <2> QED
    BY <1>5, <2>1, <2>2, <2>3
<1> QED
  BY <1>1, <1>2, <1>3, <1>4, <1>6 DEF Becomes

(* A rollback whose target has lost a cache. *)
LEMMA GateShape ==
  ASSUME TypeOK, NEW k, NEW u, NEW ts, EndedRowOK(k, u, ts), CloseCacheGate(k, u, ts),
         accepted' = accepted, PhaseDone(u, u.phase), NextPhase(u) = "START_TARGET",
         u.kind = "ROLLBACK"
  PROVE  \E r \in Operation : Becomes(k, r, u, ts)
<1> DEFINE row == [n \in Node |->
                     IF u.rec["START_TARGET"][n].status = "NONE"
                     THEN u.rec["START_TARGET"][n]
                     ELSE [u.rec["START_TARGET"][n] EXCEPT !.status = "FAILED"]]
           rec == [u.rec EXCEPT !["START_TARGET"] = row]
           r == [[u EXCEPT !.phase = "START_TARGET", !.status = "FAILED"]
                   EXCEPT !.rec = rec]
<1>0. u \in Operation /\ k \in OpIds /\ u.active = TRUE
  BY DEF EndedRowOK
<1>1. /\ u.rec \in [Phases -> [Node -> Record]]
      /\ \A n \in Node : u.rec["START_TARGET"][n] \in Record
  BY <1>0, OperationFields DEF Phases
<1>2. row \in [Node -> Record]
  BY <1>1 DEF Record, RecordStatus, TaskStatus, LiveStatus
<1>3. \A n \in Node : row[n] = IF u.rec["START_TARGET"][n].status # "NONE"
                               THEN [status |-> "FAILED",
                                     attempt |-> u.rec["START_TARGET"][n].attempt]
                               ELSE u.rec["START_TARGET"][n]
  BY <1>1 DEF Record
<1>4. ops' = [ops EXCEPT ![k] = r] /\ tasks' = ts
  BY <1>0 DEF CloseCacheGate, Operation
<1> HIDE DEF row
<1>5. /\ rec \in [Phases -> [Node -> Record]]
      /\ \A p \in Phases : rec[p] = IF p = "START_TARGET" THEN row ELSE u.rec[p]
  BY <1>1, <1>2
<1> HIDE DEF rec
<1>6. /\ r \in Operation /\ SameRequest(r, u) /\ r.phase = "START_TARGET" /\ r.status = "FAILED"
      /\ r.active = u.active /\ r.rec = rec
  BY <1>0, <1>5 DEF Operation, OperationStatus, SameRequest, Phases
<1> HIDE DEF r
<1>7. RowChanged(k, r)
  BY <1>0, <1>4, <1>6, Tables, OperationReplaced DEF RowChanged, OpIds
<1>8. \A p \in Phases, n \in Node :
        r.rec[p][n] = IF p = "START_TARGET" /\ u.rec[p][n].status # "NONE"
                      THEN [status |-> "FAILED", attempt |-> u.rec[p][n].attempt]
                      ELSE u.rec[p][n]
  BY <1>3, <1>5, <1>6
<1>9. RowGated(r, u)
  BY <1>6, <1>8 DEF RowGated
<1>10. DeploymentsAfter(r, u)
  <2>1. /\ status' = [status EXCEPT ![u.dep] = "ROLLBACK_FAILED", ![u.target] = "ROLLBACK_FAILED"]
        /\ verified' = verified
    BY DEF CloseCacheGate
  <2>2. /\ u.dep \in Deployment /\ u.target \in Deployment /\ u.target # u.dep
        /\ status \in [Deployment -> DeploymentStatus]
    BY RowGenerations DEF EndedRowOK
  <2> QED
    BY <1>0, <1>6, <2>1, <2>2 DEF DeploymentsAfter
<1> QED
  BY <1>4, <1>6, <1>7, <1>9, <1>10 DEF Becomes

(* The next phase of an operation. *)
LEMMA AdvanceShape ==
  ASSUME TypeOK, NEW k, NEW u, NEW ts, EndedRowOK(k, u, ts), NextPhase(u) # "COMPLETE",
         QueuePhase(k, ops, u, ts, NextPhase(u), PhaseNodes(u, NextPhase(u))),
         HasEffectivePlan(PhaseDeployment(u, NextPhase(u))),
         status' = IF NextPhase(u) = "START_TARGET"
                   THEN [status EXCEPT ![u.dep] = "ROLLING_BACK",
                                       ![u.target] = "ROLLBACK_TARGET_PENDING"]
                   ELSE status,
         verified' = verified, accepted' = accepted, PhaseDone(u, u.phase),
         NextPhase(u) = "START_TARGET" => u.kind = "ROLLBACK"
  PROVE  \E r \in Operation : Becomes(k, r, u, ts)
<1> DEFINE p == NextPhase(u)
           nodes == PhaseNodes(u, p)
           q == Queued(u, p, nodes)
<1>0. u \in Operation /\ k \in OpIds /\ u.active = TRUE /\ QueuesOK(ts, Len(ops))
  BY DEF EndedRowOK
<1>1. p \in Phases /\ nodes \in SUBSET Node
  BY DEF NextPhase, Phases, PhaseNodes
<1>2. ops \in Seq(Operation) /\ k \in 1 .. Len(ops)
  BY <1>0, Tables DEF OpIds
<1>3. IsQueued(q, u, p, nodes) /\ PhaseStarted(k, ops, q, ts, nodes)
  <2> HIDE DEF p, nodes
  <2>1. QueuePhase(k, ops, u, ts, p, nodes)
    BY DEF p, nodes
  <2> QED
    BY <1>0, <1>1, <1>2, <2>1, QueuedTyped, QueuePhaseEffect DEF q
<1> HIDE DEF p, nodes, q
<1>4. /\ RowChanged(k, q) /\ Grown(tasks', ts, nodes, PhaseTasks(k, q), Len(ops'))
      /\ q \in Operation /\ q.active = u.active /\ q.kind = u.kind
  BY <1>3 DEF PhaseStarted, RowChanged, OpIds, IsQueued, SameScope
<1>5. RowAdvances(q, u)
  BY <1>1, <1>3 DEF RowAdvances, p, nodes
<1>6. DeploymentsAfter(q, u)
  <2>1. /\ u.dep \in Deployment /\ u.kind \in {"APPLY", "VERIFY", "ROLLBACK"}
        /\ u.kind = "ROLLBACK" => u.target \in Deployment /\ u.target # u.dep
        /\ status \in [Deployment -> DeploymentStatus]
    BY RowGenerations DEF EndedRowOK
  <2> QED
    BY <1>0, <1>4, <2>1 DEF DeploymentsAfter, p
<1> QED
  BY <1>4, <1>5, <1>6 DEF Becomes, p, nodes

----------------------------------------------------------------------------
(* The end of a task of an operation, whatever ended it                       *)

RowsOrdered == \A k \in OpIds : RowInv(ops[k])

(* Task i of node n ends as s: row k, active until now, becomes u by that      *)
(* outcome and r by what follows; ts are the queues without the task.         *)
EndsAs(n, i, s, k, u, r, ts) ==
  /\ k = tasks[n][i].op /\ k \in OpIds /\ ops[k] \in Operation /\ RowInv(ops[k])
  /\ ops[k].active = TRUE /\ ops[k].phase \in Phases /\ ops[k].status # "PREPARED"
  /\ tasks[n][i].phase = ops[k].phase
  /\ ops[k].rec[ops[k].phase][n].status \in LiveStatus
  /\ IsOutcome(u, ops[k], ops[k].phase, n, s) /\ Ended(ts, tasks, n, i, s, Len(ops))
  /\ EndedRowOK(k, u, ts)
  /\ r \in Operation /\ Becomes(k, r, u, ts)

(* What the end of a task makes of its row is one of the five results.         *)
LEMMA EndShape ==
  ASSUME CurrentInv, RowsOrdered, NEW n \in Node, NEW i \in BoundLiveIds(n),
         NEW s \in Terminal, OutcomeOf(n, i, s)
  PROVE  \E k, u, r, ts : EndsAs(n, i, s, k, u, r, ts)
<1> DEFINE k == tasks[n][i].op
           p == tasks[n][i].phase
           u == EndedRow(n, i, s)
           ts == EndedQueues(n, i, s)
<1>1. /\ TypeOK /\ RowsOK /\ i \in TaskIds(n) /\ k # 0 /\ s \in TaskStatus
      /\ Good(n, tasks[n][i]) /\ IsLive(tasks[n][i])
  BY GoodTasks DEF CurrentInv, TypeInv, BoundLiveIds, LiveIds, TaskStatus, Terminal
<1>2. k \in OpIds /\ ops[k] \in Operation /\ p \in Phases /\ RowInv(ops[k])
  BY <1>1, BoundTask DEF RowsOrdered
<1>3. /\ ops[k].active /\ p = ops[k].phase
      /\ ops[k].rec[ops[k].phase][n].status \in LiveStatus
  BY <1>1 DEF Good, IsCurrent, IsLive
<1>4. ops[k].active = TRUE
  BY <1>2, <1>3, OperationFields
<1>5. ops[k].status # "PREPARED"
  BY <1>1, <1>2, <1>3 DEF RowsOK, RowOK
<1>6. IsOutcome(u, ops[k], p, n, s) /\ Ended(ts, tasks, n, i, s, Len(ops))
  BY <1>1, EndedTyped
<1>7. /\ u \in Operation /\ SameRequest(u, ops[k]) /\ u.phase = p /\ u.active = TRUE
      /\ ScopeOK(u) /\ u.rec[u.phase][n].status = s
      /\ NextPhase(u) = NextPhase(ops[k])
  <2> DEFINE o == ops[k]
  <2>1. /\ o \in Operation /\ RowInv(o) /\ o.phase \in Phases /\ o.status # "PREPARED"
        /\ o.rec[o.phase][n].status \in LiveStatus /\ IsOutcome(u, o, o.phase, n, s)
        /\ o.phase = p /\ o.active = TRUE
    BY <1>2, <1>3, <1>4, <1>5, <1>6
  <2> HIDE DEF u, o, p
  <2>2. /\ u \in Operation /\ SameRequest(u, o) /\ u.phase = o.phase /\ u.active = o.active
        /\ ScopeOK(u) /\ u.rec[u.phase][n].status = s /\ NextPhase(u) = NextPhase(o)
    BY <2>1, RowEnded
  <2> QED
    BY <2>1, <2>2 DEF o
<1>8. EndedRowOK(k, u, ts)
  BY <1>2, <1>6, <1>7 DEF EndedRowOK, Ended
<1>9. OutcomeOf(n, i, s) <=>
        \/ /\ s \in {"SUCCEEDED", "FAILED"} /\ FinishBound(n, i, s)
        \/ s = "CANCELED" /\ CancelBound(n, i)
  BY DEF OutcomeOf
<1>10. \/ FailPhase(k, u, ts) /\ FailedNodes(u, p) # {}
       \/ PhaseDone(u, p) /\ AdvancePhase(k, u, ts)
       \/ /\ FailedNodes(u, p) = {} /\ ~PhaseDone(u, p)
          /\ ops' = [ops EXCEPT ![k] = [u EXCEPT !.status = "RUNNING"]]
          /\ tasks' = ts /\ UNCHANGED <<generations, prepared>>
  <2>1. CASE s \in {"SUCCEEDED", "FAILED"} /\ FinishBound(n, i, s)
    BY <2>1 DEF FinishBound, EndedRow, EndedQueues
  <2>2. CASE s = "CANCELED" /\ CancelBound(n, i)
    <3>1. FailPhase(k, u, ts)
      BY <2>2 DEF CancelBound, EndedRow, EndedQueues
    <3> HIDE DEF u
    <3>2. n \in FailedNodes(u, p)
      BY <1>7, <2>2 DEF FailedNodes, Failed
    <3> QED
      BY <3>1, <3>2
  <2> QED
    BY <1>9, <2>1, <2>2
<1> HIDE DEF u, ts
<1>11. NextPhase(u) = "START_TARGET" => u.kind = "ROLLBACK"
  <2> SUFFICES ASSUME NextPhase(u) = "START_TARGET" PROVE u.kind = "ROLLBACK"
    OBVIOUS
  <2>1. NextPhase(ops[k]) = "START_TARGET"
    BY <1>7
  <2>2. "START_TARGET" \in KindPhases(ops[k].kind)
    BY <1>2, <1>3, <2>1, NextPhaseOrder DEF Phases, ApiPhases
  <2>3. ops[k].kind \in {"APPLY", "VERIFY", "ROLLBACK"}
    BY <1>2, OperationFields
  <2> QED
    BY <1>7, <2>2, <2>3 DEF KindPhases, SameRequest
<1>12. \E r \in Operation : Becomes(k, r, u, ts)
  <2>1. CASE FailPhase(k, u, ts) /\ FailedNodes(u, p) # {}
    BY <1>1, <1>7, <1>8, <2>1, FailPhaseShape
  <2>2. CASE PhaseDone(u, p) /\ AdvancePhase(k, u, ts)
    <3>1. CASE NextPhase(u) = "COMPLETE" /\ Complete(k, u, ts)
      BY <1>1, <1>7, <1>8, <2>2, <3>1, CompleteShape DEF AdvancePhase
    <3>2. CASE /\ NextPhase(u) # "COMPLETE"
               /\ HasEffectivePlan(PhaseDeployment(u, NextPhase(u)))
               /\ QueuePhase(k, ops, u, ts, NextPhase(u), PhaseNodes(u, NextPhase(u)))
               /\ status' = IF NextPhase(u) = "START_TARGET"
                            THEN [status EXCEPT ![u.dep] = "ROLLING_BACK",
                                                ![u.target] = "ROLLBACK_TARGET_PENDING"]
                            ELSE status
               /\ UNCHANGED verified
      BY <1>1, <1>7, <1>8, <1>11, <2>2, <3>2, AdvanceShape DEF AdvancePhase
    <3>3. CASE NextPhase(u) = "START_TARGET" /\ CloseCacheGate(k, u, ts)
      BY <1>1, <1>7, <1>8, <1>11, <2>2, <3>3, GateShape DEF AdvancePhase
    <3> QED
      BY <2>2, <3>1, <3>2, <3>3 DEF AdvancePhase
  <2>3. CASE /\ FailedNodes(u, p) = {} /\ ~PhaseDone(u, p)
             /\ ops' = [ops EXCEPT ![k] = [u EXCEPT !.status = "RUNNING"]]
             /\ tasks' = ts /\ UNCHANGED <<generations, prepared>>
    <3> DEFINE r == [u EXCEPT !.status = "RUNNING"]
    <3>1. /\ r \in Operation /\ SameRequest(r, u) /\ r.rec = u.rec /\ r.phase = u.phase
          /\ r.status = "RUNNING" /\ r.active = u.active
      BY <1>7 DEF Operation, OperationStatus, SameRequest
    <3>2. ops' = [ops EXCEPT ![k] = r]
      BY <2>3
    <3> HIDE DEF r
    <3>3. RowChanged(k, r)
      BY <1>1, <1>2, <3>1, <3>2, Tables, OperationReplaced DEF RowChanged, OpIds
    <3>4. RowWaits(r, u)
      BY <1>7, <2>3, <3>1 DEF RowWaits
    <3>5. DeploymentsAfter(r, u)
      BY <1>7, <2>3, <3>1 DEF DeploymentsAfter, generations
    <3> QED
      BY <2>3, <3>1, <3>3, <3>4, <3>5 DEF Becomes
  <2> QED
    BY <1>10, <2>1, <2>2, <2>3
<1> QED
  <2>1. PICK r \in Operation : Becomes(k, r, u, ts)
    BY <1>12
  <2>2. EndsAs(n, i, s, k, u, r, ts)
    BY <1>2, <1>3, <1>4, <1>5, <1>6, <1>8, <2>1 DEF EndsAs
  <2> QED
    BY <2>2

----------------------------------------------------------------------------
(* Every row is in order                                                      *)

(* A row none of whose records has begun, with one per node in phase p.        *)
NotBegun(o, p, nodes) ==
  /\ RecordsExist(o) /\ ScopeOK(o)
  /\ \A r \in Phases, n \in Node :
       /\ o.rec[r][n].status \in {"NONE", "PENDING"}
       /\ r = p => (o.rec[r][n].status # "NONE" <=> n \in nodes)

(* A new bulk has a record per node, and passes the checks of create_tasks.    *)
LEMMA NewGenericOrdered ==
  ASSUME NEW kind \in {"APPLY", "VERIFY"}, NEW d \in Deployment,
         NEW nodes \in SUBSET Node, NEW serve \in BOOLEAN,
         nodes # {}, serve => kind = "APPLY" /\ nodes = Assigned[d]
  PROVE  /\ NotBegun(NewGeneric(kind, d, nodes, serve), kind, nodes)
         /\ NewGeneric(kind, d, nodes, serve).kind = kind
         /\ NewGeneric(kind, d, nodes, serve).target = NoDeployment
<1> DEFINE rec == RowsOf(d, nodes, {kind}, serve)
           o == NewGeneric(kind, d, nodes, serve)
<1>1. /\ o.kind = kind /\ o.dep = d /\ o.target = NoDeployment /\ o.nodes = nodes
      /\ o.serve = serve /\ o.rec = rec
  BY DEF NewGeneric
<1> HIDE DEF o
<1>2. ASSUME NEW p \in Phases, NEW n \in Node
      PROVE  /\ rec[p][n].status \in {"NONE", "PENDING"}
             /\ rec[p][n].status # "NONE" <=>
                  \/ p = kind /\ n \in nodes
                  \/ serve /\ p \in ApiPhases /\ n = HeadNode[d]
  BY DEF RowsOf, ApiPhases
<1> HIDE DEF rec
<1>3. KindPhases(kind) = {kind} /\ kind \notin ApiPhases
  <2>1. CASE kind = "APPLY"
    BY <2>1 DEF KindPhases, ApiPhases
  <2>2. CASE kind = "VERIFY"
    BY <2>2 DEF KindPhases, ApiPhases
  <2> QED
    BY <2>1, <2>2
<1>4. RecordsExist(o)
  BY <1>1, <1>2, <1>3 DEF RecordsExist, HasRecord, Served
<1>5. ScopeOK(o)
  BY <1>1 DEF ScopeOK
<1> QED
  BY <1>1, <1>2, <1>3, <1>4, <1>5 DEF o, NotBegun

(* A new rollback has its records, and passes the checks of _validate_rollback. *)
LEMMA NewRollbackOrdered ==
  ASSUME TypeOK, NEW s \in Deployment, NEW serve \in BOOLEAN,
         Previous[s] # NoDeployment, RollbackAllowed(s, serve)
  PROVE  RowInv(NewRollback(s, serve)) /\ NewRollback(s, serve).kind = "ROLLBACK"
<1> DEFINE rec == RowsOf(Previous[s], Assigned[s],
                         {"STOP_SOURCE", "START_TARGET", "VERIFY_TARGET"}, serve)
           o == NewRollback(s, serve)
<1>1. /\ o.kind = "ROLLBACK" /\ o.dep = s /\ o.target = Previous[s]
      /\ o.nodes = Assigned[s] /\ o.serve = serve /\ o.active = FALSE
      /\ o.phase = "STOP_SOURCE" /\ o.status = "PREPARED" /\ o.rec = rec
  BY DEF NewRollback
<1> HIDE DEF o
<1>2. ASSUME NEW p \in Phases, NEW n \in Node
      PROVE  /\ rec[p][n].status \in {"NONE", "PENDING"}
             /\ rec[p][n].status # "NONE" <=>
                  \/ p \in {"STOP_SOURCE", "START_TARGET", "VERIFY_TARGET"} /\ n \in Assigned[s]
                  \/ serve /\ p \in ApiPhases /\ n = HeadNode[Previous[s]]
  BY DEF RowsOf, ApiPhases
<1> HIDE DEF rec
<1>3. KindPhases("ROLLBACK") = {"STOP_SOURCE", "START_TARGET", "VERIFY_TARGET"}
  BY DEF KindPhases
<1>4. RecordsExist(o)
  <2>1. \A p \in {"STOP_SOURCE", "START_TARGET", "VERIFY_TARGET"} : p \notin ApiPhases
    BY DEF ApiPhases
  <2> QED
    BY <1>1, <1>2, <1>3, <2>1 DEF RecordsExist, HasRecord, Served
<1>5. ScopeOK(o)
  <2>1. s \in accepted /\ IsLatest(s) /\ Assigned[s] = Assigned[Previous[s]]
    BY DEF RollbackAllowed
  <2>2. Previous[s] # s
    BY <2>1 DEF IsLatest
  <2>3. HeadNode[s] \in Assigned[s]
    BY PlanAssumption
  <2> QED
    BY <1>1, <2>1, <2>2, <2>3 DEF ScopeOK
<1>6. PhaseOK(o)
  BY <1>1, <1>3 DEF PhaseOK
<1>7. RecordsInOrder(o)
  <2>1. \A p \in Phases : ~(PhaseIndex[p] < PhaseIndex["STOP_SOURCE"])
    BY PhaseOrder
  <2> QED
    BY <1>1, <1>2, <2>1 DEF RecordsInOrder
<1> QED
  BY <1>1, <1>4, <1>5, <1>6, <1>7 DEF RowInv, o

(* claim_operation_task: the queued record of node n in row o now runs.        *)
Marked(r, o, n) ==
  /\ r \in Operation /\ SameRequest(r, o) /\ r.phase = o.phase /\ r.active = o.active
  /\ r.status = "RUNNING" /\ o.phase \in Phases
  /\ o.rec[o.phase][n].status = "QUEUED"
  /\ \A p \in Phases, m \in Node :
       r.rec[p][m] = IF p = o.phase /\ m = n
                     THEN [status |-> "RUNNING", attempt |-> o.rec[o.phase][n].attempt]
                     ELSE o.rec[p][m]

(* A row one of whose records now runs stays in order. *)
LEMMA RowClaimed ==
  ASSUME NEW o \in Operation, RowInv(o), NEW n \in Node, NEW r, Marked(r, o, n)
  PROVE  RowInv(r)
<1>1. /\ SameRequest(r, o) /\ r.phase = o.phase /\ r.active = o.active
      /\ r.status = "RUNNING" /\ o.phase \in Phases
      /\ o.rec[o.phase][n].status = "QUEUED"
  BY DEF Marked
<1>2. \A p \in Phases, m \in Node :
        r.rec[p][m].status = IF p = o.phase /\ m = n THEN "RUNNING" ELSE o.rec[p][m].status
  <2> SUFFICES ASSUME NEW p \in Phases, NEW m \in Node
               PROVE  r.rec[p][m].status = IF p = o.phase /\ m = n THEN "RUNNING"
                                           ELSE o.rec[p][m].status
    OBVIOUS
  <2>1. CASE p = o.phase /\ m = n
    <3>1. r.rec[p][m] = [status |-> "RUNNING", attempt |-> o.rec[o.phase][n].attempt]
      BY <2>1 DEF Marked
    <3> QED
      BY <2>1, <3>1
  <2>2. CASE ~(p = o.phase /\ m = n)
    BY <2>2 DEF Marked
  <2> QED
    BY <2>1, <2>2
<1>3. RecordsExist(r)
  BY <1>1, <1>2, SameRecords DEF RecordsExist, RowInv
<1>4. ScopeOK(r)
  BY <1>1, SameRecords DEF RowInv
<1>5. PhaseOK(r)
  BY <1>1 DEF RowInv, PhaseOK, SameRequest, Phases
<1>6. RecordsInOrder(r)
  <2>1. o.status # "PREPARED"
    BY <1>1 DEF RowInv, RecordsInOrder
  <2> QED
    BY <1>1, <1>2, <2>1, PhaseOrder DEF RecordsInOrder, RowInv
<1>7. HasWork(r)
  BY <1>1, <1>2 DEF HasWork, LiveStatus
<1> QED
  BY <1>3, <1>4, <1>5, <1>6, <1>7 DEF RowInv

(* A prepared rollback that is applied is in order. *)
LEMMA RowApplied ==
  ASSUME NEW o \in Operation, RowInv(o), o.kind = "ROLLBACK", o.status = "PREPARED",
         NEW q \in Operation, IsQueued(q, Applied(o), "STOP_SOURCE", o.nodes)
  PROVE  RowInv(q)
<1> DEFINE a == Applied(o)
<1>1. /\ a \in Operation /\ a.rec = o.rec /\ SameRequest(a, o)
      /\ o.phase = "STOP_SOURCE" /\ "STOP_SOURCE" \in Phases /\ o.nodes \in SUBSET Node
  BY OperationFields DEF Applied, Operation, SameRequest, RowInv, PhaseOK, Phases
<1> HIDE DEF a
<1>2. RecordsExist(a) /\ ScopeOK(a)
  BY <1>1, SameRecords DEF RowInv, RecordsExist
<1>3. KindPhases("ROLLBACK") = {"STOP_SOURCE", "START_TARGET", "VERIFY_TARGET"}
  BY DEF KindPhases
<1>4. \A n \in Node : a.rec["STOP_SOURCE"][n].status # "NONE" <=> n \in o.nodes
  BY <1>1, <1>2, <1>3 DEF RecordsExist, HasRecord, ApiPhases, SameRequest
<1>5. \A p \in Phases, n \in Node :
        /\ PhaseIndex[p] < PhaseIndex["STOP_SOURCE"] => a.rec[p][n].status \in {"NONE", "SUCCEEDED"}
        /\ PhaseIndex[p] > PhaseIndex["STOP_SOURCE"] => a.rec[p][n].status \in {"NONE", "PENDING"}
  BY <1>1 DEF RowInv, RecordsInOrder
<1>6. a.kind = "ROLLBACK" /\ "STOP_SOURCE" \in KindPhases(a.kind)
  BY <1>1, <1>3 DEF SameRequest
<1>7. IsQueued(q, a, "STOP_SOURCE", o.nodes)
  BY DEF a
<1> QED
  BY <1>1, <1>2, <1>4, <1>5, <1>6, <1>7, RowQueued

(* A failed rollback whose failed records are queued again is in order.        *)
LEMMA RowRetried ==
  ASSUME NEW o \in Operation, RowInv(o), o.kind = "ROLLBACK", o.phase \in Phases,
         o.status # "PREPARED",
         NEW q \in Operation, IsQueued(q, Applied(o), o.phase, RetryNodes(o))
  PROVE  RowInv(q)
<1> DEFINE a == Applied(o)
           bad == RetryNodes(o)
<1>1. /\ a \in Operation /\ a.rec = o.rec /\ SameRequest(a, o) /\ bad \in SUBSET Node
      /\ \A n \in bad : o.rec[o.phase][n].status \in Failed
  BY OperationFields DEF Applied, Operation, SameRequest, RetryNodes, FailedNodes
<1> HIDE DEF a
<1>2. RecordsExist(a) /\ ScopeOK(a)
  BY <1>1, SameRecords DEF RowInv, RecordsExist
<1>3. o.phase \in KindPhases(a.kind) \/ (a.serve /\ o.phase \in ApiPhases)
  BY <1>1 DEF RowInv, PhaseOK, SameRequest, Phases
<1>4. /\ \A n \in bad : a.rec[o.phase][n].status # "NONE"
      /\ \A n \in Node \ bad : a.rec[o.phase][n].status # "PENDING"
  BY <1>1 DEF RowInv, RecordsInOrder, Failed
<1>5. \A p \in Phases, n \in Node :
        /\ PhaseIndex[p] < PhaseIndex[o.phase] => a.rec[p][n].status \in {"NONE", "SUCCEEDED"}
        /\ PhaseIndex[p] > PhaseIndex[o.phase] => a.rec[p][n].status \in {"NONE", "PENDING"}
  BY <1>1 DEF RowInv, RecordsInOrder
<1>6. a.kind = "ROLLBACK"
  BY <1>1 DEF SameRequest
<1>7. IsQueued(q, a, o.phase, bad)
  BY DEF a
<1> HIDE DEF bad
<1> QED
  BY <1>1, <1>2, <1>3, <1>4, <1>5, <1>6, <1>7, RowQueued

----------------------------------------------------------------------------
(* The start of a phase by an admin request                                   *)

(* prepare_or_apply_rollback adds a row that waits to be applied.              *)
Prepares ==
  \E o \in Operation :
    /\ RowInv(o) /\ o.active = FALSE /\ ops' = Append(ops, o)
    /\ \A p \in Phases, n \in Node : o.rec[p][n].status \in {"NONE", "PENDING"}
    /\ UNCHANGED <<membership, generations, caches, tasks>>

(* Row k, created by this request or present before, was o and is now q: phase *)
(* p of it starts with one task on every node of nodes.                       *)
BeginsRow(k, q, o, p, nodes) ==
  /\ k \in OpIds' /\ ops'[k] = q /\ q \in Operation /\ o \in Operation
  /\ p \in Phases /\ nodes \in SUBSET Node
  /\ OpIds' = OpIds \cup {k} /\ \A j \in OpIds : j # k => ops'[j] = ops[j]
  /\ IsQueued(q, o, p, nodes) /\ o.active = TRUE /\ RowInv(q)
  /\ Grown(tasks', tasks, nodes, PhaseTasks(k, q), Len(ops'))
  /\ k \in OpIds =>
       /\ SameRequest(o, ops[k]) /\ o.rec = ops[k].rec /\ ops[k].kind = "ROLLBACK"
       /\ \A n \in nodes : ops[k].rec[p][n].status \in Failed \cup {"PENDING"}
  /\ k \notin OpIds => \A r \in Phases, n \in Node : o.rec[r][n].status \in {"NONE", "PENDING"}

(* What the request has checked of the other operations and of the nodes.      *)
BeginsAlone(k, o, p) ==
  /\ \A j \in OpIds : j # k /\ ops[j].active =>
       ops[j].nodes \cap o.nodes = {} /\ Lineage[ops[j].dep] # Lineage[o.dep]
  /\ \/ k \in OpIds /\ ops[k].active
     \/ \A n \in o.nodes : \A i \in LiveIds(n) : ~Untracked(tasks[n][i])
  /\ p # "STOP_SOURCE" => HasEffectivePlan(PhaseDeployment(o, p))

(* What the request checks and writes of the generations.                      *)
BeginsDeployments(o) ==
  /\ accepted' = accepted
  /\ o.kind \in {"APPLY", "VERIFY"} =>
       /\ status' = [status EXCEPT ![o.dep] =
                       IF o.kind = "APPLY" THEN "APPLYING" ELSE "VERIFYING"]
       /\ verified' = EvidenceWhenQueued(o.kind, o.dep)
  /\ o.kind = "ROLLBACK" =>
       /\ IsLatest(o.dep) /\ o.target \in verified /\ verified' = verified
       /\ status' = [status EXCEPT ![o.dep] = "ROLLING_BACK",
                                   ![o.target] = "ROLLBACK_TARGET_PENDING"]

Begins(k, q, o, p, nodes) ==
  BeginsRow(k, q, o, p, nodes) /\ BeginsAlone(k, o, p) /\ BeginsDeployments(o)

(* create_tasks for APPLY and VERIFY. *)
LEMMA BulkBegins ==
  ASSUME TypeInv, NEW kind \in {"APPLY", "VERIFY"}, NEW d \in Deployment,
         NEW nodes \in SUBSET Node, NEW serve \in BOOLEAN,
         CreateBulk(kind, d, nodes, serve)
  PROVE  \E k, q, o, p, s : Begins(k, q, o, p, s)
<1> DEFINE o == NewGeneric(kind, d, nodes, serve)
           all == Append(ops, o)
           k == Len(ops) + 1
<1>1. TypeOK /\ Len(ops) \in Nat /\ kind \in Phases /\ k \notin OpIds
  BY Tables DEF TypeInv, Phases, OpIds
<1>2. Starts(k, all, o, kind, nodes)
  BY <1>1, CreateBulkStep
<1>3. o \in Operation /\ o.active = TRUE /\ o.dep = d /\ o.nodes = nodes
  BY NewGenericTyped
<1>4. /\ nodes # {} /\ (serve => kind = "APPLY" /\ nodes = Assigned[d])
      /\ LineageIdle(d) /\ NodesIdle(nodes) /\ HasEffectivePlan(d)
      /\ status' = [status EXCEPT ![d] = IF kind = "APPLY" THEN "APPLYING" ELSE "VERIFYING"]
      /\ verified' = EvidenceWhenQueued(kind, d) /\ accepted' = accepted
  BY DEF CreateBulk
<1>5. NotBegun(o, kind, nodes) /\ o.kind = kind /\ o.target = NoDeployment
  BY <1>4, NewGenericOrdered
<1> HIDE DEF o
<1>6. /\ Len(all) = k /\ k \in 1 .. Len(all)
      /\ \A j \in OpIds : all[j] = ops[j] /\ j \in 1 .. Len(all)
  BY <1>1, <1>3, OperationAppended DEF OpIds
<1> HIDE DEF all
<1>7. PICK q \in Operation : /\ IsQueued(q, o, kind, nodes)
                             /\ PhaseStarted(k, all, q, tasks, nodes)
  BY <1>2 DEF Starts
<1>8. RowInv(q)
  <2>1. kind \in KindPhases(o.kind)
    <3>1. CASE kind = "APPLY"
      BY <1>5, <3>1 DEF KindPhases
    <3>2. CASE kind = "VERIFY"
      BY <1>5, <3>2 DEF KindPhases
    <3> QED
      BY <3>1, <3>2
  <2>2. \A r \in Phases : ~(PhaseIndex[r] < PhaseIndex[kind])
    BY PhaseOrder
  <2> QED
    BY <1>1, <1>3, <1>4, <1>5, <1>7, <2>1, <2>2, RowQueued DEF NotBegun
<1>9. BeginsRow(k, q, o, kind, nodes)
  <2>1. /\ Len(ops') = k /\ ops'[k] = q
        /\ \A j \in OpIds : j # k => ops'[j] = ops[j]
        /\ Grown(tasks', tasks, nodes, PhaseTasks(k, q), Len(ops'))
    BY <1>6, <1>7 DEF PhaseStarted
  <2>2. OpIds' = OpIds \cup {k}
    BY <1>1, <2>1 DEF OpIds
  <2> HIDE DEF k
  <2> QED
    BY <1>1, <1>3, <1>5, <1>7, <1>8, <2>1, <2>2 DEF BeginsRow, NotBegun
<1>10. BeginsAlone(k, o, kind)
  <2>1. \A j \in OpIds : ops[j].active =>
          ops[j].nodes \cap o.nodes = {} /\ Lineage[ops[j].dep] # Lineage[o.dep]
    BY <1>3, <1>4 DEF LineageIdle, NodesIdle, OpIds
  <2>2. \A n \in o.nodes : LiveIds(n) = {}
    BY <1>3, <1>4 DEF NodesIdle
  <2>3. PhaseDeployment(o, kind) = d
    BY <1>3, <1>5 DEF PhaseDeployment
  <2> QED
    BY <1>4, <2>1, <2>2, <2>3 DEF BeginsAlone
<1>11. BeginsDeployments(o)
  BY <1>3, <1>4, <1>5 DEF BeginsDeployments
<1> QED
  BY <1>9, <1>10, <1>11 DEF Begins

(* prepare_or_apply_rollback with apply=False. *)
LEMMA PrepareAdds ==
  ASSUME TypeInv, NEW s \in Deployment, NEW serve \in BOOLEAN,
         Previous[s] # NoDeployment, PrepareRollback(s, serve)
  PROVE  Prepares
<1> DEFINE o == NewRollback(s, serve)
<1>1. o \in Operation /\ o.active = FALSE /\ RowInv(o)
  BY NewRollbackTyped, NewRollbackOrdered, ZenonT(60) DEF PrepareRollback, TypeInv
<1>2. \A p \in Phases, n \in Node : o.rec[p][n].status \in {"NONE", "PENDING"}
  BY DEF NewRollback, RowsOf
<1>3. ops' = Append(ops, o) /\ UNCHANGED <<membership, generations, caches, tasks>>
  BY DEF PrepareRollback
<1> HIDE DEF o
<1> QED
  BY <1>1, <1>2, <1>3 DEF Prepares

(* What a rollback request checks of the row it selects.                       *)
LEMMA RollbackChecks ==
  ASSUME NEW s \in Deployment, NEW serve \in BOOLEAN, RollbackAllowed(s, serve),
         RollbackQueued(s), NEW o \in Operation, o.kind = "ROLLBACK", o.dep = s,
         ScopeOK(o)
  PROVE  /\ BeginsDeployments(o)
         /\ \A p \in Phases : p # "STOP_SOURCE" => HasEffectivePlan(PhaseDeployment(o, p))
<1>1. o.target = Previous[s] /\ o.target # NoDeployment
  BY OperationFields DEF ScopeOK
<1>2. IsLatest(s) /\ Previous[s] \in verified /\ HasEffectivePlan(Previous[s])
  BY DEF RollbackAllowed
<1>3. BeginsDeployments(o)
  BY <1>1, <1>2 DEF BeginsDeployments, RollbackQueued
<1>4. \A p \in Phases : p # "STOP_SOURCE" => PhaseDeployment(o, p) = Previous[s]
  BY <1>1 DEF PhaseDeployment
<1> QED
  BY <1>2, <1>3, <1>4

(* _activate_operation leaves the nodes of the operation without a mutation.   *)
LEMMA ActivationChecks ==
  ASSUME NEW k, NEW o, MayActivate(k, o)
  PROVE  /\ \A j \in OpIds : j # k /\ ops[j].active =>
              ops[j].nodes \cap o.nodes = {} /\ Lineage[ops[j].dep] # Lineage[o.dep]
         /\ \A n \in o.nodes : \A i \in LiveIds(n) : ~Untracked(tasks[n][i])
BY DEF MayActivate, Untracked, OpIds

(* Marking a row active leaves the rest of it alone. *)
LEMMA AppliedRow ==
  ASSUME NEW o \in Operation
  PROVE  /\ Applied(o) \in Operation /\ SameRequest(Applied(o), o)
         /\ Applied(o).rec = o.rec /\ Applied(o).active = TRUE
BY DEF Applied, Operation, SameRequest

(* prepare_or_apply_rollback with apply=True, for the first time. *)
LEMMA ApplyBegins ==
  ASSUME TypeInv, RowsOrdered, NEW s \in Deployment, NEW serve \in BOOLEAN,
         Previous[s] # NoDeployment, NEW k \in 1 .. Len(ops) + 1,
         ApplyRollback(s, serve, k)
  PROVE  \E j, q, o, p, nodes : Begins(j, q, o, p, nodes)
<1> DEFINE all == RollbackRows(s, serve)
           a == all[k]
           o == Applied(a)
<1>1. TypeOK /\ Len(ops) \in Nat /\ ops \in Seq(Operation)
  BY Tables DEF TypeInv
<1>2. k \in 1 .. Len(all) /\ Starts(k, all, o, "STOP_SOURCE", a.nodes)
  BY <1>1, ApplyRollbackStep
<1>3. /\ all \in Seq(Operation) /\ Len(all) \in {Len(ops), Len(ops) + 1}
      /\ \A j \in OpIds : j \in 1 .. Len(all) /\ all[j] = ops[j]
      /\ Len(all) = Len(ops) + 1 => all[Len(all)] = NewRollback(s, serve)
  BY <1>1, RollbackRowsTyped
<1>4. /\ MayActivate(k, a) /\ a.status = "PREPARED"
      /\ RollbackAllowed(s, serve) /\ RollbackQueued(s)
      /\ SameRollback(s, serve) = {} => k = Len(all)
      /\ SameRollback(s, serve) # {} => k \in SameRollback(s, serve)
  BY DEF ApplyRollback, RollbackRows
<1>5. /\ SameRollback(s, serve) = {} => Len(all) = Len(ops) + 1
      /\ SameRollback(s, serve) # {} => all = ops
  <2>1. NewRollback(s, serve) \in Operation
    BY NewRollbackTyped
  <2> QED
    BY <1>1, <2>1, OperationAppended DEF RollbackRows
<1> HIDE DEF all
<1>6. /\ a \in Operation /\ RowInv(a) /\ a.kind = "ROLLBACK" /\ a.dep = s
      /\ k \in OpIds => a = ops[k]
      /\ k \notin OpIds => a = NewRollback(s, serve)
      /\ 1 .. Len(all) = OpIds \cup {k}
      /\ \A j \in OpIds : all[j] = ops[j]
  <2>1. CASE SameRollback(s, serve) = {}
    <3>1. a = NewRollback(s, serve) /\ k = Len(ops) + 1
      BY <1>3, <1>4, <1>5, <2>1
    <3> DEFINE b == NewRollback(s, serve)
    <3>2. b \in Operation /\ b.dep = s
      BY NewRollbackTyped
    <3>3. RowInv(b) /\ b.kind = "ROLLBACK"
      BY <1>1, <1>4, NewRollbackOrdered
    <3> QED
      BY <1>1, <1>3, <1>5, <2>1, <3>1, <3>2, <3>3 DEF OpIds
  <2>2. CASE SameRollback(s, serve) # {}
    <3>1. k \in OpIds /\ ops[k].kind = "ROLLBACK" /\ ops[k].dep = s /\ a = ops[k]
      BY <1>4, <1>5, <2>2 DEF SameRollback, OpIds
    <3>2. ops[k] \in Operation /\ RowInv(ops[k])
      BY <1>1, <3>1, Tables DEF RowsOrdered
    <3> QED
      BY <1>5, <2>2, <3>1, <3>2 DEF OpIds
  <2> QED
    BY <2>1, <2>2
<1> HIDE DEF a
<1>7. PICK q \in Operation : /\ IsQueued(q, o, "STOP_SOURCE", a.nodes)
                             /\ PhaseStarted(k, all, q, tasks, a.nodes)
  BY <1>2 DEF Starts
<1>8. RowInv(q)
  BY <1>4, <1>6, <1>7, RowApplied
<1>9. /\ o \in Operation /\ SameRequest(o, a) /\ o.rec = a.rec /\ o.active = TRUE
      /\ "STOP_SOURCE" \in Phases /\ a.nodes \in SUBSET Node
  BY <1>6, AppliedRow, OperationFields DEF Phases
<1> HIDE DEF o
<1>10. BeginsRow(k, q, o, "STOP_SOURCE", a.nodes)
  <2>1. /\ OpIds' = OpIds \cup {k} /\ k \in OpIds' /\ ops'[k] = q
        /\ \A j \in OpIds : j # k => ops'[j] = ops[j]
        /\ Grown(tasks', tasks, a.nodes, PhaseTasks(k, q), Len(ops'))
    BY <1>2, <1>6, <1>7 DEF PhaseStarted, OpIds
  <2>2. \A p \in Phases, n \in Node : a.rec[p][n].status \in {"NONE", "PENDING"}
    <3> SUFFICES ASSUME NEW p \in Phases, NEW n \in Node
                 PROVE  a.rec[p][n].status \in {"NONE", "PENDING"}
      OBVIOUS
    <3>1. a.phase = "STOP_SOURCE"
      BY <1>4, <1>6 DEF RowInv, PhaseOK
    <3>2. p = a.phase \/ PhaseIndex[p] > PhaseIndex[a.phase] \/ p \in {"APPLY", "VERIFY"}
      BY <3>1, PhaseOrder DEF Phases
    <3>3. CASE p \in {"APPLY", "VERIFY"}
      BY <1>6, <3>3 DEF RowInv, RecordsExist, HasRecord, KindPhases, ApiPhases
    <3> QED
      BY <1>4, <1>6, <3>2, <3>3 DEF RowInv, RecordsInOrder
  <2>3. \A n \in a.nodes : a.rec["STOP_SOURCE"][n].status = "PENDING"
    <3>1. \A n \in a.nodes : HasRecord(a, "STOP_SOURCE", n)
      BY <1>6 DEF HasRecord, KindPhases, ApiPhases
    <3> QED
      BY <1>6, <1>9, <2>2, <3>1 DEF RowInv, RecordsExist
  <2> QED
    BY <1>6, <1>7, <1>8, <1>9, <2>1, <2>2, <2>3 DEF BeginsRow
<1>11. BeginsAlone(k, o, "STOP_SOURCE")
  BY <1>4, <1>9, ActivationChecks DEF BeginsAlone, SameRequest
<1>12. BeginsDeployments(o)
  <2>1. ScopeOK(o) /\ o.kind = "ROLLBACK" /\ o.dep = s
    BY <1>6, <1>9, SameRecords DEF RowInv, SameRequest
  <2> QED
    BY <1>4, <1>9, <2>1, RollbackChecks
<1> QED
  BY <1>10, <1>11, <1>12 DEF Begins

(* prepare_or_apply_rollback with apply=True on a failed operation. *)
LEMMA RetryBegins ==
  ASSUME TypeInv, RowsOrdered, ActiveOperationsDisjoint,
         NEW s \in Deployment, NEW serve \in BOOLEAN,
         NEW k \in OpIds, RetryRollback(s, serve, k)
  PROVE  \E j, q, o, p, nodes : Begins(j, q, o, p, nodes)
<1> DEFINE a == ops[k]
           o == Applied(a)
           nodes == RetryNodes(a)
           p == a.phase
<1>1. TypeOK /\ a \in Operation /\ RowInv(a)
  BY Tables DEF TypeInv, RowsOrdered
<1>2. p \in Phases /\ Starts(k, ops, o, p, nodes)
  BY RetryRollbackStep
<1>3. /\ RollbackAllowed(s, serve) /\ RollbackQueued(s)
      /\ a.kind = "ROLLBACK" /\ a.dep = s /\ a.status \in {"FAILED", "PARTIAL_FAILED"}
      /\ a.active \/ MayActivate(k, a)
  BY DEF RetryRollback, SameRollback
<1>4. nodes \in SUBSET Node /\ \A n \in nodes : a.rec[p][n].status \in Failed
  BY DEF RetryNodes, FailedNodes
<1> HIDE DEF a
<1>5. PICK q \in Operation : /\ IsQueued(q, o, p, nodes)
                             /\ PhaseStarted(k, ops, q, tasks, nodes)
  BY <1>2 DEF Starts
<1>6. RowInv(q)
  BY <1>1, <1>2, <1>3, <1>5, RowRetried
<1>7. o \in Operation /\ SameRequest(o, a) /\ o.rec = a.rec /\ o.active = TRUE
  BY <1>1, AppliedRow
<1> HIDE DEF o, nodes
<1>8. BeginsRow(k, q, o, p, nodes)
  <2>1. /\ OpIds' = OpIds \cup {k} /\ k \in OpIds' /\ ops'[k] = q
        /\ \A j \in OpIds : j # k => ops'[j] = ops[j]
        /\ Grown(tasks', tasks, nodes, PhaseTasks(k, q), Len(ops'))
    BY <1>5 DEF PhaseStarted, OpIds
  <2> QED
    BY <1>2, <1>3, <1>4, <1>5, <1>6, <1>7, <2>1 DEF BeginsRow, a
<1>9. ScopeOK(o) /\ o.kind = "ROLLBACK" /\ o.dep = s
  BY <1>1, <1>3, <1>7, SameRecords DEF RowInv, SameRequest
<1>10. BeginsDeployments(o) /\ (p # "STOP_SOURCE" => HasEffectivePlan(PhaseDeployment(o, p)))
  BY <1>2, <1>3, <1>7, <1>9, RollbackChecks
<1>11. BeginsAlone(k, o, p)
  <2>1. CASE a.active
    BY <1>7, <1>10, <2>1 DEF BeginsAlone, SameRequest, ActiveOperationsDisjoint, a
  <2>2. CASE MayActivate(k, a)
    BY <1>7, <1>10, <2>2, ActivationChecks DEF BeginsAlone, SameRequest
  <2> QED
    BY <1>3, <2>1, <2>2
<1> QED
  BY <1>8, <1>10, <1>11 DEF Begins

(* Every request that creates or restarts an operation is one of the two.      *)
LEMMA ActivationShape ==
  ASSUME TypeInv, RowsOrdered, ActiveOperationsDisjoint, Activates
  PROVE  Prepares \/ \E k, q, o, p, nodes : Begins(k, q, o, p, nodes)
BY BulkBegins, PrepareAdds, ApplyBegins, RetryBegins DEF Activates

----------------------------------------------------------------------------
(* Every row is in order in every reachable state                             *)

(* Task i of node n, so far waiting or expired, is leased as u.                *)
ClaimsAs(n, i, u) ==
  /\ i \in LiveIds(n) /\ u \in Task /\ TaskChanged(n, i, u)
  /\ SameWork(u, tasks[n][i]) /\ u.status = "RUNNING" /\ UNCHANGED generations
  /\ tasks[n][i].op = 0 => ops' = ops
  /\ tasks[n][i].op # 0 =>
       /\ i \in BoundLiveIds(n) /\ tasks[n][i].op \in OpIds /\ ~HasExpired(tasks[n][i])
       /\ tasks[n][i].phase = ops[tasks[n][i].op].phase
       /\ \E r : RowChanged(tasks[n][i].op, r) /\ Marked(r, ops[tasks[n][i].op], n)

(* claim_task, seen from the row of the task. *)
LEMMA ClaimShape ==
  ASSUME TypeInv, NEW n \in Node, NEW i \in TaskIds(n), Claim(n, i)
  PROVE  \E u : ClaimsAs(n, i, u)
<1> DEFINE t == tasks[n][i]
           k == t.op
<1>1. TypeOK /\ Leases(n, i)
  BY ClaimStep DEF TypeInv
<1>2. PICK u \in Task : /\ TaskChanged(n, i, u) /\ SameWork(u, t)
                        /\ u.status = "RUNNING"
  BY <1>1 DEF Leases
<1>3. i \in LiveIds(n) /\ UNCHANGED generations
  BY DEF Claim, OldestClaimable, Claimable, HasExpired, LiveIds, IsLive, LiveStatus
<1>4. CASE k = 0
  BY <1>1, <1>2, <1>3, <1>4 DEF ClaimsAs, Leases
<1>5. CASE k # 0
  <2>1. /\ k \in OpIds /\ ops[k] \in Operation /\ t.phase \in Phases
        /\ t.phase = ops[k].phase /\ ~HasExpired(t)
        /\ ops[k].rec[t.phase][n].status = "QUEUED" /\ i \in BoundLiveIds(n)
    BY <1>1, <1>3, <1>5, BoundTask DEF Claim, IsCurrent, BoundLiveIds
  <2>2. PICK r \in Operation :
          /\ RowChanged(k, r) /\ r.status = "RUNNING"
          /\ \E o : /\ IsOutcome(o, ops[k], t.phase, n, "RUNNING")
                    /\ SameScope(r, o) /\ r.active = o.active
                    /\ r.rec = o.rec /\ r.phase = o.phase
    BY <1>1, <1>5 DEF Leases
  <2>3. PICK o : /\ IsOutcome(o, ops[k], t.phase, n, "RUNNING")
                 /\ SameScope(r, o) /\ r.active = o.active
                 /\ r.rec = o.rec /\ r.phase = o.phase
    BY <2>2
  <2>4. Marked(r, ops[k], n)
    <3> DEFINE b == ops[k]
               p == t.phase
    <3>1. /\ p = b.phase /\ p \in Phases /\ b.rec[b.phase][n].status = "QUEUED"
          /\ IsOutcome(o, b, p, n, "RUNNING")
      BY <2>1, <2>3
    <3> HIDE DEF b, p
    <3>2. IsOutcome(o, b, b.phase, n, "RUNNING") /\ b.phase \in Phases
      BY <3>1
    <3>3. SameRequest(r, b) /\ r.phase = b.phase /\ r.active = b.active
      BY <2>3, <3>2 DEF IsOutcome, SameScope, SameRequest
    <3>4. \A a \in Phases, m \in Node :
            r.rec[a][m] = IF a = b.phase /\ m = n
                          THEN [status |-> "RUNNING", attempt |-> b.rec[b.phase][n].attempt]
                          ELSE b.rec[a][m]
      <4>1. r.rec = o.rec
        BY <2>3
      <4>2. \A a \in Phases, m \in Node :
              o.rec[a][m] = IF a = b.phase /\ m = n
                            THEN [status |-> "RUNNING", attempt |-> b.rec[b.phase][n].attempt]
                            ELSE b.rec[a][m]
        BY <3>2 DEF IsOutcome
      <4> QED
        BY <4>1, <4>2
    <3>5. Marked(r, b, n)
      BY <2>2, <3>1, <3>2, <3>3, <3>4 DEF Marked
    <3> QED
      BY <3>5 DEF b
  <2> QED
    BY <1>2, <1>3, <1>5, <2>1, <2>2, <2>4 DEF ClaimsAs
<1> QED
  BY <1>4, <1>5

Leasing == \E n \in Node : \E i \in TaskIds(n) : \E u : ClaimsAs(n, i, u)
Begun == \E k, q, o, p, nodes : Begins(k, q, o, p, nodes)
Finished ==
  \E n \in Node : \E i \in BoundLiveIds(n) : \E s \in Terminal :
    \E k, u, r, ts : EndsAs(n, i, s, k, u, r, ts)

(* The kinds of a step, with what each does to its row. *)
LEMMA RowSteps ==
  ASSUME CurrentInv, RowsOrdered, ActiveOperationsDisjoint, [Next]_vars
  PROVE  Prepares \/ Begun \/ Leasing \/ Finished \/ Others
<1>1. TypeInv
  BY DEF CurrentInv
<1>2. CASE Activates
  BY <1>1, <1>2, ActivationShape DEF Begun
<1>3. CASE Claims
  BY <1>1, <1>3, ClaimShape DEF Claims, Leasing
<1>4. CASE BoundEnds
  BY <1>4, EndShape DEF BoundEnds, Finished
<1> QED
  BY <1>1, <1>2, <1>3, <1>4, StepKinds

(* No step disorders a row. *)
LEMMA RowsOrderedStep ==
  ASSUME CurrentInv, RowsOrdered, ActiveOperationsDisjoint, [Next]_vars
  PROVE  RowsOrdered'
<1>1. TypeInv /\ TypeOK /\ Len(ops) \in Nat /\ \A k \in OpIds : ops[k] \in Operation
  BY Tables DEF CurrentInv, TypeInv
<1>2. CASE Prepares
  <2>1. PICK o \in Operation : RowInv(o) /\ ops' = Append(ops, o)
    BY <1>2 DEF Prepares
  <2>2. /\ Len(ops') = Len(ops) + 1 /\ ops'[Len(ops) + 1] = o
        /\ \A k \in OpIds : ops'[k] = ops[k]
    BY <1>1, <2>1, OperationAppended
  <2>3. \A k \in OpIds' : k \in OpIds \/ k = Len(ops) + 1
    BY <1>1, <2>2 DEF OpIds
  <2> QED
    BY <2>1, <2>2, <2>3 DEF RowsOrdered
<1>3. CASE Begun
  <2>1. PICK k, q, o, p, nodes : Begins(k, q, o, p, nodes)
    BY <1>3 DEF Begun
  <2>2. BeginsRow(k, q, o, p, nodes)
    BY <2>1 DEF Begins
  <2> QED
    BY <2>2 DEF BeginsRow, RowsOrdered
<1>4. CASE Leasing
  <2>1. PICK n \in Node : \E j, u : ClaimsAs(n, j, u)
    BY <1>4 DEF Leasing
  <2>2. PICK j, u : ClaimsAs(n, j, u)
    BY <2>1
  <2>3. CASE tasks[n][j].op = 0
    BY <2>2, <2>3 DEF ClaimsAs, RowsOrdered, OpIds
  <2>4. CASE tasks[n][j].op # 0
    <3> DEFINE k == tasks[n][j].op
    <3>1. k \in OpIds /\ \E r : RowChanged(k, r) /\ Marked(r, ops[k], n)
      BY <2>2, <2>4 DEF ClaimsAs
    <3>2. PICK r : RowChanged(k, r) /\ Marked(r, ops[k], n)
      BY <3>1
    <3>3. RowInv(r)
      BY <1>1, <3>1, <3>2, RowClaimed DEF RowsOrdered
    <3> QED
      BY <3>2, <3>3 DEF RowsOrdered, RowChanged, OpIds
  <2> QED
    BY <2>3, <2>4
<1>5. CASE Finished
  <2>1. PICK n \in Node, s \in Terminal : \E i, k, u, r, ts : EndsAs(n, i, s, k, u, r, ts)
    BY <1>5 DEF Finished
  <2>2. PICK i, k, u, r, ts : EndsAs(n, i, s, k, u, r, ts)
    BY <2>1
  <2>3. /\ ops[k] \in Operation /\ RowInv(ops[k]) /\ ops[k].phase \in Phases
        /\ ops[k].status # "PREPARED" /\ ops[k].rec[ops[k].phase][n].status \in LiveStatus
        /\ IsOutcome(u, ops[k], ops[k].phase, n, s) /\ r \in Operation /\ Becomes(k, r, u, ts)
    BY <2>2 DEF EndsAs
  <2>4. RowInv(r)
    BY <2>3, RowEndStep DEF Becomes
  <2> QED
    BY <2>3, <2>4 DEF Becomes, RowChanged, RowsOrdered, OpIds
<1>6. CASE Others
  <2>1. ops' = ops
    BY <1>6 DEF Others, Quiet, Unbound, Accept, CreateDirect, CreateUnjoin
  <2> QED
    BY <2>1 DEF RowsOrdered, OpIds
<1> QED
  BY <1>2, <1>3, <1>4, <1>5, <1>6, RowSteps

(* What the order of one row's records means for its phases. *)
LEMMA RowPhases ==
  ASSUME NEW o \in Operation, RowInv(o), NEW p \in Phases, NEW q \in Phases,
         NEW m \in Node, NEW n \in Node, PhaseIndex[p] < PhaseIndex[q],
         o.rec[q][n].status \notin {"NONE", "PENDING"}
  PROVE  o.rec[p][m].status \in {"NONE", "SUCCEEDED"}
<1>1. o.phase \in Phases \cup {"COMPLETE"}
  BY OperationFields
<1>2. ~(PhaseIndex[q] > PhaseIndex[o.phase])
  BY DEF RowInv, RecordsInOrder
<1>3. PhaseIndex[p] < PhaseIndex[o.phase]
  BY <1>1, <1>2, PhaseOrder
<1> QED
  BY <1>3 DEF RowInv, RecordsInOrder

(* Every row is in order: earlier phases have succeeded, later ones have not    *)
(* begun, and no record of the current phase of an applied row waits.         *)
THEOREM OrderInvariant == Spec => []RowsOrdered
<1>1. Init => RowsOrdered
  BY DEF Init, RowsOrdered, OpIds
<1>2. CurrentInv /\ ActiveOperationsDisjoint /\ RowsOrdered /\ [Next]_vars => RowsOrdered'
  BY RowsOrderedStep
<1> QED
  BY <1>1, <1>2, CurrentInvariant, ActiveDisjoint, PTL DEF Spec

(* No node is asked to start, verify or serve in a phase before every node has  *)
(* succeeded in all earlier ones (_advance_rollback, _finish_generic_operation, *)
(* and the retry of one phase), whatever fails, expires or is retried between. *)
THEOREM PhaseOrderKept == Spec => []PhasesInOrder
<1>1. CurrentInv /\ RowsOrdered => PhasesInOrder
  BY Tables, RowPhases DEF RowsOrdered, PhasesInOrder, CurrentInv, TypeInv
<1> QED
  BY <1>1, CurrentInvariant, OrderInvariant, PTL

(* An active bulk always has a record in flight, so its lineage is released in  *)
(* the end (_update_failed_operation, _finish_generic_operation).             *)
THEOREM GenericHasWork == Spec => []ActiveGenericHasWork
<1>1. RowsOrdered => ActiveGenericHasWork
  BY DEF RowsOrdered, ActiveGenericHasWork, RowInv, HasWork
<1> QED
  BY <1>1, OrderInvariant, PTL

----------------------------------------------------------------------------
(* The deployment rows agree with the operations                              *)

GenerationsAgree ==
  /\ EvidenceMatchesStatus /\ BusyStatusHasOperation
  /\ \A k \in OpIds : ops[k].active => EvidenceOK(ops[k])

(* The generations a row writes are of its own lineage. *)
LEMMA OwnLineage ==
  ASSUME NEW o \in Operation, ScopeOK(o)
  PROVE  /\ o.dep \in Deployment
         /\ \A d \in Deployment : d \in {o.dep, o.target} => Lineage[d] = Lineage[o.dep]
         /\ o.kind = "ROLLBACK" => o.target \in Deployment /\ o.target # o.dep
         /\ o.kind # "ROLLBACK" => o.target \notin Deployment
         /\ o.kind \in {"APPLY", "VERIFY", "ROLLBACK"}
BY OperationFields, PlanAssumption DEF ScopeOK

(* What the rows of generations say of those of one lineage is left alone by a  *)
(* step that writes only those of another.                                   *)
LEMMA EvidenceElsewhere ==
  ASSUME NEW o \in Operation, ScopeOK(o), EvidenceOK(o), NEW l, Lineage[o.dep] # l,
         accepted' = accepted,
         \A d \in Deployment : Lineage[d] # l =>
           status'[d] = status[d] /\ (d \in verified' <=> d \in verified)
  PROVE  EvidenceAt(o, accepted', status', verified')
<1>1. /\ status'[o.dep] = status[o.dep] /\ (o.dep \in verified' <=> o.dep \in verified)
      /\ o.kind = "ROLLBACK" => (o.target \in verified' <=> o.target \in verified)
  BY OwnLineage
<1> QED
  BY <1>1 DEF EvidenceOK, EvidenceAt

Consistent == CurrentInv /\ RowsOrdered /\ ActiveOperationsDisjoint /\ GenerationsAgree

(* The tables, their rows and the generations before a step. *)
LEMMA ConsistentParts ==
  ASSUME Consistent
  PROVE  /\ TypeOK /\ Len(ops) \in Nat
         /\ status \in [Deployment -> DeploymentStatus] /\ verified \subseteq Deployment
         /\ \A k \in OpIds : ops[k] \in Operation /\ RowInv(ops[k]) /\ ScopeOK(ops[k])
         /\ \A k \in OpIds : ops[k].active => EvidenceOK(ops[k])
BY Tables, TypeParts DEF Consistent, CurrentInv, TypeInv, RowsOrdered, RowInv,
                         GenerationsAgree, GenerationsOK

(* A request that starts a phase writes the status that names it. *)
LEMMA BeginsAgree ==
  ASSUME Consistent, NEW k, NEW q, NEW o, NEW p, NEW nodes, Begins(k, q, o, p, nodes)
  PROVE  GenerationsAgree'
<1>1. BeginsRow(k, q, o, p, nodes) /\ BeginsAlone(k, o, p) /\ BeginsDeployments(o)
  BY DEF Begins
<1>2. /\ status \in [Deployment -> DeploymentStatus] /\ verified \subseteq Deployment
      /\ \A j \in OpIds : ops[j] \in Operation /\ ScopeOK(ops[j])
      /\ \A j \in OpIds : ops[j].active => EvidenceOK(ops[j])
      /\ EvidenceMatchesStatus /\ BusyStatusHasOperation
  BY ConsistentParts DEF Consistent, GenerationsAgree
<1>3. /\ q \in Operation /\ o \in Operation /\ SameRequest(o, q) /\ ScopeOK(o)
      /\ q.active = TRUE
  <2>1. q \in Operation /\ o \in Operation /\ SameRequest(o, q) /\ ScopeOK(q) /\ q.active = TRUE
    BY <1>1 DEF BeginsRow, IsQueued, SameScope, SameRequest, RowInv
  <2> QED
    BY <2>1, SameRecords
<1>4. /\ o.dep \in Deployment /\ o.kind \in {"APPLY", "VERIFY", "ROLLBACK"}
      /\ \A d \in Deployment : d \in {o.dep, o.target} => Lineage[d] = Lineage[o.dep]
      /\ o.kind = "ROLLBACK" => o.target \in Deployment /\ o.target # o.dep
      /\ o.kind # "ROLLBACK" => o.target \notin Deployment
  BY <1>3, OwnLineage
<1>5. /\ k \in OpIds' /\ ops'[k] = q /\ OpIds' = OpIds \cup {k}
      /\ \A j \in OpIds : j # k => ops'[j] = ops[j]
      /\ k \in OpIds => SameRequest(o, ops[k])
  BY <1>1 DEF BeginsRow
<1>6. /\ \A d \in Deployment : d # o.dep /\ d # o.target =>
           status'[d] = status[d] /\ (d \in verified' <=> d \in verified)
      /\ accepted' = accepted /\ verified' \subseteq verified
      /\ o.kind = "APPLY" => status'[o.dep] = "APPLYING" /\ o.dep \notin verified'
      /\ o.kind = "VERIFY" => status'[o.dep] = "VERIFYING"
      /\ o.kind = "ROLLBACK" =>
           /\ status'[o.dep] = "ROLLING_BACK" /\ status'[o.target] = "ROLLBACK_TARGET_PENDING"
           /\ IsLatest(o.dep) /\ o.target \in verified'
  <2>1. CASE o.kind = "APPLY"
    BY <1>1, <1>2, <1>4, <2>1 DEF BeginsDeployments, EvidenceWhenQueued
  <2>2. CASE o.kind = "VERIFY"
    BY <1>1, <1>2, <1>4, <2>2 DEF BeginsDeployments, EvidenceWhenQueued
  <2>3. CASE o.kind = "ROLLBACK"
    BY <1>1, <1>2, <1>4, <2>3 DEF BeginsDeployments
  <2> QED
    BY <1>4, <2>1, <2>2, <2>3
<1>7. EvidenceMatchesStatus'
  <2> SUFFICES ASSUME NEW d \in verified'
               PROVE  status'[d] \in {"VERIFIED", "VERIFYING", "PARTIALLY_VERIFIED",
                                      "ROLLING_BACK", "ROLLBACK_TARGET_PENDING",
                                      "ROLLBACK_FAILED"}
    BY DEF EvidenceMatchesStatus
  <2>1. d \in verified /\ d \in Deployment
    BY <1>2, <1>6
  <2>2. CASE d # o.dep /\ d # o.target
    BY <1>2, <1>6, <2>1, <2>2 DEF EvidenceMatchesStatus
  <2>3. CASE d = o.dep
    BY <1>4, <1>6, <2>3
  <2>4. CASE d = o.target
    BY <1>4, <1>6, <2>1, <2>4
  <2> QED
    BY <2>2, <2>3, <2>4
<1>8. BusyStatusHasOperation'
  <2> SUFFICES ASSUME NEW d \in Deployment,
                      status'[d] \in {"APPLYING", "VERIFYING", "ROLLING_BACK",
                                      "ROLLBACK_TARGET_PENDING", "ROLLBACK_FAILED"}
               PROVE  \E j \in OpIds' : ops'[j].active /\ d \in {ops'[j].dep, ops'[j].target}
    BY DEF BusyStatusHasOperation
  <2>1. CASE d \in {o.dep, o.target}
    BY <1>3, <1>5, <2>1 DEF SameRequest
  <2>2. CASE d \notin {o.dep, o.target}
    <3>1. PICK j \in OpIds : ops[j].active /\ d \in {ops[j].dep, ops[j].target}
      BY <1>2, <1>6, <2>2 DEF BusyStatusHasOperation
    <3>2. j # k
      BY <1>5, <2>2, <3>1 DEF SameRequest
    <3> QED
      BY <1>5, <3>1, <3>2
  <2> QED
    BY <2>1, <2>2
<1>9. ASSUME NEW j \in OpIds', ops'[j].active
      PROVE  EvidenceAt(ops'[j], accepted', status', verified')
  <2>1. CASE j = k
    <3>1. EvidenceAt(q, accepted', status', verified')
      BY <1>3, <1>4, <1>6 DEF EvidenceAt, SameRequest, IsLatest
    <3> QED
      BY <1>5, <2>1, <3>1
  <2>2. CASE j # k
    <3>1. j \in OpIds /\ ops'[j] = ops[j]
      BY <1>5, <2>2
    <3>2. Lineage[ops[j].dep] # Lineage[o.dep]
      BY <1>1, <1>9, <2>2, <3>1 DEF BeginsAlone
    <3>3. EvidenceOK(ops[j]) /\ ops[j] \in Operation /\ ScopeOK(ops[j])
      BY <1>2, <1>9, <3>1
    <3>4. \A d \in Deployment : Lineage[d] # Lineage[o.dep] =>
            status'[d] = status[d] /\ (d \in verified' <=> d \in verified)
      BY <1>4, <1>6
    <3> QED
      BY <1>6, <3>1, <3>2, <3>3, <3>4, EvidenceElsewhere
  <2> QED
    BY <2>1, <2>2
<1> QED
  BY <1>7, <1>8, <1>9 DEF GenerationsAgree, EvidenceOK

(* The end of a task writes the generations of its own operation alone, and    *)
(* leaves no busy status without the operation.                              *)
LEMMA FinishedAgree ==
  ASSUME Consistent, NEW n, NEW i, NEW s, NEW k, NEW u, NEW r, NEW ts,
         EndsAs(n, i, s, k, u, r, ts)
  PROVE  GenerationsAgree'
<1>1. /\ status \in [Deployment -> DeploymentStatus] /\ verified \subseteq Deployment
      /\ \A j \in OpIds : ops[j] \in Operation /\ ScopeOK(ops[j])
      /\ \A j \in OpIds : ops[j].active => EvidenceOK(ops[j])
      /\ EvidenceMatchesStatus /\ BusyStatusHasOperation
  BY ConsistentParts DEF Consistent, GenerationsAgree
<1>2. /\ k \in OpIds /\ ops[k].active = TRUE /\ r \in Operation
      /\ RowChanged(k, r) /\ DeploymentsAfter(r, u)
      /\ u \in Operation /\ ScopeOK(u) /\ SameRequest(u, ops[k]) /\ SameRequest(r, u)
  BY DEF EndsAs, Becomes, EndedRowOK, IsOutcome, SameScope, SameRequest,
         RowFails, RowWaits, RowCompletes, RowGated, RowAdvances, IsQueued
<1>3. /\ u.dep \in Deployment /\ u.kind \in {"APPLY", "VERIFY", "ROLLBACK"}
      /\ \A d \in Deployment : d \in {u.dep, u.target} => Lineage[d] = Lineage[u.dep]
      /\ u.kind = "ROLLBACK" => u.target \in Deployment /\ u.target # u.dep
      /\ u.kind # "ROLLBACK" => u.target \notin Deployment
  BY <1>2, OwnLineage
<1>4. OpIds' = OpIds /\ \A j \in OpIds : ops'[j] = IF j = k THEN r ELSE ops[j]
  BY <1>2 DEF RowChanged, OpIds
<1>5. r.active \in BOOLEAN
  BY <1>2, OperationFields
<1>6. /\ accepted' = accepted
      /\ \A d \in Deployment : d # u.dep /\ d # u.target =>
           status'[d] = status[d] /\ (d \in verified' <=> d \in verified)
      /\ \A d \in verified' : d \in verified \/ d \in {u.dep, u.target}
  BY <1>2 DEF DeploymentsAfter
<1>7. /\ u.kind = "APPLY" => u.dep \notin verified
      /\ u.kind = "ROLLBACK" =>
           /\ \A e \in accepted : Previous[e] # u.dep
           /\ u.target \in verified
           /\ status[u.dep] \in {"ROLLING_BACK", "ROLLBACK_FAILED"}
  <2>1. EvidenceOK(ops[k])
    BY <1>1, <1>2
  <2> QED
    BY <1>2, <2>1 DEF EvidenceOK, EvidenceAt, SameRequest
<1> DEFINE VerifiedStatus == {"VERIFIED", "VERIFYING", "PARTIALLY_VERIFIED",
                              "ROLLING_BACK", "ROLLBACK_TARGET_PENDING", "ROLLBACK_FAILED"}
           BusyStatus == {"APPLYING", "VERIFYING", "ROLLING_BACK",
                          "ROLLBACK_TARGET_PENDING", "ROLLBACK_FAILED"}
<1>8. \A d \in verified' : d \in Deployment
  BY <1>1, <1>2, <1>3, <1>6 DEF DeploymentsAfter
<1>9. \A d \in verified : status[d] \in VerifiedStatus
  BY <1>1 DEF EvidenceMatchesStatus
<1>10. \A d \in {u.dep, u.target} : d \in verified' => status'[d] \in VerifiedStatus
  <2> HIDE DEF BusyStatus
  <2>1. CASE u.kind = "APPLY" /\ r.active = TRUE
    BY <1>2, <1>3, <1>7, <1>8, <2>1 DEF DeploymentsAfter
  <2>2. CASE u.kind = "APPLY" /\ r.active = FALSE
    BY <1>2, <1>3, <1>7, <1>8, <2>2 DEF DeploymentsAfter
  <2>3. CASE u.kind = "VERIFY" /\ r.active = TRUE
    BY <1>2, <1>3, <1>8, <1>9, <2>3 DEF DeploymentsAfter
  <2>4. CASE u.kind = "VERIFY" /\ r.active = FALSE
    BY <1>2, <1>3, <1>8, <2>4 DEF DeploymentsAfter
  <2>5. CASE u.kind = "ROLLBACK" /\ r.active = TRUE
    BY <1>2, <1>3, <1>9, <2>5 DEF DeploymentsAfter
  <2>6. CASE u.kind = "ROLLBACK" /\ r.active = FALSE
    BY <1>2, <1>3, <2>6 DEF DeploymentsAfter
  <2> QED
    BY <1>3, <1>5, <2>1, <2>2, <2>3, <2>4, <2>5, <2>6
<1>11. EvidenceMatchesStatus'
  <2> SUFFICES ASSUME NEW d \in verified' PROVE status'[d] \in VerifiedStatus
    BY DEF EvidenceMatchesStatus
  <2> QED
    BY <1>6, <1>8, <1>9, <1>10
<1>12. \A d \in Deployment : r.active = FALSE /\ d \in {u.dep, u.target}
         => status'[d] \notin BusyStatus
  <2> HIDE DEF VerifiedStatus
  <2>1. CASE u.kind = "APPLY"
    BY <1>2, <1>3, <2>1 DEF DeploymentsAfter
  <2>2. CASE u.kind = "VERIFY"
    BY <1>2, <1>3, <2>2 DEF DeploymentsAfter
  <2>3. CASE u.kind = "ROLLBACK"
    BY <1>2, <1>3, <2>3 DEF DeploymentsAfter
  <2> QED
    BY <1>3, <2>1, <2>2, <2>3
<1>13. BusyStatusHasOperation'
  <2> SUFFICES ASSUME NEW d \in Deployment, status'[d] \in BusyStatus
               PROVE  \E j \in OpIds' : ops'[j].active /\ d \in {ops'[j].dep, ops'[j].target}
    BY DEF BusyStatusHasOperation
  <2>1. CASE d \in {u.dep, u.target}
    <3>1. r.active = TRUE
      BY <1>5, <1>12, <2>1
    <3> QED
      BY <1>2, <1>4, <2>1, <3>1 DEF SameRequest
  <2>2. CASE d \notin {u.dep, u.target}
    <3>1. PICK j \in OpIds : ops[j].active /\ d \in {ops[j].dep, ops[j].target}
      BY <1>1, <1>6, <2>2 DEF BusyStatusHasOperation
    <3>2. j # k
      BY <1>2, <2>2, <3>1 DEF SameRequest
    <3> QED
      BY <1>4, <3>1, <3>2
  <2> QED
    BY <2>1, <2>2
<1>14. ASSUME NEW j \in OpIds', ops'[j].active
       PROVE  EvidenceAt(ops'[j], accepted', status', verified')
  <2>1. CASE j = k
    <3>1. r.active = TRUE
      BY <1>4, <1>5, <1>14, <2>1
    <3>2. EvidenceAt(r, accepted', status', verified')
      <4>1. CASE u.kind = "APPLY"
        BY <1>2, <1>7, <3>1, <4>1 DEF EvidenceAt, SameRequest, DeploymentsAfter
      <4>2. CASE u.kind = "VERIFY"
        BY <1>2, <4>2 DEF EvidenceAt, SameRequest
      <4>3. CASE u.kind = "ROLLBACK"
        <5>1. /\ accepted' = accepted /\ verified' = verified
              /\ status'[u.dep] \in {status[u.dep], "ROLLING_BACK", "ROLLBACK_FAILED"}
          BY <1>2, <3>1, <4>3 DEF DeploymentsAfter
        <5> QED
          BY <1>2, <1>7, <4>3, <5>1 DEF EvidenceAt, SameRequest
      <4> QED
        BY <1>3, <4>1, <4>2, <4>3
    <3> QED
      BY <1>4, <2>1, <3>2
  <2>2. CASE j # k
    <3>1. j \in OpIds /\ ops'[j] = ops[j]
      BY <1>4, <2>2
    <3>2. Lineage[ops[j].dep] # Lineage[u.dep]
      BY <1>2, <1>14, <2>2, <3>1 DEF Consistent, ActiveOperationsDisjoint, SameRequest
    <3>3. EvidenceOK(ops[j]) /\ ops[j] \in Operation /\ ScopeOK(ops[j])
      BY <1>1, <1>14, <3>1
    <3>4. \A d \in Deployment : Lineage[d] # Lineage[u.dep] =>
            status'[d] = status[d] /\ (d \in verified' <=> d \in verified)
      BY <1>3, <1>6
    <3> QED
      BY <1>6, <3>1, <3>2, <3>3, <3>4, EvidenceElsewhere
  <2> QED
    BY <2>1, <2>2
<1> QED
  BY <1>11, <1>13, <1>14 DEF GenerationsAgree, EvidenceOK

(* A new generation, or a START or RESTART that takes evidence away, is kept    *)
(* off every lineage that an operation holds.                                *)
LEMMA OthersAgree ==
  ASSUME Consistent, Others
  PROVE  GenerationsAgree'
<1>1. /\ status \in [Deployment -> DeploymentStatus] /\ verified \subseteq Deployment
      /\ \A j \in OpIds : ops[j] \in Operation /\ ScopeOK(ops[j])
      /\ \A j \in OpIds : ops[j].active => EvidenceOK(ops[j])
      /\ EvidenceMatchesStatus /\ BusyStatusHasOperation
  BY ConsistentParts DEF Consistent, GenerationsAgree
<1>2. ASSUME ops' = ops, status' = status, verified' \subseteq verified,
             \A j \in OpIds : ops[j].active =>
               EvidenceAt(ops[j], accepted', status', verified')
      PROVE  GenerationsAgree'
  BY <1>1, <1>2 DEF GenerationsAgree, EvidenceOK, EvidenceMatchesStatus,
                    BusyStatusHasOperation, OpIds
<1>3. CASE Quiet \/ \E n \in Node : CreateUnjoin(n)
  <2>1. ops' = ops /\ accepted' = accepted /\ status' = status /\ verified' = verified
    BY <1>3 DEF Quiet, Unbound, generations, CreateUnjoin
  <2> QED
    BY <1>1, <1>2, <2>1 DEF EvidenceOK
<1>4. ASSUME NEW d \in Deployment, Accept(d)
      PROVE  GenerationsAgree'
  <2>1. ops' = ops /\ status' = status /\ verified' = verified /\ accepted' = accepted \cup {d}
    BY <1>4 DEF Accept
  <2>2. ASSUME NEW j \in OpIds, ops[j].active
        PROVE  Previous[d] # ops[j].dep
    <3> SUFFICES ASSUME Previous[d] = ops[j].dep PROVE FALSE
      OBVIOUS
    <3>1. Previous[d] \in Deployment
      BY <1>1, OwnLineage
    <3>2. Previous[d] # NoDeployment
      BY <3>1, PlanAssumption
    <3>3. LineageIdle(d) /\ Lineage[Previous[d]] = Lineage[d]
      BY <1>4, <3>2, PlanAssumption DEF Accept
    <3> QED
      BY <2>2, <3>3 DEF LineageIdle, OpIds
  <2>3. ASSUME NEW j \in OpIds, ops[j].active
        PROVE  EvidenceAt(ops[j], accepted', status', verified')
    BY <1>1, <2>1, <2>2, <2>3 DEF EvidenceOK, EvidenceAt
  <2> QED
    BY <1>2, <2>1, <2>3
<1>5. ASSUME NEW type \in DirectTypes, NEW d \in Deployment, NEW nodes \in SUBSET Node,
             CreateDirect(type, d, nodes)
      PROVE  GenerationsAgree'
  <2>1. /\ ops' = ops /\ status' = status /\ accepted' = accepted /\ LineageIdle(d)
        /\ verified' \subseteq verified /\ \A e \in verified : e # d => e \in verified'
    BY <1>5 DEF CreateDirect
  <2>2. ASSUME NEW j \in OpIds, ops[j].active
        PROVE  EvidenceAt(ops[j], accepted', status', verified')
    <3>1. /\ EvidenceOK(ops[j]) /\ ops[j].dep \in Deployment
          /\ ops[j].kind = "ROLLBACK" =>
               ops[j].target \in Deployment /\ Lineage[ops[j].target] = Lineage[ops[j].dep]
      BY <1>1, <2>2, OwnLineage
    <3>2. Lineage[ops[j].dep] # Lineage[d]
      BY <2>1, <2>2 DEF LineageIdle, OpIds
    <3> QED
      BY <2>1, <3>1, <3>2 DEF EvidenceOK, EvidenceAt
  <2> QED
    BY <1>2, <2>1, <2>2
<1> QED
  BY <1>3, <1>4, <1>5 DEF Others

(* The deployment rows agree with the operations after every step. *)
LEMMA GenerationsAgreeStep ==
  ASSUME Consistent, [Next]_vars
  PROVE  GenerationsAgree'
<1>1. /\ TypeOK /\ Len(ops) \in Nat
      /\ \A j \in OpIds : ops[j].active => EvidenceOK(ops[j])
      /\ EvidenceMatchesStatus /\ BusyStatusHasOperation
  BY ConsistentParts DEF Consistent, GenerationsAgree
<1>2. ASSUME UNCHANGED generations,
             \A j \in OpIds' : ops'[j].active =>
               j \in OpIds /\ SameRequest(ops'[j], ops[j]) /\ ops[j].active,
             \A j \in OpIds : j \in OpIds' /\ SameRequest(ops'[j], ops[j])
                              /\ (ops[j].active => ops'[j].active)
      PROVE  GenerationsAgree'
  <2>1. EvidenceMatchesStatus'
    BY <1>1, <1>2 DEF EvidenceMatchesStatus, generations
  <2>2. BusyStatusHasOperation'
    BY <1>1, <1>2 DEF BusyStatusHasOperation, generations, SameRequest
  <2>3. \A j \in OpIds' : ops'[j].active => EvidenceAt(ops'[j], accepted', status', verified')
    BY <1>1, <1>2 DEF EvidenceOK, EvidenceAt, generations, SameRequest
  <2> QED
    BY <2>1, <2>2, <2>3 DEF GenerationsAgree, EvidenceOK
<1>3. CASE Prepares
  <2>1. PICK o \in Operation : o.active = FALSE /\ ops' = Append(ops, o) /\ UNCHANGED generations
    BY <1>3 DEF Prepares
  <2>2. /\ Len(ops') = Len(ops) + 1 /\ ops'[Len(ops) + 1] = o
        /\ \A k \in OpIds : ops'[k] = ops[k]
    BY <1>1, <2>1, OperationAppended
  <2>3. /\ \A k \in OpIds' : k \in OpIds \/ k = Len(ops) + 1
        /\ \A k \in OpIds : k \in OpIds'
    BY <1>1, <2>2 DEF OpIds
  <2> QED
    BY <1>2, <2>1, <2>2, <2>3 DEF SameRequest
<1>4. CASE Begun
  BY <1>4, BeginsAgree DEF Begun
<1>5. CASE Leasing
  <2>1. PICK n \in Node : \E j, u : ClaimsAs(n, j, u)
    BY <1>5 DEF Leasing
  <2>2. PICK j, u : ClaimsAs(n, j, u)
    BY <2>1
  <2>3. CASE tasks[n][j].op = 0
    <3>1. ops' = ops /\ UNCHANGED generations
      BY <2>2, <2>3 DEF ClaimsAs
    <3> QED
      BY <1>2, <3>1 DEF SameRequest, OpIds
  <2>4. CASE tasks[n][j].op # 0
    <3>1. /\ UNCHANGED generations
          /\ \E k \in OpIds : \E r : RowChanged(k, r) /\ Marked(r, ops[k], n)
      BY <2>2, <2>4 DEF ClaimsAs
    <3>2. PICK k \in OpIds : \E r : RowChanged(k, r) /\ Marked(r, ops[k], n)
      BY <3>1
    <3>3. PICK r : RowChanged(k, r) /\ Marked(r, ops[k], n)
      BY <3>2
    <3>4. OpIds' = OpIds /\ \A a \in OpIds :
            SameRequest(ops'[a], ops[a]) /\ ops'[a].active = ops[a].active
      BY <3>3 DEF RowChanged, OpIds, Marked, SameRequest
    <3> QED
      BY <1>2, <3>1, <3>4
  <2> QED
    BY <2>3, <2>4
<1>6. CASE Finished
  BY <1>6, FinishedAgree DEF Finished
<1>7. CASE Others
  BY <1>7, OthersAgree
<1> QED
  BY <1>3, <1>4, <1>5, <1>6, <1>7, RowSteps DEF Consistent

(* Verification evidence, busy statuses and active operations agree in every   *)
(* reachable state.                                                          *)
THEOREM GenerationsInvariant == Spec => []GenerationsAgree
<1>1. Init => GenerationsAgree
  <2> SUFFICES ASSUME Init PROVE GenerationsAgree
    OBVIOUS
  <2>1. /\ OpIds = {} /\ verified = InitVerified
        /\ \A d \in Deployment :
             status[d] = IF d \in InitVerified THEN "VERIFIED" ELSE "CREATED"
    BY DEF Init, OpIds
  <2>2. EvidenceMatchesStatus
    BY <2>1, ScopeAssumption DEF EvidenceMatchesStatus
  <2>3. BusyStatusHasOperation
    BY <2>1 DEF BusyStatusHasOperation
  <2> QED
    BY <2>1, <2>2, <2>3 DEF GenerationsAgree
<1>2. CurrentInv /\ RowsOrdered /\ ActiveOperationsDisjoint /\ GenerationsAgree /\ [Next]_vars
        => GenerationsAgree'
  BY GenerationsAgreeStep DEF Consistent
<1> QED
  BY <1>1, <1>2, CurrentInvariant, OrderInvariant, ActiveDisjoint, PTL DEF Spec

(* The rows agree with each other in every reachable state. *)
THEOREM ConsistentInvariant == Spec => []Consistent
<1>1. CurrentInv /\ RowsOrdered /\ ActiveOperationsDisjoint /\ GenerationsAgree => Consistent
  BY DEF Consistent
<1> QED
  BY <1>1, CurrentInvariant, OrderInvariant, ActiveDisjoint, GenerationsInvariant, PTL

(* The same rollback request can always be sent again while the operation is    *)
(* active: _validate_rollback still finds the source the latest generation and *)
(* the target verified (accept_deployment_recommendation and create_tasks are  *)
(* kept off the lineage by _lock_deployment_lineage_for_task_creation).       *)
THEOREM RollbackStaysValid == Spec => []ActiveRollbackStaysValid
<1>1. Consistent => ActiveRollbackStaysValid
  <2> SUFFICES ASSUME Consistent, NEW k \in OpIds, ops[k].active, ops[k].kind = "ROLLBACK"
               PROVE  /\ IsLatest(ops[k].dep)
                      /\ ops[k].target = Previous[ops[k].dep]
                      /\ ops[k].target \in verified
                      /\ status[ops[k].dep] \in {"ROLLING_BACK", "ROLLBACK_FAILED"}
    BY DEF ActiveRollbackStaysValid
  <2>1. ScopeOK(ops[k]) /\ EvidenceOK(ops[k])
    BY ConsistentParts
  <2> QED
    BY <2>1 DEF ScopeOK, EvidenceOK, EvidenceAt, IsLatest
<1> QED
  BY <1>1, ConsistentInvariant, PTL

----------------------------------------------------------------------------
(* Every record in flight has a task                                          *)

HasTask(k, p, n) ==
  \E i \in BoundLiveIds(n) : tasks[n][i].op = k /\ tasks[n][i].phase = p

(* A task that stays live and the same work still serves its record. *)
LEMMA TaskServes ==
  ASSUME NEW n \in Node, NEW i \in BoundLiveIds(n), i \in TaskIds(n)',
         SameWork(tasks'[n][i], tasks[n][i]), tasks'[n][i].status \in LiveStatus,
         NEW k, NEW p, tasks[n][i].op = k, tasks[n][i].phase = p
  PROVE  HasTask(k, p, n)'
<1>1. i \in BoundLiveIds(n)'
  BY DEF BoundLiveIds, LiveIds, IsLive, SameWork
<1> QED
  BY <1>1 DEF HasTask, SameWork

(* A phase that starts gives each of its nodes a task. *)
LEMMA QueuedServed ==
  ASSUME NEW ts, NEW nodes \in SUBSET Node, NEW k \in Nat \ {0}, NEW q, NEW m,
         QueuesOK(ts, Len(ops)), Grown(tasks', ts, nodes, PhaseTasks(k, q), m),
         NEW n \in nodes
  PROVE  HasTask(k, q.phase, n)'
<1> DEFINE i == Len(ts[n]) + 1
<1>1. Len(ts[n]) \in Nat
  BY LenProperties DEF QueuesOK
<1>2. Len(tasks'[n]) = i /\ tasks'[n][i] = PhaseTask(k, q, n)
  BY DEF Grown, PhaseTasks
<1>3. i \in TaskIds(n)'
  BY <1>1, <1>2 DEF TaskIds
<1> HIDE DEF i
<1>4. /\ tasks'[n][i].op = k /\ tasks'[n][i].phase = q.phase
      /\ tasks'[n][i].status = "QUEUED"
  BY <1>2 DEF PhaseTask
<1>5. i \in BoundLiveIds(n)'
  BY <1>3, <1>4 DEF BoundLiveIds, LiveIds, IsLive, LiveStatus
<1> QED
  BY <1>4, <1>5 DEF HasTask

(* Queues that only grow keep the tasks they have. *)
LEMMA GrownServes ==
  ASSUME NEW ts, NEW nodes \in SUBSET Node, NEW f, NEW m,
         QueuesOK(ts, Len(ops)), Grown(tasks', ts, nodes, f, m),
         \A n \in Node : Len(ts[n]) = Len(tasks[n]),
         NEW n \in Node, NEW i \in TaskIds(n)
  PROVE  i \in TaskIds(n)' /\ tasks'[n][i] = ts[n][i]
<1>1. /\ Len(ts[n]) \in Nat /\ i \in 1 .. Len(ts[n])
      /\ Len(tasks'[n]) = IF n \in nodes THEN Len(ts[n]) + 1 ELSE Len(ts[n])
      /\ \A j \in 1 .. Len(ts[n]) : tasks'[n][j] = ts[n][j]
  BY LenProperties DEF QueuesOK, Grown, TaskIds
<1> QED
  BY <1>1 DEF TaskIds

(* The queues after the end of a task: the others go on, the new phase adds its *)
(* own.                                                                      *)
LEMMA FinishedQueues ==
  ASSUME TypeOK, NEW n \in Node, NEW i \in TaskIds(n), NEW s \in Terminal, NEW k, NEW u,
         NEW r, NEW ts, EndsAs(n, i, s, k, u, r, ts), NEW m \in Node, NEW j \in TaskIds(m)
  PROVE  /\ j \in TaskIds(m)'
         /\ ~(m = n /\ j = i) => tasks'[m][j] = tasks[m][j]
         /\ m = n /\ j = i => tasks'[m][j].status = s /\ SameWork(tasks'[m][j], tasks[m][j])
<1>1. Ended(ts, tasks, n, i, s, Len(ops)) /\ Becomes(k, r, u, ts)
  BY DEF EndsAs
<1>2. /\ QueuesOK(ts, Len(ops)) /\ \A q \in Node : Len(ts[q]) = Len(tasks[q])
      /\ ts[m][j] = IF m = n /\ j = i
                    THEN [tasks[n][i] EXCEPT !.status = s, !.lease = 0] ELSE tasks[m][j]
  BY <1>1 DEF Ended, TaskIds
<1>3. j \in TaskIds(m)' /\ tasks'[m][j] = ts[m][j]
  <2>1. CASE tasks' = ts
    BY <1>2, <2>1 DEF TaskIds
  <2>2. CASE Grown(tasks', ts, PhaseNodes(u, NextPhase(u)), PhaseTasks(k, r), Len(ops'))
    <3> DEFINE nodes == PhaseNodes(u, NextPhase(u))
               f == PhaseTasks(k, r)
    <3>1. nodes \in SUBSET Node /\ Grown(tasks', ts, nodes, f, Len(ops'))
      BY <2>2 DEF PhaseNodes
    <3> HIDE DEF nodes, f
    <3> QED
      BY <1>2, <3>1, GrownServes
  <2> QED
    BY <1>1, <2>1, <2>2 DEF Becomes
<1>4. tasks[n][i] \in Task
  BY Tables
<1>5. [tasks[n][i] EXCEPT !.status = s, !.lease = 0].status = s
      /\ SameWork([tasks[n][i] EXCEPT !.status = s, !.lease = 0], tasks[n][i])
  <2> DEFINE t == tasks[n][i]
  <2> HIDE DEF t
  <2>1. [t EXCEPT !.status = s, !.lease = 0].status = s
        /\ SameWork([t EXCEPT !.status = s, !.lease = 0], t)
    BY <1>4 DEF Task, SameWork, t
  <2> QED
    BY <2>1 DEF t
<1> QED
  BY <1>2, <1>3, <1>5

(* A record in flight after the end of a task was in flight before, and is not  *)
(* that task's, or its phase has just been queued.                           *)
LEMMA FinishedRecords ==
  ASSUME NEW n \in Node, NEW i, NEW s \in Terminal, NEW k, NEW u, NEW r, NEW ts,
         EndsAs(n, i, s, k, u, r, ts), NEW p \in Phases, NEW m \in Node,
         r.rec[p][m].status \in LiveStatus
  PROVE  \/ ops[k].rec[p][m].status \in LiveStatus /\ ~(p = ops[k].phase /\ m = n)
         \/ /\ p = r.phase /\ m \in PhaseNodes(u, NextPhase(u))
            /\ Grown(tasks', ts, PhaseNodes(u, NextPhase(u)), PhaseTasks(k, r), Len(ops'))
<1>1. IsOutcome(u, ops[k], ops[k].phase, n, s) /\ Becomes(k, r, u, ts)
  BY DEF EndsAs
<1>2. u.rec[p][m].status \in LiveStatus =>
        ops[k].rec[p][m].status \in LiveStatus /\ ~(p = ops[k].phase /\ m = n)
  <2>1. CASE p = ops[k].phase /\ m = n
    <3>1. u.rec[p][m] = [status |-> s, attempt |-> ops[k].rec[p][n].attempt]
      BY <1>1, <2>1 DEF IsOutcome
    <3>2. u.rec[p][m].status = s
      BY <3>1
    <3> QED
      BY <3>2 DEF Terminal, LiveStatus
  <2>2. CASE ~(p = ops[k].phase /\ m = n)
    <3>1. u.rec[p][m] = ops[k].rec[p][m]
      BY <1>1, <2>2 DEF IsOutcome
    <3> QED
      BY <2>2, <3>1
  <2> QED
    BY <2>1, <2>2
<1>3. CASE RowFails(r, u) \/ RowWaits(r, u) \/ RowCompletes(r, u)
  <2>1. r.rec = u.rec
    BY <1>3 DEF RowFails, RowWaits, RowCompletes
  <2> QED
    BY <1>2, <2>1
<1>4. CASE RowGated(r, u)
  <2>1. CASE p = "START_TARGET" /\ u.rec[p][m].status # "NONE"
    <3>1. r.rec[p][m] = [status |-> "FAILED", attempt |-> u.rec[p][m].attempt]
      BY <1>4, <2>1 DEF RowGated
    <3>2. r.rec[p][m].status = "FAILED"
      BY <3>1
    <3> QED
      BY <3>2 DEF LiveStatus
  <2>2. CASE ~(p = "START_TARGET" /\ u.rec[p][m].status # "NONE")
    <3>1. r.rec[p][m] = u.rec[p][m]
      BY <1>4, <2>2 DEF RowGated
    <3> QED
      BY <1>2, <3>1
  <2> QED
    BY <2>1, <2>2
<1>5. CASE /\ RowAdvances(r, u)
           /\ Grown(tasks', ts, PhaseNodes(u, NextPhase(u)), PhaseTasks(k, r), Len(ops'))
  <2> DEFINE q == NextPhase(u)
  <2>1. IsQueued(r, u, q, PhaseNodes(u, q)) /\ q \in Phases
    BY <1>5 DEF RowAdvances
  <2>2. CASE p = q /\ m \in PhaseNodes(u, q)
    BY <1>5, <2>1, <2>2 DEF IsQueued
  <2>3. CASE ~(p = q /\ m \in PhaseNodes(u, q))
    <3>1. r.rec[p][m] = u.rec[p][m]
      BY <2>1, <2>3 DEF IsQueued
    <3> QED
      BY <1>2, <3>1
  <2> QED
    BY <2>2, <2>3
<1> QED
  BY <1>1, <1>3, <1>4, <1>5 DEF Becomes

(* No step leaves a record in flight without its task.                         *)
LEMMA ServedStep ==
  ASSUME Consistent, LiveRecordHasTask, [Next]_vars
  PROVE  LiveRecordHasTask'
<1>1. /\ TypeOK /\ Len(ops) \in Nat /\ QueuesOK(tasks, Len(ops))
      /\ \A k \in OpIds : ops[k] \in Operation
  BY ConsistentParts, Tables
<1>2. ASSUME NEW k \in OpIds, NEW p \in Phases, NEW n \in Node,
             ops[k].rec[p][n].status \in LiveStatus
      PROVE  HasTask(k, p, n)
  BY <1>2 DEF LiveRecordHasTask, HasTask
<1>3. SUFFICES ASSUME NEW k \in OpIds', NEW p \in Phases, NEW n \in Node,
                      ops'[k].rec[p][n].status \in LiveStatus
               PROVE  HasTask(k, p, n)'
  BY DEF LiveRecordHasTask, HasTask
<1>4. CASE Prepares
  <2>1. PICK o \in Operation :
          /\ ops' = Append(ops, o) /\ tasks' = tasks
          /\ \A q \in Phases, m \in Node : o.rec[q][m].status \in {"NONE", "PENDING"}
    BY <1>4 DEF Prepares
  <2>2. /\ Len(ops') = Len(ops) + 1 /\ ops'[Len(ops) + 1] = o
        /\ \A j \in OpIds : ops'[j] = ops[j]
    BY <1>1, <2>1, OperationAppended
  <2>3. k \in OpIds \/ k = Len(ops) + 1
    BY <1>1, <2>2 DEF OpIds
  <2>4. k # Len(ops) + 1
    BY <1>3, <2>1, <2>2 DEF LiveStatus
  <2>5. HasTask(k, p, n)
    BY <1>2, <1>3, <2>2, <2>3, <2>4
  <2> QED
    BY <2>1, <2>5 DEF HasTask, BoundLiveIds, LiveIds, TaskIds
<1>5. CASE Begun
  <2>1. PICK a, q, o, g, nodes : Begins(a, q, o, g, nodes)
    BY <1>5 DEF Begun
  <2>2. /\ a \in OpIds' /\ ops'[a] = q /\ g \in Phases /\ nodes \in SUBSET Node
        /\ OpIds' = OpIds \cup {a} /\ \A j \in OpIds : j # a => ops'[j] = ops[j]
        /\ IsQueued(q, o, g, nodes)
        /\ Grown(tasks', tasks, nodes, PhaseTasks(a, q), Len(ops'))
        /\ a \in OpIds => o.rec = ops[a].rec
        /\ a \notin OpIds =>
             \A h \in Phases, m \in Node : o.rec[h][m].status \in {"NONE", "PENDING"}
    BY <2>1 DEF Begins, BeginsRow
  <2>3. ASSUME k \in OpIds, ops[k].rec[p][n].status \in LiveStatus
        PROVE  HasTask(k, p, n)'
    <3>1. PICK i \in BoundLiveIds(n) : tasks[n][i].op = k /\ tasks[n][i].phase = p
      BY <1>2, <2>3 DEF HasTask
    <3> DEFINE f == PhaseTasks(a, q)
    <3>2. Grown(tasks', tasks, nodes, f, Len(ops'))
      BY <2>2
    <3> HIDE DEF f
    <3>3. i \in TaskIds(n) /\ i \in TaskIds(n)' /\ tasks'[n][i] = tasks[n][i]
      BY <1>1, <2>2, <3>2, GrownServes DEF BoundLiveIds, LiveIds
    <3>4. SameWork(tasks'[n][i], tasks[n][i]) /\ tasks'[n][i].status \in LiveStatus
      BY <3>3 DEF SameWork, BoundLiveIds, LiveIds, IsLive
    <3> QED
      BY <3>1, <3>3, <3>4, TaskServes
  <2>4. CASE k = a /\ p = g /\ n \in nodes
    <3>1. a \in Nat \ {0} /\ q.phase = g
      BY <2>2 DEF OpIds, IsQueued
    <3> QED
      BY <1>1, <2>2, <2>4, <3>1, QueuedServed
  <2>5. CASE k = a /\ ~(p = g /\ n \in nodes)
    <3>1. q.rec[p][n] = o.rec[p][n]
      BY <2>2, <2>5 DEF IsQueued
    <3>2. o.rec[p][n].status \in LiveStatus
      BY <1>3, <2>2, <2>5, <3>1
    <3>3. k \in OpIds
      BY <2>2, <2>5, <3>2 DEF LiveStatus
    <3> QED
      BY <2>2, <2>3, <2>5, <3>2, <3>3
  <2>6. CASE k # a
    BY <1>3, <2>2, <2>3, <2>6
  <2> QED
    BY <2>4, <2>5, <2>6
<1>6. CASE Leasing
  <2>1. PICK m \in Node : \E j \in TaskIds(m) : \E u : ClaimsAs(m, j, u)
    BY <1>6 DEF Leasing
  <2>2. PICK j \in TaskIds(m) : \E u : ClaimsAs(m, j, u)
    BY <2>1
  <2>3. PICK u : ClaimsAs(m, j, u)
    BY <2>2
  <2>4. k \in OpIds /\ ops[k].rec[p][n].status \in LiveStatus
    <3>1. CASE tasks[m][j].op = 0
      BY <1>3, <2>3, <3>1 DEF ClaimsAs, OpIds
    <3>2. CASE tasks[m][j].op # 0
      <4> DEFINE a == tasks[m][j].op
      <4>1. a \in OpIds /\ \E r : RowChanged(a, r) /\ Marked(r, ops[a], m)
        BY <2>3, <3>2 DEF ClaimsAs
      <4>2. PICK r : RowChanged(a, r) /\ Marked(r, ops[a], m)
        BY <4>1
      <4>3. k \in OpIds /\ ops'[k] = IF k = a THEN r ELSE ops[k]
        BY <4>2 DEF RowChanged, OpIds
      <4>4. \/ r.rec[p][n] = ops[a].rec[p][n]
            \/ ops[a].rec[p][n].status = "QUEUED"
        BY <4>2 DEF Marked
      <4> QED
        BY <1>3, <4>3, <4>4 DEF LiveStatus
    <3> QED
      BY <3>1, <3>2
  <2>5. PICK i \in BoundLiveIds(n) : tasks[n][i].op = k /\ tasks[n][i].phase = p
    BY <1>2, <2>4 DEF HasTask
  <2>6. /\ i \in TaskIds(n) /\ tasks[n][i].status \in LiveStatus
        /\ TaskChanged(m, j, u) /\ SameWork(u, tasks[m][j]) /\ u.status = "RUNNING"
    BY <2>3 DEF ClaimsAs, BoundLiveIds, LiveIds, IsLive
  <2>7. i \in TaskIds(n)' /\ tasks'[n][i] = IF n = m /\ i = j THEN u ELSE tasks[n][i]
    BY <2>6 DEF TaskChanged, TaskIds
  <2>8. SameWork(tasks'[n][i], tasks[n][i]) /\ tasks'[n][i].status \in LiveStatus
    BY <2>6, <2>7 DEF SameWork, LiveStatus
  <2> QED
    BY <2>5, <2>7, <2>8, TaskServes
<1>7. CASE Finished
  <2>1. PICK m \in Node, s \in Terminal : \E i \in BoundLiveIds(m) :
          \E a, u, r, ts : EndsAs(m, i, s, a, u, r, ts)
    BY <1>7 DEF Finished
  <2>2. PICK i \in BoundLiveIds(m) : \E a, u, r, ts : EndsAs(m, i, s, a, u, r, ts)
    BY <2>1
  <2>3. PICK a, u, r, ts : EndsAs(m, i, s, a, u, r, ts)
    BY <2>2
  <2>4. /\ a = tasks[m][i].op /\ a \in OpIds /\ tasks[m][i].phase = ops[a].phase
        /\ RowChanged(a, r) /\ Ended(ts, tasks, m, i, s, Len(ops)) /\ i \in TaskIds(m)
    BY <2>3 DEF EndsAs, Becomes, BoundLiveIds, LiveIds
  <2>5. k \in OpIds /\ ops'[k] = IF k = a THEN r ELSE ops[k]
    BY <2>4 DEF RowChanged, OpIds
  <2>6. ASSUME ops[k].rec[p][n].status \in LiveStatus,
               ~(k = a /\ p = ops[a].phase /\ n = m)
        PROVE  HasTask(k, p, n)'
    <3>1. PICK j \in BoundLiveIds(n) : tasks[n][j].op = k /\ tasks[n][j].phase = p
      BY <1>2, <2>5, <2>6 DEF HasTask
    <3>2. ~(n = m /\ j = i) /\ j \in TaskIds(n)
      BY <2>4, <2>6, <3>1 DEF BoundLiveIds, LiveIds
    <3>3. j \in TaskIds(n)' /\ tasks'[n][j] = tasks[n][j]
      BY <1>1, <2>3, <2>4, <3>2, FinishedQueues
    <3>4. SameWork(tasks'[n][j], tasks[n][j]) /\ tasks'[n][j].status \in LiveStatus
      BY <3>3 DEF SameWork, BoundLiveIds, LiveIds, IsLive
    <3> QED
      BY <3>1, <3>3, <3>4, TaskServes
  <2>7. CASE k # a
    BY <1>3, <2>5, <2>6, <2>7
  <2>8. CASE k = a
    <3>1. r.rec[p][n].status \in LiveStatus
      BY <1>3, <2>5, <2>8
    <3>2. CASE ops[a].rec[p][n].status \in LiveStatus /\ ~(p = ops[a].phase /\ n = m)
      BY <2>6, <2>8, <3>2
    <3> DEFINE nodes == PhaseNodes(u, NextPhase(u))
    <3>3. CASE /\ p = r.phase /\ n \in nodes
               /\ Grown(tasks', ts, nodes, PhaseTasks(a, r), Len(ops'))
      <4>1. QueuesOK(ts, Len(ops)) /\ nodes \in SUBSET Node /\ a \in Nat \ {0}
        BY <2>4 DEF Ended, PhaseNodes, OpIds
      <4> HIDE DEF nodes
      <4> QED
        BY <2>8, <3>3, <4>1, QueuedServed
    <3>4. \/ ops[a].rec[p][n].status \in LiveStatus /\ ~(p = ops[a].phase /\ n = m)
          \/ /\ p = r.phase /\ n \in nodes
             /\ Grown(tasks', ts, nodes, PhaseTasks(a, r), Len(ops'))
      BY <2>3, <3>1, FinishedRecords
    <3> QED
      BY <3>2, <3>3, <3>4
  <2> QED
    BY <2>7, <2>8
<1>8. CASE Others
  <2>1. Unbound
    BY <1>8, OthersUnbound DEF Consistent, CurrentInv
  <2>2. k \in OpIds /\ ops' = ops
    BY <2>1 DEF Unbound, OpIds
  <2>3. PICK i \in BoundLiveIds(n) : tasks[n][i].op = k /\ tasks[n][i].phase = p
    BY <1>2, <1>3, <2>2 DEF HasTask
  <2>4. /\ i \in TaskIds(n)' /\ SameWork(tasks'[n][i], tasks[n][i])
        /\ tasks'[n][i].status \in LiveStatus
    BY <2>1 DEF Unbound, BoundLiveIds, LiveIds, IsLive
  <2> QED
    BY <2>3, <2>4, TaskServes
<1> QED
  BY <1>4, <1>5, <1>6, <1>7, <1>8, RowSteps DEF Consistent

(* Records, tasks, operations and deployment rows agree: no record in flight    *)
(* waits for a task that does not exist, no bulk stays active without work, no *)
(* busy status without its operation, no evidence the status contradicts.     *)
THEOREM RowsInAgreement == Spec => []RowsAgree
<1>1. Init => LiveRecordHasTask
  BY DEF Init, LiveRecordHasTask, OpIds
<1>2. Consistent /\ LiveRecordHasTask /\ [Next]_vars => LiveRecordHasTask'
  BY ServedStep
<1>3. Spec => []LiveRecordHasTask
  BY <1>1, <1>2, ConsistentInvariant, PTL DEF Spec
<1>4. LiveRecordHasTask /\ ActiveGenericHasWork /\ Consistent => RowsAgree
  BY DEF RowsAgree, Consistent, GenerationsAgree
<1> QED
  BY <1>3, <1>4, GenericHasWork, ConsistentInvariant, PTL

----------------------------------------------------------------------------
(* Deployment tasks keep off each other's nodes                               *)

TasksTyped == \A n \in Node : \A i \in TaskIds(n) : TaskTyped(tasks[n][i])

(* Old tasks stay the same work and never come back to life, new ones carry out *)
(* a phase.                                                                  *)
TasksFollow ==
  \A n \in Node : \A i \in TaskIds(n)' :
    \/ /\ i \in TaskIds(n) /\ SameWork(tasks'[n][i], tasks[n][i])
       /\ i \in LiveIds(n)' => i \in LiveIds(n)
    \/ tasks'[n][i].op # 0 /\ tasks'[n][i].type # "UNJOIN"

(* An operation is active after the step only if it was before, or if none of   *)
(* its nodes had a START, STOP or RESTART.                                    *)
ActiveFollow ==
  \A k \in OpIds' : ops'[k].active =>
    \/ k \in OpIds /\ ops[k].active /\ ops'[k].nodes = ops[k].nodes
    \/ \A n \in ops'[k].nodes : \A i \in LiveIds(n) : ~Untracked(tasks[n][i])

(* Such a step keeps the tasks that no operation tracks alone.                 *)
LEMMA AloneKept ==
  ASSUME TasksTyped, DirectAlone, TasksFollow, ActiveFollow
  PROVE  TasksTyped' /\ DirectAlone'
<1>1. TasksTyped'
  BY DEF TasksTyped, TasksFollow, TaskTyped, SameWork
<1>2. ASSUME NEW n \in Node, NEW i \in LiveIds(n)', Untracked(tasks'[n][i])
      PROVE  i \in LiveIds(n) /\ Untracked(tasks[n][i])
  <2>1. i \in TaskIds(n)'
    BY DEF LiveIds
  <2> QED
    BY <1>2, <2>1 DEF TasksFollow, Untracked, SameWork
<1>3. DirectAlone'
  <2> SUFFICES ASSUME NEW n \in Node, NEW i \in LiveIds(n)', Untracked(tasks'[n][i])
               PROVE  /\ \A k \in OpIds' : ops'[k].active => n \notin ops'[k].nodes
                      /\ \A j \in LiveIds(n)' : Untracked(tasks'[n][j]) => i = j
    BY DEF DirectAlone
  <2>1. i \in LiveIds(n) /\ Untracked(tasks[n][i])
    BY <1>2
  <2>2. \A k \in OpIds' : ops'[k].active => n \notin ops'[k].nodes
    BY <2>1 DEF ActiveFollow, DirectAlone
  <2>3. \A j \in LiveIds(n)' : Untracked(tasks'[n][j]) => i = j
    BY <1>2, <2>1 DEF DirectAlone
  <2> QED
    BY <2>2, <2>3
<1> QED
  BY <1>1, <1>3

(* The tasks of queues that have grown. *)
LEMMA GrownTasks ==
  ASSUME NEW ts, NEW nodes \in SUBSET Node, NEW f, NEW m,
         QueuesOK(ts, Len(ops)), Grown(tasks', ts, nodes, f, m),
         \A n \in Node : Len(ts[n]) = Len(tasks[n]),
         NEW n \in Node, NEW i \in TaskIds(n)'
  PROVE  \/ i \in TaskIds(n) /\ tasks'[n][i] = ts[n][i]
         \/ n \in nodes /\ i = Len(tasks[n]) + 1 /\ tasks'[n][i] = f[n]
<1>1. /\ Len(ts[n]) \in Nat /\ i \in 1 .. Len(tasks'[n])
      /\ Len(tasks'[n]) = IF n \in nodes THEN Len(ts[n]) + 1 ELSE Len(ts[n])
      /\ \A j \in 1 .. Len(ts[n]) : tasks'[n][j] = ts[n][j]
      /\ n \in nodes => tasks'[n][Len(ts[n]) + 1] = f[n]
  BY LenProperties DEF QueuesOK, Grown, TaskIds
<1>2. i \in 1 .. Len(ts[n]) \/ (n \in nodes /\ i = Len(ts[n]) + 1)
  BY <1>1
<1> QED
  BY <1>1, <1>2 DEF TaskIds

(* A task of a phase is neither an UNJOIN nor untracked. *)
LEMMA PhaseTaskBound ==
  ASSUME NEW k \in Nat \ {0}, NEW q, q.phase \in Phases, NEW n \in Node
  PROVE  PhaseTasks(k, q)[n].op # 0 /\ PhaseTasks(k, q)[n].type # "UNJOIN"
<1>1. PhaseTaskType[q.phase] # "UNJOIN"
  BY DEF PhaseTaskType, Phases
<1> QED
  BY <1>1 DEF PhaseTasks, PhaseTask

(* Every step but a direct request follows. *)
LEMMA FollowStep ==
  ASSUME Consistent, TasksTyped, DirectAlone, [Next]_vars
  PROVE  \/ TasksFollow /\ ActiveFollow
         \/ \E type \in DirectTypes, d \in Deployment, nodes \in SUBSET Node :
              CreateDirect(type, d, nodes)
         \/ \E n \in Node : CreateUnjoin(n)
<1>1. /\ TypeOK /\ Len(ops) \in Nat /\ QueuesOK(tasks, Len(ops))
      /\ \A k \in OpIds : ops[k] \in Operation
  BY ConsistentParts, Tables
<1>2. ASSUME tasks' = tasks
      PROVE  TasksFollow
  BY <1>2 DEF TasksFollow, TaskIds, LiveIds, SameWork
<1>3. ASSUME ops' = ops
      PROVE  ActiveFollow
  BY <1>3 DEF ActiveFollow, OpIds
<1>4. CASE Prepares
  <2>1. PICK o \in Operation : /\ ops' = Append(ops, o) /\ tasks' = tasks /\ o.active = FALSE
    BY <1>4 DEF Prepares
  <2>2. /\ Len(ops') = Len(ops) + 1 /\ ops'[Len(ops) + 1] = o
        /\ \A j \in OpIds : ops'[j] = ops[j]
    BY <1>1, <2>1, OperationAppended
  <2>3. \A k \in OpIds' : k \in OpIds \/ k = Len(ops) + 1
    BY <1>1, <2>2 DEF OpIds
  <2>4. ActiveFollow
    BY <2>1, <2>2, <2>3 DEF ActiveFollow
  <2> QED
    BY <1>2, <2>1, <2>4
<1>5. CASE Begun
  <2>1. PICK k, q, o, p, nodes : Begins(k, q, o, p, nodes)
    BY <1>5 DEF Begun
  <2> DEFINE f == PhaseTasks(k, q)
  <2>2. /\ k \in OpIds' /\ ops'[k] = q /\ q.phase \in Phases /\ nodes \in SUBSET Node
        /\ OpIds' = OpIds \cup {k} /\ \A j \in OpIds : j # k => ops'[j] = ops[j]
        /\ SameScope(q, o) /\ Grown(tasks', tasks, nodes, f, Len(ops'))
        /\ k \in OpIds => SameRequest(o, ops[k])
        /\ \/ k \in OpIds /\ ops[k].active
           \/ \A n \in o.nodes : \A i \in LiveIds(n) : ~Untracked(tasks[n][i])
    BY <2>1 DEF Begins, BeginsRow, BeginsAlone, IsQueued
  <2>3. ActiveFollow
    BY <2>2 DEF ActiveFollow, SameScope, SameRequest
  <2>4. k \in Nat \ {0}
    BY <2>2 DEF OpIds
  <2>5. \A n \in Node : f[n].op # 0 /\ f[n].type # "UNJOIN"
    BY <2>2, <2>4, PhaseTaskBound
  <2> HIDE DEF f
  <2>6. TasksFollow
    <3>1. ASSUME NEW n \in Node, NEW i \in TaskIds(n)'
          PROVE  \/ i \in TaskIds(n) /\ tasks'[n][i] = tasks[n][i]
                 \/ tasks'[n][i].op # 0 /\ tasks'[n][i].type # "UNJOIN"
      <4>1. \/ i \in TaskIds(n) /\ tasks'[n][i] = tasks[n][i]
            \/ n \in nodes /\ i = Len(tasks[n]) + 1 /\ tasks'[n][i] = f[n]
        <5> DEFINE m == Len(ops')
        <5>1. Grown(tasks', tasks, nodes, f, m) /\ nodes \in SUBSET Node
          BY <2>2
        <5> HIDE DEF m
        <5> QED
          BY <1>1, <5>1, GrownTasks
      <4> QED
        BY <2>5, <4>1
    <3> QED
      BY <3>1 DEF TasksFollow, SameWork, LiveIds
  <2> QED
    BY <2>3, <2>6
<1>6. CASE Leasing
  <2>1. PICK m \in Node : \E j \in TaskIds(m) : \E u : ClaimsAs(m, j, u)
    BY <1>6 DEF Leasing
  <2>2. PICK j \in TaskIds(m) : \E u : ClaimsAs(m, j, u)
    BY <2>1
  <2>3. PICK u : ClaimsAs(m, j, u)
    BY <2>2
  <2>4. TasksFollow
    <3>1. /\ j \in LiveIds(m) /\ TaskChanged(m, j, u) /\ SameWork(u, tasks[m][j])
      BY <2>3 DEF ClaimsAs
    <3>2. \A n \in Node : TaskIds(n)' = TaskIds(n)
      BY <3>1 DEF TaskChanged, TaskIds
    <3>3. \A n \in Node : \A i \in TaskIds(n) :
            tasks'[n][i] = tasks[n][i] \/ (n = m /\ i = j /\ tasks'[n][i] = u)
      BY <3>1 DEF TaskChanged
    <3> QED
      BY <3>1, <3>2, <3>3 DEF TasksFollow, SameWork, LiveIds
  <2>5. ActiveFollow
    <3>1. CASE tasks[m][j].op = 0
      BY <1>3, <2>3, <3>1 DEF ClaimsAs
    <3>2. CASE tasks[m][j].op # 0
      <4>1. \E a \in OpIds : \E r : RowChanged(a, r) /\ Marked(r, ops[a], m)
        BY <2>3, <3>2 DEF ClaimsAs
      <4>2. PICK a \in OpIds : \E r : RowChanged(a, r) /\ Marked(r, ops[a], m)
        BY <4>1
      <4>3. PICK r : RowChanged(a, r) /\ Marked(r, ops[a], m)
        BY <4>2
      <4> QED
        BY <4>3 DEF RowChanged, OpIds, Marked, SameRequest, ActiveFollow
    <3> QED
      BY <3>1, <3>2
  <2> QED
    BY <2>4, <2>5
<1>7. CASE Finished
  <2>1. PICK m \in Node, s \in Terminal : \E i \in BoundLiveIds(m) :
          \E a, u, r, ts : EndsAs(m, i, s, a, u, r, ts)
    BY <1>7 DEF Finished
  <2>2. PICK j \in BoundLiveIds(m) : \E a, u, r, ts : EndsAs(m, j, s, a, u, r, ts)
    BY <2>1
  <2>3. PICK a, u, r, ts : EndsAs(m, j, s, a, u, r, ts)
    BY <2>2
  <2>4. /\ a \in OpIds /\ ops[a].active = TRUE /\ RowChanged(a, r) /\ r \in Operation
        /\ Becomes(a, r, u, ts) /\ Ended(ts, tasks, m, j, s, Len(ops))
        /\ j \in TaskIds(m) /\ IsOutcome(u, ops[a], ops[a].phase, m, s)
    BY <2>3 DEF EndsAs, Becomes, BoundLiveIds, LiveIds
  <2>5. ActiveFollow
    <3>1. r.nodes = u.nodes /\ u.nodes = ops[a].nodes
      BY <2>4 DEF Becomes, RowFails, RowWaits, RowCompletes, RowGated, RowAdvances,
                  IsQueued, SameScope, SameRequest, IsOutcome
    <3> QED
      BY <2>4, <3>1 DEF RowChanged, OpIds, ActiveFollow
  <2>6. ASSUME NEW n \in Node, NEW i \in TaskIds(n)', i \in TaskIds(n)
        PROVE  /\ SameWork(tasks'[n][i], tasks[n][i])
               /\ i \in LiveIds(n)' => i \in LiveIds(n)
    <3>1. CASE n = m /\ i = j
      BY <1>1, <2>2, <2>3, <2>4, <3>1, FinishedQueues DEF BoundLiveIds
    <3>2. CASE ~(n = m /\ i = j)
      <4>1. tasks'[n][i] = tasks[n][i]
        BY <1>1, <2>3, <2>4, <2>6, <3>2, FinishedQueues
      <4> QED
        BY <2>6, <4>1 DEF SameWork, LiveIds
    <3> QED
      BY <3>1, <3>2
  <2>7. ASSUME NEW n \in Node, NEW i \in TaskIds(n)', i \notin TaskIds(n)
        PROVE  tasks'[n][i].op # 0 /\ tasks'[n][i].type # "UNJOIN"
    <3> DEFINE p == NextPhase(u)
               nodes == PhaseNodes(u, p)
               f == PhaseTasks(a, r)
    <3>1. QueuesOK(ts, Len(ops)) /\ \A q \in Node : Len(ts[q]) = Len(tasks[q])
      BY <2>4 DEF Ended
    <3>2. tasks' # ts
      BY <2>7, <3>1 DEF TaskIds
    <3>3. /\ Grown(tasks', ts, nodes, f, Len(ops')) /\ nodes \in SUBSET Node
          /\ r.phase \in Phases
      BY <2>4, <3>2 DEF Becomes, PhaseNodes, RowAdvances, IsQueued
    <3>4. f[n].op # 0 /\ f[n].type # "UNJOIN"
      BY <2>4, <3>3, PhaseTaskBound DEF OpIds
    <3> HIDE DEF nodes, f
    <3>5. \/ i \in TaskIds(n) /\ tasks'[n][i] = ts[n][i]
          \/ n \in nodes /\ i = Len(tasks[n]) + 1 /\ tasks'[n][i] = f[n]
      BY <3>1, <3>3, GrownTasks
    <3> QED
      BY <2>7, <3>4, <3>5
  <2>8. TasksFollow
    BY <2>6, <2>7 DEF TasksFollow
  <2> QED
    BY <2>5, <2>8
<1>8. CASE Quiet
  BY <1>3, <1>8 DEF Quiet, Unbound, TasksFollow, LiveIds, IsLive, LiveStatus, Terminal
<1>9. ASSUME NEW d \in Deployment, Accept(d)
      PROVE  TasksFollow /\ ActiveFollow
  BY <1>2, <1>3, <1>9 DEF Accept
<1> QED
  BY <1>4, <1>5, <1>6, <1>7, <1>8, <1>9, RowSteps DEF Consistent, Others

(* A START, STOP or RESTART is the first live task of nodes that no operation   *)
(* uses (_ensure_deployment_node_scope_available).                            *)
LEMMA DirectAdded ==
  ASSUME Consistent, TasksTyped, DirectAlone, NEW type \in DirectTypes \cup {"UNJOIN"},
         NEW d \in Deployment \cup {NoDeployment}, NEW nodes \in SUBSET Node,
         Grown(tasks', tasks, nodes, DirectTasks(type, d), Len(ops)), ops' = ops,
         NodesIdle(nodes)
  PROVE  TasksTyped' /\ DirectAlone'
<1> DEFINE f == DirectTasks(type, d)
<1>1. TypeOK /\ QueuesOK(tasks, Len(ops))
  BY ConsistentParts, Tables
<1>2. \A n \in Node : f[n].op = 0 /\ f[n].type = type
  BY DEF DirectTasks, Direct
<1>3. Grown(tasks', tasks, nodes, f, Len(ops))
  OBVIOUS
<1> HIDE DEF f
<1>4. ASSUME NEW n \in Node, NEW i \in TaskIds(n)'
      PROVE  \/ i \in TaskIds(n) /\ tasks'[n][i] = tasks[n][i]
             \/ n \in nodes /\ i = Len(tasks[n]) + 1 /\ tasks'[n][i] = f[n]
  BY <1>1, <1>3, GrownTasks
<1>5. TasksTyped'
  <2> SUFFICES ASSUME NEW n \in Node, NEW i \in TaskIds(n)' PROVE TaskTyped(tasks'[n][i])
    BY DEF TasksTyped
  <2>1. CASE i \in TaskIds(n) /\ tasks'[n][i] = tasks[n][i]
    BY <2>1 DEF TasksTyped
  <2>2. CASE n \in nodes /\ tasks'[n][i] = f[n]
    BY <1>2, <2>2 DEF TaskTyped
  <2> QED
    BY <1>4, <2>1, <2>2
<1>6. ASSUME NEW n \in Node, NEW i \in LiveIds(n)'
      PROVE  \/ i \in LiveIds(n) /\ tasks'[n][i] = tasks[n][i]
             \/ n \in nodes /\ i = Len(tasks[n]) + 1
  BY <1>4 DEF LiveIds
<1>7. /\ \A n \in nodes : LiveIds(n) = {}
      /\ \A k \in OpIds : ops[k].active => ops[k].nodes \cap nodes = {}
  BY DEF NodesIdle, OpIds
<1>8. DirectAlone'
  <2> SUFFICES ASSUME NEW n \in Node, NEW i \in LiveIds(n)', Untracked(tasks'[n][i])
               PROVE  /\ \A k \in OpIds' : ops'[k].active => n \notin ops'[k].nodes
                      /\ \A j \in LiveIds(n)' : Untracked(tasks'[n][j]) => i = j
    BY DEF DirectAlone
  <2>1. CASE n \in nodes
    <3>1. \A j \in LiveIds(n)' : j = Len(tasks[n]) + 1
      BY <1>6, <1>7, <2>1
    <3> QED
      BY <1>7, <2>1, <3>1 DEF OpIds
  <2>2. CASE n \notin nodes
    <3>1. \A j \in LiveIds(n)' : j \in LiveIds(n) /\ tasks'[n][j] = tasks[n][j]
      BY <1>6, <2>2
    <3> QED
      BY <3>1 DEF DirectAlone, OpIds
  <2> QED
    BY <2>1, <2>2
<1> QED
  BY <1>5, <1>8

(* No step puts a deployment task beside one that no operation tracks.         *)
LEMMA AloneStep ==
  ASSUME Consistent, TasksTyped, DirectAlone, [Next]_vars
  PROVE  TasksTyped' /\ DirectAlone'
<1>1. TypeOK
  BY ConsistentParts
<1>2. ASSUME NEW type \in DirectTypes, NEW d \in Deployment, NEW nodes \in SUBSET Node,
             CreateDirect(type, d, nodes)
      PROVE  TasksTyped' /\ DirectAlone'
  <2>1. Grown(tasks', tasks, nodes, DirectTasks(type, d), Len(ops))
    BY <1>1, <1>2, CreateDirectStep
  <2>2. ops' = ops /\ NodesIdle(nodes)
    BY <1>2 DEF CreateDirect
  <2> QED
    BY <2>1, <2>2, DirectAdded
<1>3. ASSUME NEW n \in Node, CreateUnjoin(n)
      PROVE  TasksTyped' /\ DirectAlone'
  <2>1. Grown(tasks', tasks, {n}, DirectTasks("UNJOIN", NoDeployment), Len(ops))
    BY <1>1, <1>3, CreateUnjoinStep
  <2>2. ops' = ops /\ NodesIdle({n}) /\ {n} \in SUBSET Node
    BY <1>3 DEF CreateUnjoin
  <2> QED
    BY <2>1, <2>2, DirectAdded
<1> QED
  BY <1>2, <1>3, AloneKept, FollowStep

(* A live task of an operation is on one of the operation's nodes, the head     *)
(* that serves the API included.                                             *)
LEMMA TaskInScope ==
  ASSUME Consistent, NEW n \in Node, NEW i \in BoundLiveIds(n)
  PROVE  /\ tasks[n][i].op \in OpIds /\ ops[tasks[n][i].op].active
         /\ n \in ops[tasks[n][i].op].nodes
<1> DEFINE t == tasks[n][i]
           o == ops[t.op]
<1>1. TypeOK /\ Good(n, t) /\ t.op # 0 /\ i \in TaskIds(n)
  BY GoodTasks DEF Consistent, CurrentInv, TypeInv, BoundLiveIds, LiveIds
<1>2. t.op \in OpIds /\ o.active /\ o.rec[t.phase][n].status = t.status
  BY <1>1 DEF Good
<1>3. t.phase \in Phases /\ t.status # "NONE"
  BY <1>1, BoundTask DEF BoundLiveIds, LiveIds, IsLive, LiveStatus
<1>4. o \in Operation /\ RowInv(o) /\ ScopeOK(o)
  BY <1>2, ConsistentParts
<1> HIDE DEF o
<1>5. HasRecord(o, t.phase, n)
  BY <1>2, <1>3, <1>4 DEF RowInv, RecordsExist
<1>6. CASE t.phase \in ApiPhases
  <2>1. o.serve /\ n = HeadNode[Served(o)] /\ o.nodes = Assigned[o.dep]
    BY <1>4, <1>5, <1>6 DEF HasRecord, ScopeOK
  <2>2. HeadNode[Served(o)] \in Assigned[Served(o)]
    BY <1>4, OperationFields, PlanAssumption DEF Served
  <2>3. Assigned[Served(o)] = Assigned[o.dep]
    BY <1>4, OperationFields DEF Served, ScopeOK
  <2> QED
    BY <1>2, <2>1, <2>2, <2>3 DEF o
<1>7. CASE t.phase \notin ApiPhases
  BY <1>2, <1>5, <1>7 DEF HasRecord, o
<1> QED
  BY <1>6, <1>7

(* Two deployment tasks are never pending on one node, and a node of an active   *)
(* operation carries only that operation's: create_tasks,                    *)
(* _activate_operation and _queue_phase check it separately.                 *)
THEOREM TasksExclusive == Spec => []DeploymentTasksExclusive
<1>1. Init => TasksTyped /\ DirectAlone
  <2> SUFFICES ASSUME Init PROVE \A n \in Node : TaskIds(n) = {} /\ LiveIds(n) = {}
    BY DEF TasksTyped, DirectAlone
  <2> QED
    BY DEF Init, TaskIds, LiveIds
<1>2. Consistent /\ TasksTyped /\ DirectAlone /\ [Next]_vars => TasksTyped' /\ DirectAlone'
  BY AloneStep
<1>3. Spec => [](TasksTyped /\ DirectAlone)
  BY <1>1, <1>2, ConsistentInvariant, PTL DEF Spec
<1>4. Consistent /\ TasksTyped /\ DirectAlone => DeploymentTasksExclusive
  <2> SUFFICES ASSUME Consistent, TasksTyped, DirectAlone, NEW n \in Node,
                      NEW i \in LiveIds(n), NEW j \in LiveIds(n),
                      tasks[n][i].type # "UNJOIN"
               PROVE  /\ tasks[n][j].type # "UNJOIN" => i = j
                      /\ \A k \in OpIds : ops[k].active /\ n \in ops[k].nodes
                                            => tasks[n][i].op = k
    BY DEF DeploymentTasksExclusive
  <2>1. ASSUME NEW a \in LiveIds(n), tasks[n][a].type # "UNJOIN"
        PROVE  \/ Untracked(tasks[n][a])
               \/ /\ a \in BoundLiveIds(n) /\ tasks[n][a].op \in OpIds
                  /\ ops[tasks[n][a].op].active /\ n \in ops[tasks[n][a].op].nodes
    BY <2>1, TaskInScope DEF TasksTyped, TaskTyped, Untracked, LiveIds, BoundLiveIds
  <2>2. \A k, l \in OpIds : ops[k].active /\ n \in ops[k].nodes
                            /\ ops[l].active /\ n \in ops[l].nodes => k = l
    BY DEF Consistent, ActiveOperationsDisjoint
  <2>3. \A k \in OpIds : ops[k].active /\ n \in ops[k].nodes => tasks[n][i].op = k
    BY <2>1, <2>2 DEF DirectAlone
  <2>4. tasks[n][j].type # "UNJOIN" => i = j
    <3> SUFFICES ASSUME tasks[n][j].type # "UNJOIN" PROVE i = j
      OBVIOUS
    <3>1. CASE Untracked(tasks[n][i]) \/ Untracked(tasks[n][j])
      <4>1. Untracked(tasks[n][i]) /\ Untracked(tasks[n][j])
        BY <2>1, <3>1 DEF DirectAlone
      <4> QED
        BY <4>1 DEF DirectAlone
    <3>2. CASE ~Untracked(tasks[n][i]) /\ ~Untracked(tasks[n][j])
      <4>1. tasks[n][i].op = tasks[n][j].op /\ i \in BoundLiveIds(n) /\ j \in BoundLiveIds(n)
        BY <2>1, <2>2, <3>2
      <4> QED
        BY <4>1 DEF Consistent, CurrentInv, OneTaskPerRecord
    <3> QED
      BY <3>1, <3>2
  <2> QED
    BY <2>3, <2>4
<1> QED
  BY <1>3, <1>4, ConsistentInvariant, PTL

----------------------------------------------------------------------------
(* What a step may not do                                                     *)

(* A task that has ended is left alone, and the attempt whose lease has run out *)
(* can only end.                                                             *)
LEMMA FixedTasks ==
  ASSUME Consistent, [Next]_vars, NEW n \in Node, NEW i \in TaskIds(n), Fixed(tasks[n][i])
  PROVE  \/ tasks'[n][i] = tasks[n][i]
         \/ i \in LiveIds(n) /\ tasks'[n][i].status \in Terminal
<1>1. /\ TypeOK /\ QueuesOK(tasks, Len(ops)) /\ TypeInv
  BY ConsistentParts, Tables DEF Consistent, CurrentInv
<1>2. CASE Prepares
  BY <1>2 DEF Prepares
<1>3. CASE Begun
  <2>1. PICK k, q, o, p, nodes : Begins(k, q, o, p, nodes)
    BY <1>3 DEF Begun
  <2> DEFINE f == PhaseTasks(k, q)
             m == Len(ops')
  <2>2. Grown(tasks', tasks, nodes, f, m) /\ nodes \in SUBSET Node
    BY <2>1 DEF Begins, BeginsRow
  <2> HIDE DEF f, m
  <2> QED
    BY <1>1, <2>2, GrownServes
<1>4. CASE Leasing
  <2>1. PICK m \in Node : \E j \in TaskIds(m) : \E u : ClaimsAs(m, j, u)
    BY <1>4 DEF Leasing
  <2>2. PICK j \in TaskIds(m) : \E u : ClaimsAs(m, j, u)
    BY <2>1
  <2>3. PICK u : ClaimsAs(m, j, u)
    BY <2>2
  <2>4. ~Fixed(tasks[m][j]) /\ TaskChanged(m, j, u)
    BY <2>3 DEF ClaimsAs, Fixed, LiveIds, IsLive, LiveStatus, Terminal
  <2> QED
    BY <2>4 DEF TaskChanged
<1>5. CASE Finished
  <2>1. PICK m \in Node, s \in Terminal : \E j \in BoundLiveIds(m) :
          \E a, u, r, ts : EndsAs(m, j, s, a, u, r, ts)
    BY <1>5 DEF Finished
  <2>2. PICK j \in BoundLiveIds(m) : \E a, u, r, ts : EndsAs(m, j, s, a, u, r, ts)
    BY <2>1
  <2>3. PICK a, u, r, ts : EndsAs(m, j, s, a, u, r, ts)
    BY <2>2
  <2>4. j \in LiveIds(m) /\ j \in TaskIds(m)
    BY DEF BoundLiveIds, LiveIds
  <2>5. /\ ~(n = m /\ i = j) => tasks'[n][i] = tasks[n][i]
        /\ n = m /\ i = j => tasks'[n][i].status = s
    BY <1>1, <2>3, <2>4, FinishedQueues
  <2> QED
    BY <2>4, <2>5
<1>6. CASE Others
  <2>1. Unbound
    BY <1>1, <1>6, OthersUnbound
  <2> QED
    BY <2>1 DEF Unbound
<1> QED
  BY <1>2, <1>3, <1>4, <1>5, <1>6, RowSteps DEF Consistent

(* An expired attempt is never leased or renewed again, by whatever interleaving *)
(* of claims, extensions and reports (claim_task, extend_task).               *)
THEOREM ExpiredStaysExpired == Spec => ExpiredAttemptNeverRevived
<1> DEFINE Step ==
      \A n \in Node : \A i \in BoundLiveIds(n) :
        HasExpired(tasks[n][i]) =>
          \/ tasks'[n][i] = tasks[n][i]
          \/ tasks'[n][i].status \in Terminal
<1>1. Consistent /\ [Next]_vars => [Step]_vars
  <2> SUFFICES ASSUME Consistent, [Next]_vars PROVE Step
    OBVIOUS
  <2> SUFFICES ASSUME NEW n \in Node, NEW i \in BoundLiveIds(n), HasExpired(tasks[n][i])
               PROVE  tasks'[n][i] = tasks[n][i] \/ tasks'[n][i].status \in Terminal
    OBVIOUS
  <2>1. i \in TaskIds(n) /\ Fixed(tasks[n][i])
    BY DEF BoundLiveIds, LiveIds, Fixed
  <2> QED
    BY <2>1, FixedTasks
<1> QED
  BY <1>1, ConsistentInvariant, PTL DEF Spec, ExpiredAttemptNeverRevived

(* How a record may change in one step.                                        *)
RecordMoves(r, s) ==
  /\ r.status = "SUCCEEDED" => s = r
  /\ r.status \in Terminal /\ s # r => s.status = "QUEUED" /\ s.attempt = r.attempt + 1

(* What the end of a task does to the records of its row: only its own, not yet  *)
(* ended, and those of a phase that has not begun.                           *)
LEMMA FinishedMoves ==
  ASSUME NEW n \in Node, NEW i, NEW s \in Terminal, NEW k, NEW u, NEW r, NEW ts,
         EndsAs(n, i, s, k, u, r, ts), NEW p \in Phases, NEW m \in Node
  PROVE  RecordMoves(ops[k].rec[p][m], r.rec[p][m])
<1> DEFINE o == ops[k]
<1>1. /\ o \in Operation /\ RowInv(o) /\ o.phase \in Phases /\ o.status # "PREPARED"
      /\ o.rec[o.phase][n].status \in LiveStatus /\ IsOutcome(u, o, o.phase, n, s)
      /\ Becomes(k, r, u, ts)
  BY DEF EndsAs
<1> HIDE DEF o
<1>2. /\ u \in Operation /\ SameRequest(u, o) /\ u.phase = o.phase
      /\ RecordsInOrder(u) /\ RecordsExist(u) /\ ScopeOK(u) /\ PhaseOK(u)
      /\ NextPhase(u) = NextPhase(o)
  BY <1>1, RowEnded
<1>3. u.rec[p][m] = o.rec[p][m] \/ o.rec[p][m].status \in LiveStatus
  BY <1>1 DEF IsOutcome
<1>4. CASE RowFails(r, u) \/ RowWaits(r, u) \/ RowCompletes(r, u)
  <2>1. r.rec = u.rec
    BY <1>4 DEF RowFails, RowWaits, RowCompletes
  <2> QED
    BY <1>3, <2>1 DEF RecordMoves, LiveStatus, Terminal, o
<1>5. CASE RowGated(r, u) \/ RowAdvances(r, u)
  <2> DEFINE q == NextPhase(u)
  <2>1. q \in Phases /\ (r.rec[p][m] = u.rec[p][m] \/ (p = q /\ u.rec[p][m].status # "NONE"))
    <3>1. CASE RowAdvances(r, u)
      <4>1. q \in Phases /\ IsQueued(r, u, q, PhaseNodes(u, q))
        BY <3>1 DEF RowAdvances
      <4> HIDE DEF q
      <4>2. CASE p = q /\ m \in PhaseNodes(u, q)
        BY <4>1, <4>2 DEF PhaseNodes
      <4>3. CASE ~(p = q /\ m \in PhaseNodes(u, q))
        BY <4>1, <4>3 DEF IsQueued
      <4> QED
        BY <4>2, <4>3
    <3>2. CASE RowGated(r, u)
      BY <3>2 DEF RowGated, PhaseNodes, Phases
    <3> QED
      BY <1>5, <3>1, <3>2
  <2>2. PhaseIndex[u.phase] < PhaseIndex[q]
    BY <1>1, <1>2, NextPhaseOrder
  <2> HIDE DEF q
  <2>3. p = q => u.rec[p][m].status \in {"NONE", "PENDING"}
    BY <1>2, <2>1, <2>2, PhaseOrder DEF RecordsInOrder
  <2> QED
    BY <1>3, <2>1, <2>3 DEF RecordMoves, LiveStatus, Terminal, o
<1> QED
  BY <1>1, <1>4, <1>5 DEF Becomes

(* What a step does to the records. *)
LEMMA RecordsMove ==
  ASSUME Consistent, [Next]_vars, NEW k \in OpIds, NEW p \in Phases, NEW n \in Node
  PROVE  RecordMoves(ops[k].rec[p][n], ops'[k].rec[p][n])
<1>1. /\ TypeOK /\ Len(ops) \in Nat /\ TypeInv /\ ops[k] \in Operation
  BY ConsistentParts DEF Consistent, CurrentInv
<1>2. ASSUME ops'[k].rec[p][n] = ops[k].rec[p][n]
      PROVE  RecordMoves(ops[k].rec[p][n], ops'[k].rec[p][n])
  BY <1>2 DEF RecordMoves
<1>3. CASE Prepares
  <2>1. PICK o \in Operation : ops' = Append(ops, o)
    BY <1>3 DEF Prepares
  <2>2. \A j \in OpIds : ops'[j] = ops[j]
    BY <1>1, <2>1, OperationAppended
  <2> QED
    BY <1>2, <2>2
<1>4. CASE Begun
  <2>1. PICK a, q, o, g, nodes : Begins(a, q, o, g, nodes)
    BY <1>4 DEF Begun
  <2>2. /\ ops'[a] = q /\ IsQueued(q, o, g, nodes)
        /\ \A j \in OpIds : j # a => ops'[j] = ops[j]
        /\ a \in OpIds =>
             /\ o.rec = ops[a].rec
             /\ \A m \in nodes : ops[a].rec[g][m].status \in Failed \cup {"PENDING"}
    BY <2>1 DEF Begins, BeginsRow
  <2>3. CASE k = a /\ p = g /\ n \in nodes
    <3>1. ops'[k].rec[p][n] = [status |-> "QUEUED", attempt |-> ops[k].rec[p][n].attempt + 1]
      BY <2>2, <2>3 DEF IsQueued
    <3>2. ops[k].rec[p][n].status \in Failed \cup {"PENDING"}
      BY <2>2, <2>3
    <3> DEFINE x == ops'[k].rec[p][n]
    <3>3. x.status = "QUEUED" /\ x.attempt = ops[k].rec[p][n].attempt + 1
      BY <3>1
    <3> QED
      BY <3>2, <3>3 DEF RecordMoves, Failed
  <2>4. CASE ~(k = a /\ p = g /\ n \in nodes)
    <3>1. CASE k = a
      <4>1. q.rec[p][n] = o.rec[p][n] /\ o.rec = ops[a].rec
        BY <2>2, <2>4, <3>1 DEF IsQueued
      <4>2. ops'[k].rec[p][n] = ops[k].rec[p][n]
        BY <2>2, <3>1, <4>1
      <4> QED
        BY <1>2, <4>2
    <3>2. CASE k # a
      BY <1>2, <2>2, <3>2
    <3> QED
      BY <3>1, <3>2
  <2> QED
    BY <2>3, <2>4
<1>5. CASE Leasing
  <2>1. PICK m \in Node : \E j \in TaskIds(m) : \E u : ClaimsAs(m, j, u)
    BY <1>5 DEF Leasing
  <2>2. PICK j \in TaskIds(m) : \E u : ClaimsAs(m, j, u)
    BY <2>1
  <2>3. PICK u : ClaimsAs(m, j, u)
    BY <2>2
  <2>4. CASE tasks[m][j].op = 0
    BY <1>2, <2>3, <2>4 DEF ClaimsAs
  <2>5. CASE tasks[m][j].op # 0
    <3> DEFINE a == tasks[m][j].op
    <3>1. a \in OpIds /\ \E r : RowChanged(a, r) /\ Marked(r, ops[a], m)
      BY <2>3, <2>5 DEF ClaimsAs
    <3>2. PICK r : RowChanged(a, r) /\ Marked(r, ops[a], m)
      BY <3>1
    <3>3. ops'[k] = IF k = a THEN r ELSE ops[k]
      BY <3>2 DEF RowChanged
    <3>4. r.rec[p][n] = ops[a].rec[p][n] \/ ops[a].rec[p][n].status = "QUEUED"
      BY <3>2 DEF Marked
    <3> QED
      BY <1>2, <3>3, <3>4 DEF RecordMoves, Terminal
  <2> QED
    BY <2>4, <2>5
<1>6. CASE Finished
  <2>1. PICK m \in Node, s \in Terminal : \E j, a, u, r, ts : EndsAs(m, j, s, a, u, r, ts)
    BY <1>6 DEF Finished
  <2>2. PICK j, a, u, r, ts : EndsAs(m, j, s, a, u, r, ts)
    BY <2>1
  <2>3. ops'[k] = IF k = a THEN r ELSE ops[k]
    BY <2>2 DEF EndsAs, Becomes, RowChanged
  <2> QED
    BY <1>2, <2>2, <2>3, FinishedMoves
<1>7. CASE Others
  <2>1. Unbound
    BY <1>1, <1>7, OthersUnbound
  <2> QED
    BY <1>2, <2>1 DEF Unbound
<1> QED
  BY <1>3, <1>4, <1>5, <1>6, <1>7, RowSteps DEF Consistent

(* A node that succeeded is never asked again, a failed record is queued again   *)
(* only as a new attempt, and a task that has ended stays as it is, whatever    *)
(* late reports, cancellations and retries arrive (finish_task,              *)
(* prepare_or_apply_rollback).                                               *)
THEOREM SettledKept == Spec => SettledStaysSettled
<1> DEFINE Step ==
      /\ \A k \in OpIds, p \in Phases, n \in Node :
           LET r == ops[k].rec[p][n]
               s == ops'[k].rec[p][n]
           IN  /\ r.status = "SUCCEEDED" => s = r
               /\ r.status \in Terminal /\ s # r =>
                    s.status = "QUEUED" /\ s.attempt = r.attempt + 1
      /\ \A n \in Node : \A i \in TaskIds(n) :
           tasks[n][i].status \in Terminal => tasks'[n][i] = tasks[n][i]
<1>1. Consistent /\ [Next]_vars => [Step]_vars
  <2> SUFFICES ASSUME Consistent, [Next]_vars PROVE Step
    OBVIOUS
  <2>1. ASSUME NEW k \in OpIds, NEW p \in Phases, NEW n \in Node
        PROVE  LET r == ops[k].rec[p][n]
                   s == ops'[k].rec[p][n]
               IN  /\ r.status = "SUCCEEDED" => s = r
                   /\ r.status \in Terminal /\ s # r =>
                        s.status = "QUEUED" /\ s.attempt = r.attempt + 1
    BY RecordsMove DEF RecordMoves
  <2>2. ASSUME NEW n \in Node, NEW i \in TaskIds(n), tasks[n][i].status \in Terminal
        PROVE  tasks'[n][i] = tasks[n][i]
    <3>1. Fixed(tasks[n][i]) /\ i \notin LiveIds(n)
      BY <2>2 DEF Fixed, LiveIds, IsLive, LiveStatus, Terminal
    <3> QED
      BY <3>1, FixedTasks
  <2> QED
    BY <2>1, <2>2
<1> QED
  BY <1>1, ConsistentInvariant, PTL DEF Spec, SettledStaysSettled

(* What the end of a task queues: the next phase, which needs its cache.       *)
LEMMA FinishedQueued ==
  ASSUME NEW n \in Node, NEW i, NEW s \in Terminal, NEW k, NEW u, NEW r, NEW ts,
         EndsAs(n, i, s, k, u, r, ts), r.phase \in Phases, NEW m \in Node,
         ops[k].rec[r.phase][m].attempt # r.rec[r.phase][m].attempt
  PROVE  HasEffectivePlan(PhaseDeployment(r, r.phase))
<1> DEFINE o == ops[k]
           p == r.phase
<1>1. IsOutcome(u, o, o.phase, n, s) /\ Becomes(k, r, u, ts)
  BY DEF EndsAs
<1>2. u.rec[p][m].attempt = o.rec[p][m].attempt
  <2> HIDE DEF o
  <2>1. CASE p = o.phase /\ m = n
    <3>1. u.rec[p][m] = [status |-> s, attempt |-> o.rec[p][m].attempt]
      BY <1>1, <2>1 DEF IsOutcome
    <3> QED
      BY <3>1
  <2>2. CASE ~(p = o.phase /\ m = n)
    <3>1. u.rec[p][m] = o.rec[p][m]
      BY <1>1, <2>2 DEF IsOutcome
    <3> QED
      BY <3>1
  <2> QED
    BY <2>1, <2>2
<1>3. CASE RowFails(r, u) \/ RowWaits(r, u) \/ RowCompletes(r, u)
  <2>1. r.rec = u.rec
    BY <1>3 DEF RowFails, RowWaits, RowCompletes
  <2> QED
    BY <1>2, <2>1
<1>4. CASE RowGated(r, u)
  <2>1. CASE p = "START_TARGET" /\ u.rec[p][m].status # "NONE"
    <3>1. r.rec[p][m] = [status |-> "FAILED", attempt |-> u.rec[p][m].attempt]
      BY <1>4, <2>1 DEF RowGated
    <3>2. r.rec[p][m].attempt = u.rec[p][m].attempt
      BY <3>1
    <3> QED
      BY <1>2, <3>2
  <2>2. CASE ~(p = "START_TARGET" /\ u.rec[p][m].status # "NONE")
    <3>1. r.rec[p][m] = u.rec[p][m]
      BY <1>4, <2>2 DEF RowGated
    <3> QED
      BY <1>2, <3>1
  <2> QED
    BY <2>1, <2>2
<1>5. CASE RowAdvances(r, u) /\ HasEffectivePlan(PhaseDeployment(u, NextPhase(u)))
  <2>1. p = NextPhase(u) /\ r.dep = u.dep /\ r.target = u.target
    BY <1>5 DEF RowAdvances, IsQueued, SameScope
  <2>2. PhaseDeployment(r, p) = PhaseDeployment(u, p)
    BY <2>1 DEF PhaseDeployment
  <2> QED
    BY <1>5, <2>1, <2>2
<1> QED
  BY <1>1, <1>3, <1>4, <1>5 DEF Becomes

(* Work that needs a prepared cache is queued only while the exact cache is      *)
(* READY on every assigned node: by a new bulk, by a retry, and by the end of   *)
(* the phase before (effective_deployment_plan, _advance_rollback).          *)
THEOREM QueuedWhenPrepared == Spec => QueuedOnlyWhenPrepared
<1> DEFINE Step ==
      \A k \in 1 .. Len(ops'), n \in Node :
        LET o == ops'[k]
            p == o.phase
        IN  /\ p \in Phases \ {"STOP_SOURCE"}
            /\ o.rec[p][n].status = "QUEUED"
            /\ k \in OpIds => ops[k].rec[p][n].attempt # o.rec[p][n].attempt
            => HasEffectivePlan(PhaseDeployment(o, p))
<1>1. Consistent /\ [Next]_vars => [Step]_vars
  <2> SUFFICES ASSUME Consistent, [Next]_vars PROVE Step
    OBVIOUS
  <2> SUFFICES ASSUME NEW k \in 1 .. Len(ops'), NEW n \in Node,
                      ops'[k].phase \in Phases \ {"STOP_SOURCE"},
                      ops'[k].rec[ops'[k].phase][n].status = "QUEUED",
                      k \in OpIds => ops[k].rec[ops'[k].phase][n].attempt
                                       # ops'[k].rec[ops'[k].phase][n].attempt
               PROVE  HasEffectivePlan(PhaseDeployment(ops'[k], ops'[k].phase))
    OBVIOUS
  <2>1. TypeOK /\ Len(ops) \in Nat /\ TypeInv
    BY ConsistentParts DEF Consistent, CurrentInv
  <2>2. ASSUME k \in OpIds PROVE ops'[k] # ops[k]
    BY <2>2
  <2>3. CASE Prepares
    <3>1. PICK o \in Operation :
            /\ ops' = Append(ops, o)
            /\ \A p \in Phases, m \in Node : o.rec[p][m].status \in {"NONE", "PENDING"}
      BY <2>3 DEF Prepares
    <3>2. /\ Len(ops') = Len(ops) + 1 /\ ops'[Len(ops) + 1] = o
          /\ \A j \in OpIds : ops'[j] = ops[j]
      BY <2>1, <3>1, OperationAppended, ZenonT(60)
    <3>3. k \in OpIds \/ ops'[k] = o
      BY <2>1, <3>2 DEF OpIds
    <3> QED
      BY <2>2, <3>1, <3>2, <3>3
  <2>4. CASE Begun
    <3>1. PICK a, q, o, g, nodes : Begins(a, q, o, g, nodes)
      BY <2>4 DEF Begun
    <3>2. /\ ops'[a] = q /\ q.phase = g /\ SameScope(q, o) /\ OpIds' = OpIds \cup {a}
          /\ \A j \in OpIds : j # a => ops'[j] = ops[j]
          /\ g # "STOP_SOURCE" => HasEffectivePlan(PhaseDeployment(o, g))
      BY <3>1 DEF Begins, BeginsRow, BeginsAlone, IsQueued
    <3>3. k = a
      BY <2>2, <3>2 DEF OpIds
    <3>4. PhaseDeployment(q, g) = PhaseDeployment(o, g)
      BY <3>2 DEF PhaseDeployment, SameScope
    <3> QED
      BY <3>2, <3>3, <3>4
  <2>5. CASE Leasing
    <3>1. PICK m \in Node : \E j \in TaskIds(m) : \E u : ClaimsAs(m, j, u)
      BY <2>5 DEF Leasing
    <3>2. PICK j \in TaskIds(m) : \E u : ClaimsAs(m, j, u)
      BY <3>1
    <3>3. PICK u : ClaimsAs(m, j, u)
      BY <3>2
    <3>4. CASE tasks[m][j].op = 0
      BY <2>2, <3>3, <3>4 DEF ClaimsAs, OpIds
    <3>5. CASE tasks[m][j].op # 0
      <4> DEFINE a == tasks[m][j].op
      <4>1. a \in OpIds /\ \E r : RowChanged(a, r) /\ Marked(r, ops[a], m)
        BY <3>3, <3>5 DEF ClaimsAs
      <4>2. PICK r : RowChanged(a, r) /\ Marked(r, ops[a], m)
        BY <4>1
      <4>3. k \in OpIds /\ ops'[k] = IF k = a THEN r ELSE ops[k]
        BY <4>2 DEF RowChanged, OpIds
      <4>4. k = a /\ ops'[k] = r
        BY <2>2, <4>3
      <4> DEFINE p == r.phase
      <4>5. r.rec[p][n].status = "QUEUED" /\ p \in Phases
        BY <4>4
      <4>6. r.rec[p][n] = ops[a].rec[p][n]
        <5>1. CASE p = ops[a].phase /\ n = m
          <6>1. r.rec[p][n] = [status |-> "RUNNING", attempt |-> ops[a].rec[p][n].attempt]
            BY <4>2, <4>5, <5>1 DEF Marked
          <6> HIDE DEF p, a
          <6>2. r.rec[p][n].status = "RUNNING"
            BY <6>1
          <6> QED
            BY <4>5, <6>2
        <5>2. CASE ~(p = ops[a].phase /\ n = m)
          BY <4>2, <4>5, <5>2 DEF Marked
        <5> QED
          BY <5>1, <5>2
      <4> QED
        BY <4>3, <4>4, <4>6
    <3> QED
      BY <3>4, <3>5
  <2>6. CASE Finished
    <3>1. PICK m \in Node, s \in Terminal : \E j, a, u, r, ts : EndsAs(m, j, s, a, u, r, ts)
      BY <2>6 DEF Finished
    <3>2. PICK j, a, u, r, ts : EndsAs(m, j, s, a, u, r, ts)
      BY <3>1
    <3>3. k \in OpIds /\ ops'[k] = IF k = a THEN r ELSE ops[k]
      BY <3>2 DEF EndsAs, Becomes, RowChanged, OpIds
    <3>4. k = a /\ ops'[k] = r
      BY <2>2, <3>3
    <3>5. r.phase \in Phases /\ ops[a].rec[r.phase][n].attempt # r.rec[r.phase][n].attempt
      BY <3>3, <3>4
    <3> QED
      BY <3>2, <3>4, <3>5, FinishedQueued
  <2>7. CASE Others
    <3>1. Unbound
      BY <2>1, <2>7, OthersUnbound
    <3> QED
      BY <2>2, <3>1 DEF Unbound, OpIds
  <2> QED
    BY <2>3, <2>4, <2>5, <2>6, <2>7, RowSteps DEF Consistent
<1> QED
  BY <1>1, ConsistentInvariant, PTL DEF Spec, QueuedOnlyWhenPrepared

(* What the last phase of an operation proves of the generation it verifies.   *)
LEMMA CompletedEverywhere ==
  ASSUME NEW r \in Operation, RowInv(r), r.phase = "COMPLETE", NEW d,
         IF r.kind = "ROLLBACK" THEN d = r.target
                                ELSE r.kind = "VERIFY" /\ IsFullSet(r) /\ d = r.dep
  PROVE  LET p == IF r.kind = "ROLLBACK" THEN "VERIFY_TARGET" ELSE "VERIFY"
         IN  /\ d = PhaseDeployment(r, p)
             /\ \A n \in Assigned[d] : r.rec[p][n].status = "SUCCEEDED"
             /\ \A q \in Phases, n \in Node : r.rec[q][n].status \in {"NONE", "SUCCEEDED"}
<1> DEFINE p == IF r.kind = "ROLLBACK" THEN "VERIFY_TARGET" ELSE "VERIFY"
<1>1. /\ r.dep \in Deployment
      /\ r.kind = "ROLLBACK" <=> (r.target # NoDeployment)
      /\ r.target \in Deployment \cup {NoDeployment} /\ r.nodes \subseteq Node
  BY OperationFields
<1>2. \A q \in Phases, n \in Node : r.rec[q][n].status \in {"NONE", "SUCCEEDED"}
  BY PhaseOrder DEF RowInv, RecordsInOrder
<1>3. d = PhaseDeployment(r, p) /\ r.nodes = Assigned[d]
  <2>1. CASE r.kind = "ROLLBACK"
    <3>1. r.target # NoDeployment /\ d = r.target /\ p # "STOP_SOURCE"
      BY <1>1, <2>1
    <3>2. PhaseDeployment(r, p) = r.target
      BY <3>1 DEF PhaseDeployment
    <3>3. r.nodes = Assigned[r.target]
      BY <2>1, <3>1 DEF RowInv, ScopeOK
    <3> QED
      BY <3>1, <3>2, <3>3
  <2>2. CASE r.kind # "ROLLBACK"
    <3>1. r.target = NoDeployment /\ d = r.dep /\ IsFullSet(r)
      BY <1>1, <2>2
    <3> QED
      BY <3>1 DEF PhaseDeployment, IsFullSet
  <2> QED
    BY <2>1, <2>2
<1>4. p \in Phases /\ p \notin ApiPhases /\ p \in KindPhases(r.kind)
  BY DEF Phases, ApiPhases, KindPhases
<1> HIDE DEF p
<1>5. \A n \in r.nodes : r.rec[p][n].status = "SUCCEEDED"
  BY <1>1, <1>2, <1>4 DEF RowInv, RecordsExist, HasRecord
<1> QED
  BY <1>2, <1>3, <1>5 DEF p

(* Nothing verifies a generation but an operation that ends with every record    *)
(* succeeded, on exactly the nodes the generation is assigned to             *)
(* (_finish_generic_operation, _advance_rollback).                           *)
THEOREM VerifiedEverywhere == Spec => VerifiedByEveryNode
<1> DEFINE Shown(d, k) ==
      LET o == ops'[k]
          p == IF o.kind = "ROLLBACK" THEN "VERIFY_TARGET" ELSE "VERIFY"
      IN  /\ d = PhaseDeployment(o, p)
          /\ o.status = "SUCCEEDED" /\ ops[k].status # "SUCCEEDED"
          /\ \A n \in Assigned[d] : o.rec[p][n].status = "SUCCEEDED"
          /\ \A q \in Phases, n \in Node : o.rec[q][n].status \in {"NONE", "SUCCEEDED"}
<1>1. Consistent /\ [Next]_vars =>
        [\A d \in verified' \ verified : \E k \in 1 .. Len(ops') : Shown(d, k)]_vars
  <2> SUFFICES ASSUME Consistent, [Next]_vars
               PROVE  \A d \in verified' \ verified : \E k \in 1 .. Len(ops') : Shown(d, k)
    OBVIOUS
  <2>1. ASSUME verified' \subseteq verified
        PROVE  \A d \in verified' \ verified : \E k \in 1 .. Len(ops') : Shown(d, k)
    BY <2>1
  <2>2. CASE Prepares
    BY <2>1, <2>2 DEF Prepares, generations
  <2>3. CASE Begun
    <3>1. PICK k, q, o, p, nodes : Begins(k, q, o, p, nodes)
      BY <2>3 DEF Begun
    <3>2. BeginsDeployments(o) /\ o \in Operation
      BY <3>1 DEF Begins, BeginsRow
    <3>3. verified' \subseteq verified
      BY <3>2, OperationFields DEF BeginsDeployments, EvidenceWhenQueued
    <3> QED
      BY <2>1, <3>3
  <2>4. CASE Leasing
    BY <2>1, <2>4 DEF Leasing, ClaimsAs, generations
  <2>5. CASE Finished
    <3>1. PICK m \in Node, s \in Terminal : \E j, a, u, r, ts : EndsAs(m, j, s, a, u, r, ts)
      BY <2>5 DEF Finished
    <3>2. PICK j, k, u, r, ts : EndsAs(m, j, s, k, u, r, ts)
      BY <3>1
    <3> DEFINE o == ops[k]
    <3>3. /\ k \in OpIds /\ o \in Operation /\ RowInv(o) /\ o.phase \in Phases
          /\ o.status # "PREPARED" /\ o.rec[o.phase][m].status \in LiveStatus
          /\ IsOutcome(u, o, o.phase, m, s) /\ r \in Operation /\ Becomes(k, r, u, ts)
      BY <3>2 DEF EndsAs
    <3>4. /\ Len(ops') = Len(ops) /\ ops'[k] = r /\ DeploymentsAfter(r, u)
          /\ RowFails(r, u) \/ RowWaits(r, u) \/ RowCompletes(r, u) \/ RowAdvances(r, u)
               \/ RowGated(r, u)
      BY <3>3 DEF Becomes, RowChanged
    <3>5. o.status # "SUCCEEDED"
      BY <3>3 DEF RowInv, PhaseOK, Phases
    <3> HIDE DEF o
    <3>6. RowInv(r)
      BY <3>3, <3>4, RowEndStep
    <3> SUFFICES ASSUME NEW d \in verified' \ verified PROVE Shown(d, k)
      BY <3>3, <3>4 DEF OpIds
    <3>7. /\ RowCompletes(r, u)
          /\ IF u.kind = "ROLLBACK" THEN d = u.target
                                    ELSE u.kind = "VERIFY" /\ IsFullSet(u) /\ d = u.dep
      BY <3>4 DEF DeploymentsAfter
    <3>8. /\ r.phase = "COMPLETE" /\ r.status = "SUCCEEDED"
          /\ IF r.kind = "ROLLBACK" THEN d = r.target
                                    ELSE r.kind = "VERIFY" /\ IsFullSet(r) /\ d = r.dep
      BY <3>7 DEF RowCompletes, SameRequest, IsFullSet
    <3> QED
      BY <3>3, <3>4, <3>5, <3>6, <3>8, CompletedEverywhere DEF o
  <2>6. CASE Others
    <3>1. verified' \subseteq verified
      BY <2>6 DEF Others, Quiet, generations, Accept, CreateDirect, CreateUnjoin
    <3> QED
      BY <2>1, <3>1
  <2> QED
    BY <2>2, <2>3, <2>4, <2>5, <2>6, RowSteps DEF Consistent
<1> QED
  BY <1>1, ConsistentInvariant, PTL DEF Spec, VerifiedByEveryNode
=============================================================================
