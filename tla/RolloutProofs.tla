--------------------------- MODULE RolloutProofs ---------------------------
(* Theorems of Rollout for every set of nodes, deployments and bounds.       *)
EXTENDS Rollout, SequenceTheorems, TLAPS

----------------------------------------------------------------------------
(* Task queues and operation tables *)

(* Queues whose bound tasks name one of m operations. *)
QueuesOK(ts, m) ==
  /\ ts \in [Node -> Seq(Task)]
  /\ \A n \in Node : \A i \in 1 .. Len(ts[n]) : ts[n][i].op <= m

(* us is ts with task i of node n replaced by t. *)
Replaced(us, ts, n, i, t, m) ==
  /\ QueuesOK(us, m)
  /\ \A q \in Node : Len(us[q]) = Len(ts[q])
  /\ \A q \in Node : \A j \in 1 .. Len(ts[q]) :
       us[q][j] = IF q = n /\ j = i THEN t ELSE ts[q][j]

(* Replacing one task of one queue keeps every other task and every length.  *)
LEMMA TaskReplaced ==
  ASSUME NEW ts, NEW m \in Nat, QueuesOK(ts, m),
         NEW n \in Node, NEW i \in 1 .. Len(ts[n]), NEW t \in Task, t.op <= m
  PROVE  Replaced([ts EXCEPT ![n][i] = t], ts, n, i, t, m)
<1> DEFINE row == [ts[n] EXCEPT ![i] = t]
           us == [ts EXCEPT ![n][i] = t]
<1>1. ts \in [Node -> Seq(Task)] /\ ts[n] \in Seq(Task)
  BY DEF QueuesOK
<1>2. /\ row \in Seq(Task)
      /\ Len(row) = Len(ts[n])
      /\ \A j \in 1 .. Len(ts[n]) : row[j] = IF j = i THEN t ELSE ts[n][j]
  <2> HIDE DEF row
  <2>1. row = [ts[n] EXCEPT ![i] = t]
    BY DEF row
  <2> QED
    BY <1>1, <2>1, ExceptSeq
<1>3. us = [ts EXCEPT ![n] = row]
  OBVIOUS
<1> HIDE DEF row, us
<1>4. /\ us \in [Node -> Seq(Task)]
      /\ \A q \in Node : us[q] = IF q = n THEN row ELSE ts[q]
  BY <1>1, <1>2, <1>3
<1>5. \A q \in Node : Len(us[q]) = Len(ts[q])
  BY <1>2, <1>4
<1>6. \A q \in Node : \A j \in 1 .. Len(ts[q]) :
        us[q][j] = IF q = n /\ j = i THEN t ELSE ts[q][j]
  BY <1>2, <1>4
<1>7. QueuesOK(us, m)
  BY <1>4, <1>5, <1>6, ZenonT(60) DEF QueuesOK
<1> QED
  BY <1>5, <1>6, <1>7 DEF us, Replaced

Appended(ts, nodes, f) ==
  [n \in Node |-> IF n \in nodes THEN Append(ts[n], f[n]) ELSE ts[n]]

(* us is ts with one task f[n] more at the end of the queue of every node n. *)
Grown(us, ts, nodes, f, m) ==
  /\ QueuesOK(us, m)
  /\ \A q \in Node :
       Len(us[q]) = IF q \in nodes THEN Len(ts[q]) + 1 ELSE Len(ts[q])
  /\ \A q \in Node : \A j \in 1 .. Len(ts[q]) : us[q][j] = ts[q][j]
  /\ \A q \in nodes : us[q][Len(ts[q]) + 1] = f[q]

(* Appending one task to the queues of some nodes keeps what was there.      *)
LEMMA TasksAppended ==
  ASSUME NEW ts, NEW m \in Nat, QueuesOK(ts, m),
         NEW nodes \in SUBSET Node, NEW f \in [Node -> Task],
         \A n \in nodes : f[n].op <= m
  PROVE  Grown(Appended(ts, nodes, f), ts, nodes, f, m)
<1> DEFINE us == Appended(ts, nodes, f)
<1>1. ASSUME NEW q \in Node
      PROVE  /\ us[q] \in Seq(Task)
             /\ Len(us[q]) = IF q \in nodes THEN Len(ts[q]) + 1 ELSE Len(ts[q])
             /\ \A j \in 1 .. Len(ts[q]) : us[q][j] = ts[q][j]
             /\ q \in nodes => us[q][Len(ts[q]) + 1] = f[q]
             /\ \A j \in 1 .. Len(us[q]) : us[q][j].op <= m
  <2>1. ts[q] \in Seq(Task) /\ f[q] \in Task /\ Len(ts[q]) \in Nat
    BY <1>1, LenProperties DEF QueuesOK
  <2>2. \A j \in 1 .. Len(ts[q]) : ts[q][j].op <= m
    BY <1>1 DEF QueuesOK
  <2>3. us[q] = IF q \in nodes THEN Append(ts[q], f[q]) ELSE ts[q]
    BY <1>1 DEF Appended
  <2> HIDE DEF us
  <2>4. CASE q \in nodes
    <3>1. us[q] = Append(ts[q], f[q])
      BY <2>3, <2>4
    <3>2. /\ us[q] \in Seq(Task)
          /\ Len(us[q]) = Len(ts[q]) + 1
          /\ \A j \in 1 .. Len(ts[q]) : us[q][j] = ts[q][j]
          /\ us[q][Len(ts[q]) + 1] = f[q]
      BY <2>1, <3>1, AppendProperties
    <3>3. f[q].op <= m
      BY <2>4
    <3>4. \A j \in 1 .. Len(us[q]) : j \in 1 .. Len(ts[q]) \/ j = Len(ts[q]) + 1
      BY <2>1, <3>2
    <3> QED
      BY <2>2, <2>4, <3>2, <3>3, <3>4
  <2>5. CASE q \notin nodes
    BY <2>1, <2>2, <2>3, <2>5
  <2> QED
    BY <2>4, <2>5
<1>2. us \in [Node -> Seq(Task)]
  BY <1>1 DEF Appended
<1> HIDE DEF us
<1>3. QueuesOK(us, m)
  BY <1>1, <1>2 DEF QueuesOK
<1> QED
  BY <1>1, <1>3 DEF us, Grown

(* Replacing one row of the operation table. *)
LEMMA OperationReplaced ==
  ASSUME NEW all \in Seq(Operation), NEW k \in 1 .. Len(all),
         NEW o \in Operation
  PROVE  LET us == [all EXCEPT ![k] = o]
         IN  /\ us \in Seq(Operation)
             /\ Len(us) = Len(all)
             /\ \A j \in 1 .. Len(all) : us[j] = IF j = k THEN o ELSE all[j]
  BY ExceptSeq

(* The columns of a row of the operation table. *)
LEMMA OperationFields ==
  ASSUME NEW o \in Operation
  PROVE  /\ o.dep \in Deployment
         /\ o.target \in Deployment \cup {NoDeployment}
         /\ o.nodes \in SUBSET Node
         /\ o.kind = "ROLLBACK" <=> o.target # NoDeployment
         /\ o.kind \in {"APPLY", "VERIFY", "ROLLBACK"}
         /\ o.serve \in BOOLEAN /\ o.active \in BOOLEAN
         /\ o.status \in OperationStatus
         /\ o.phase \in Phases \cup {"COMPLETE"}
         /\ o.rec \in [Phases -> [Node -> Record]]
         /\ \A p \in Phases, n \in Node :
              /\ o.rec[p] \in [Node -> Record]
              /\ o.rec[p][n] \in Record
              /\ o.rec[p][n].status \in RecordStatus
              /\ o.rec[p][n].attempt \in Nat
  BY DEF Operation, Record

(* o and b are the same request, and o is active only if b is. *)
SameScope(o, b) ==
  /\ o.dep = b.dep /\ o.nodes = b.nodes
  /\ o.target = b.target /\ o.kind = b.kind /\ o.serve = b.serve
  /\ o.active => b.active

(* u is o with the status of one record changed to s and nothing else. *)
IsOutcome(u, o, p, n, s) ==
  /\ u \in Operation
  /\ SameScope(u, o) /\ u.phase = o.phase /\ u.active = o.active
  /\ u.status = o.status
  /\ \A q \in Phases, m \in Node :
       u.rec[q][m] = IF q = p /\ m = n
                     THEN [status |-> s, attempt |-> o.rec[p][n].attempt]
                     ELSE o.rec[q][m]

(* Outcome changes the status of one record and nothing else. *)
LEMMA OutcomeTyped ==
  ASSUME NEW o \in Operation, NEW p \in Phases, NEW n \in Node,
         NEW s \in RecordStatus
  PROVE  IsOutcome(Outcome(o, p, n, s), o, p, n, s)
<1> DEFINE r == [o.rec[p][n] EXCEPT !.status = s]
           row == [o.rec[p] EXCEPT ![n] = r]
           rec == [o.rec EXCEPT ![p] = row]
<1>1. Outcome(o, p, n, s) = [o EXCEPT !.rec = rec]
  BY DEF Outcome
<1>2. o.rec \in [Phases -> [Node -> Record]] /\ o.rec[p] \in [Node -> Record]
      /\ o.rec[p][n] \in Record
  BY OperationFields
<1>3. r \in Record /\ r = [status |-> s, attempt |-> o.rec[p][n].attempt]
  BY <1>2 DEF Record
<1> HIDE DEF r
<1>4. row \in [Node -> Record] /\ \A m \in Node : row[m] = IF m = n THEN r ELSE o.rec[p][m]
  BY <1>2, <1>3
<1> HIDE DEF row
<1>5. /\ rec \in [Phases -> [Node -> Record]]
      /\ \A q \in Phases : rec[q] = IF q = p THEN row ELSE o.rec[q]
  BY <1>2, <1>4
<1> HIDE DEF rec
<1> DEFINE u == [o EXCEPT !.rec = rec]
<1>6. /\ u \in Operation /\ u.rec = rec
      /\ SameScope(u, o) /\ u.phase = o.phase /\ u.active = o.active
      /\ u.status = o.status
  BY <1>5 DEF Operation, SameScope
<1> HIDE DEF u
<1>7. IsOutcome(u, o, p, n, s)
  BY <1>3, <1>4, <1>5, <1>6 DEF IsOutcome
<1> QED
  BY <1>1, <1>7 DEF u

(* q is o in phase p, with a new attempt of the records of nodes. *)
IsQueued(q, o, p, nodes) ==
  /\ q \in Operation
  /\ q.phase = p /\ q.status = "QUEUED"
  /\ SameScope(q, o) /\ q.active = o.active
  /\ \A r \in Phases, n \in Node :
       q.rec[r][n] = IF r = p /\ n \in nodes
                     THEN [status |-> "QUEUED", attempt |-> o.rec[p][n].attempt + 1]
                     ELSE o.rec[r][n]

(* Queued moves an operation to a phase and renews the records of nodes.     *)
LEMMA QueuedTyped ==
  ASSUME NEW o \in Operation, NEW p \in Phases, NEW nodes \in SUBSET Node
  PROVE  IsQueued(Queued(o, p, nodes), o, p, nodes)
<1> DEFINE row == [n \in Node |->
                     IF n \in nodes
                     THEN [status |-> "QUEUED",
                           attempt |-> o.rec[p][n].attempt + 1]
                     ELSE o.rec[p][n]]
           rec == [o.rec EXCEPT ![p] = row]
<1>1. Queued(o, p, nodes) =
        [[[o EXCEPT !.phase = p] EXCEPT !.status = "QUEUED"] EXCEPT !.rec = rec]
  BY DEF Queued, Operation
<1>2. o.rec \in [Phases -> [Node -> Record]]
  BY OperationFields
<1>3. row \in [Node -> Record]
  BY OperationFields DEF Record, RecordStatus, TaskStatus, LiveStatus
<1> HIDE DEF row
<1>4. /\ rec \in [Phases -> [Node -> Record]]
      /\ \A r \in Phases : rec[r] = IF r = p THEN row ELSE o.rec[r]
  BY <1>2, <1>3
<1> HIDE DEF rec
<1>5. /\ Queued(o, p, nodes) \in Operation
      /\ Queued(o, p, nodes).rec = rec
  BY <1>1, <1>4 DEF Operation, OperationStatus
<1>6. \A r \in Phases, n \in Node :
        rec[r][n] = IF r = p /\ n \in nodes
                    THEN [status |-> "QUEUED",
                          attempt |-> o.rec[p][n].attempt + 1]
                    ELSE o.rec[r][n]
  BY <1>4 DEF row
<1>7. /\ Queued(o, p, nodes).phase = p
      /\ Queued(o, p, nodes).status = "QUEUED"
      /\ Queued(o, p, nodes).active = o.active
      /\ SameScope(Queued(o, p, nodes), o)
  BY <1>1 DEF Operation, SameScope
<1> QED
  BY <1>5, <1>6, <1>7 DEF IsQueued

(* The task of a phase is a task bound to its operation. *)
LEMMA PhaseTaskTyped ==
  ASSUME NEW o \in Operation, o.phase \in Phases, NEW n \in Node,
         NEW k \in Nat \ {0}
  PROVE  PhaseTask(k, o, n) \in Task /\ PhaseTask(k, o, n).op = k
<1>1. PhaseTaskType[o.phase] \in TaskTypes
  BY DEF PhaseTaskType, Phases, TaskTypes, DirectTypes
<1>2. PhaseDeployment(o, o.phase) \in Deployment \cup {NoDeployment}
  BY OperationFields DEF PhaseDeployment
<1>3. o.rec[o.phase][n].attempt \in Nat
  BY OperationFields
<1>4. 0 \in 0 .. LeaseTicks
  BY BoundAssumption
<1> QED
  BY <1>1, <1>2, <1>3, <1>4 DEF PhaseTask, Task, TaskStatus, LiveStatus

PhaseTasks(k, q) == [n \in Node |-> PhaseTask(k, q, n)]

(* Row k of all is now q, and every node of nodes has one more task in its   *)
(* queue of ts, the task of q's current attempt.                             *)
PhaseStarted(k, all, q, ts, nodes) ==
  /\ ops' \in Seq(Operation) /\ Len(ops') = Len(all)
  /\ \A j \in 1 .. Len(all) : ops'[j] = IF j = k THEN q ELSE all[j]
  /\ Grown(tasks', ts, nodes, PhaseTasks(k, q), Len(ops'))

(* QueuePhase rewrites row k and appends the tasks of that row's attempts.   *)
LEMMA QueuePhaseEffect ==
  ASSUME NEW all \in Seq(Operation), NEW k \in 1 .. Len(all),
         NEW o \in Operation, NEW ts, QueuesOK(ts, Len(all)),
         NEW p \in Phases, NEW nodes \in SUBSET Node,
         QueuePhase(k, all, o, ts, p, nodes)
  PROVE  PhaseStarted(k, all, Queued(o, p, nodes), ts, nodes)
<1> DEFINE q == Queued(o, p, nodes)
           f == PhaseTasks(k, q)
<1>1. q \in Operation /\ q.phase = p
  BY QueuedTyped DEF IsQueued
<1>2. Len(all) \in Nat /\ k \in Nat \ {0}
  BY LenProperties
<1>3. \A n \in Node : PhaseTask(k, q, n) \in Task /\ PhaseTask(k, q, n).op = k
  BY <1>1, <1>2, PhaseTaskTyped
<1>4. ops' = [all EXCEPT ![k] = q]
  BY DEF QueuePhase
<1>5. tasks' = [n \in Node |-> IF n \in nodes THEN Append(ts[n], PhaseTask(k, q, n))
                                              ELSE ts[n]]
  BY DEF QueuePhase
<1> HIDE DEF q
<1>6. f \in [Node -> Task] /\ \A n \in nodes : f[n].op <= Len(all)
  BY <1>2, <1>3 DEF PhaseTasks
<1>7. tasks' = [n \in Node |-> IF n \in nodes THEN Append(ts[n], f[n]) ELSE ts[n]]
  BY <1>5 DEF PhaseTasks
<1>8. /\ ops' \in Seq(Operation) /\ Len(ops') = Len(all)
      /\ \A j \in 1 .. Len(all) : ops'[j] = IF j = k THEN q ELSE all[j]
  BY <1>1, <1>4, OperationReplaced
<1>9. Grown(tasks', ts, nodes, f, Len(ops'))
  <2>1. tasks' = Appended(ts, nodes, f)
    BY <1>7 DEF Appended
  <2> HIDE DEF f
  <2>2. Grown(Appended(ts, nodes, f), ts, nodes, f, Len(all))
    BY <1>2, <1>6, TasksAppended
  <2> QED
    BY <1>8, <2>1, <2>2
<1> QED
  BY <1>8, <1>9 DEF q, PhaseStarted

(* us is ts with task i of node n ended as s. *)
Ended(us, ts, n, i, s, m) ==
  /\ QueuesOK(us, m)
  /\ \A q \in Node : Len(us[q]) = Len(ts[q])
  /\ \A q \in Node : \A j \in 1 .. Len(ts[q]) :
       us[q][j] = IF q = n /\ j = i
                  THEN [ts[n][i] EXCEPT !.status = s, !.lease = 0]
                  ELSE ts[q][j]

(* Closed ends one task and changes no other. *)
LEMMA ClosedEffect ==
  ASSUME NEW ts, NEW m \in Nat, QueuesOK(ts, m),
         NEW n \in Node, NEW i \in 1 .. Len(ts[n]), NEW s \in TaskStatus
  PROVE  Ended(Closed(ts, n, i, s), ts, n, i, s, m)
<1> DEFINE t == [ts[n][i] EXCEPT !.status = s, !.lease = 0]
<1>1. ts[n] \in Seq(Task) /\ ts[n][i] \in Task /\ ts[n][i].op <= m
  BY ElementOfSeq DEF QueuesOK
<1>2. t \in Task /\ t.op = ts[n][i].op
  <2> DEFINE u == ts[n][i]
  <2>1. u \in Task
    BY <1>1
  <2>2. 0 \in 0 .. LeaseTicks
    BY BoundAssumption
  <2> HIDE DEF u
  <2>3. [u EXCEPT !.status = s, !.lease = 0] \in Task
    BY <2>1, <2>2 DEF Task
  <2>4. [u EXCEPT !.status = s, !.lease = 0].op = u.op
    BY <2>1 DEF Task
  <2> QED
    BY <2>3, <2>4 DEF u
<1>3. Closed(ts, n, i, s) = [ts EXCEPT ![n][i] = t]
  BY DEF Closed
<1> HIDE DEF t
<1>4. t \in Task /\ t.op <= m
  BY <1>1, <1>2
<1>5. Replaced([ts EXCEPT ![n][i] = t], ts, n, i, t, m)
  BY <1>4, TaskReplaced
<1> QED
  BY <1>3, <1>5 DEF t, Ended, Replaced

----------------------------------------------------------------------------
(* The parts of the type invariant *)

MembershipOK ==
  approved \subseteq Node /\ joined \subseteq Node /\ claiming \subseteq Node
GenerationsOK ==
  /\ accepted \subseteq Deployment /\ verified \subseteq Deployment
  /\ status \in [Deployment -> DeploymentStatus]
CachesOK ==
  /\ prepared \subseteq Deployment
  /\ ready \subseteq {<<n, Artifact[d]>> : n \in Node, d \in Recommended}
TablesOK == ops \in Seq(Operation) /\ QueuesOK(tasks, Len(ops))

(* TypeOK is its four parts, now and in the next state. *)
LEMMA TypeParts ==
  /\ TypeOK <=> MembershipOK /\ GenerationsOK /\ CachesOK /\ TablesOK
  /\ TypeOK' <=> MembershipOK' /\ GenerationsOK' /\ CachesOK' /\ TablesOK'
BY DEF TypeOK, MembershipOK, GenerationsOK, CachesOK, TablesOK, QueuesOK, TaskIds

(* Row k of the operation table is now r; no other row has changed. *)
RowChanged(k, r) ==
  /\ ops' \in Seq(Operation) /\ Len(ops') = Len(ops)
  /\ \A j \in OpIds : ops'[j] = IF j = k THEN r ELSE ops[j]

(* FailPhase ends or blocks operation k and leaves its records as o has them. *)
LEMMA FailPhaseEffect ==
  ASSUME TypeOK, NEW k \in OpIds, NEW o \in Operation, NEW ts,
         QueuesOK(ts, Len(ops)), FailPhase(k, o, ts)
  PROVE  /\ GenerationsOK' /\ TablesOK' /\ prepared' = prepared
         /\ tasks' = ts
         /\ \E r \in Operation : /\ RowChanged(k, r) /\ SameScope(r, o)
                                 /\ r.rec = o.rec /\ r.phase = o.phase
                                 /\ r.active <=> o.active /\ HoldsLineage(o)
                                 /\ r.status \in {"FAILED", "PARTIAL_FAILED"}
<1> DEFINE r == [o EXCEPT !.status = IF FailedNodes(o, o.phase) = PhaseNodes(o, o.phase)
                                     THEN "FAILED" ELSE "PARTIAL_FAILED",
                          !.active = @ /\ HoldsLineage(o)]
<1>1. /\ r \in Operation /\ SameScope(r, o) /\ r.rec = o.rec
      /\ r.phase = o.phase /\ r.status \in {"FAILED", "PARTIAL_FAILED"}
      /\ r.active <=> o.active /\ HoldsLineage(o)
  <2> DEFINE s == IF FailedNodes(o, o.phase) = PhaseNodes(o, o.phase)
                  THEN "FAILED" ELSE "PARTIAL_FAILED"
             h == o.active /\ HoldsLineage(o)
  <2>1. r = [o EXCEPT !.status = s, !.active = h]
    BY DEF Operation
  <2>2. s \in {"FAILED", "PARTIAL_FAILED"} /\ h \in BOOLEAN
    OBVIOUS
  <2>3. h => o.active
    OBVIOUS
  <2>4. h <=> o.active /\ HoldsLineage(o)
    OBVIOUS
  <2> HIDE DEF s, h, r
  <2> QED
    BY <2>1, <2>2, <2>3, <2>4, ZenonT(60) DEF Operation, OperationStatus, SameScope
<1>2. ops' = [ops EXCEPT ![k] = r] /\ tasks' = ts
  BY DEF FailPhase
<1> HIDE DEF r
<1>3. ops \in Seq(Operation) /\ GenerationsOK
  BY TypeParts DEF TablesOK
<1>4. RowChanged(k, r)
  BY <1>1, <1>2, <1>3, OperationReplaced DEF RowChanged, OpIds
<1>5. GenerationsOK'
  <2>1. status' \in [Deployment -> DeploymentStatus]
    BY <1>3, OperationFields DEF FailPhase, GenerationsOK, DeploymentStatus
  <2> QED
    BY <1>3, <2>1 DEF FailPhase, GenerationsOK
<1>6. TablesOK'
  BY <1>2, <1>4 DEF TablesOK, RowChanged
<1> QED
  BY <1>1, <1>2, <1>4, <1>5, <1>6 DEF FailPhase

(* A row that is neither waiting to be applied nor complete without success. *)
Moved(r) ==
  r.status # "PREPARED" /\ (r.phase \in Phases \/ r.status = "SUCCEEDED")

(* One operation has moved: row k, which the outcome of a task made o, is r.  *)
(* The queues are ts, or one phase has ended and the next one has its tasks. *)
OperationStep(k, o, ts) ==
  \E r \in Operation :
    /\ RowChanged(k, r) /\ SameScope(r, o) /\ Moved(r)
    /\ \/ /\ tasks' = ts
          /\ \/ Settled(o)
             \/ r.rec = o.rec /\ r.phase = o.phase /\ r.active = o.active
       \/ /\ Settled(o) /\ r.active = o.active /\ r.phase \in Phases
          /\ \E nodes \in SUBSET Node :
               /\ Grown(tasks', ts, nodes, PhaseTasks(k, r), Len(ops'))
               /\ \A n \in nodes : r.rec[r.phase][n].status = "QUEUED"

(* What every path through the end of a task leaves behind. *)
Progress(k, o, ts) ==
  GenerationsOK' /\ TablesOK' /\ prepared' = prepared /\ OperationStep(k, o, ts)

(* A failed phase moves its operation and queues nothing. *)
LEMMA FailPhaseStep ==
  ASSUME TypeOK, NEW k \in OpIds, NEW o \in Operation, NEW ts,
         QueuesOK(ts, Len(ops)), o.phase \in Phases, FailPhase(k, o, ts)
  PROVE  Progress(k, o, ts)
<1>1. /\ GenerationsOK' /\ TablesOK' /\ prepared' = prepared
      /\ tasks' = ts
      /\ \E r \in Operation : /\ RowChanged(k, r) /\ SameScope(r, o)
                              /\ r.rec = o.rec /\ r.phase = o.phase
                              /\ r.active <=> o.active /\ HoldsLineage(o)
                              /\ r.status \in {"FAILED", "PARTIAL_FAILED"}
  BY FailPhaseEffect
<1>2. PICK r \in Operation : /\ RowChanged(k, r) /\ SameScope(r, o)
                             /\ r.rec = o.rec /\ r.phase = o.phase
                             /\ r.active <=> o.active /\ HoldsLineage(o)
                             /\ r.status \in {"FAILED", "PARTIAL_FAILED"}
  BY <1>1
<1>3. r.active \in BOOLEAN /\ o.active \in BOOLEAN
  BY OperationFields
<1>4. Settled(o) \/ r.active = o.active
  BY <1>2, <1>3 DEF HoldsLineage
<1> QED
  BY <1>1, <1>2, <1>4 DEF Progress, OperationStep, Moved

(* A completed operation releases its lineage and queues nothing. *)
LEMMA CompleteStep ==
  ASSUME TypeOK, NEW k \in OpIds, NEW o \in Operation, NEW ts,
         QueuesOK(ts, Len(ops)), Settled(o), Complete(k, o, ts),
         prepared' = prepared, accepted' = accepted
  PROVE  Progress(k, o, ts)
<1> DEFINE r == [o EXCEPT !.status = "SUCCEEDED", !.phase = "COMPLETE",
                          !.active = FALSE]
<1>1. r \in Operation /\ SameScope(r, o) /\ Moved(r)
  BY DEF Operation, OperationStatus, SameScope, Moved
<1>2. ops' = [ops EXCEPT ![k] = r] /\ tasks' = ts
  BY DEF Complete
<1> HIDE DEF r
<1>3. ops \in Seq(Operation) /\ GenerationsOK
  BY TypeParts DEF TablesOK
<1>4. RowChanged(k, r)
  BY <1>1, <1>2, <1>3, OperationReplaced DEF RowChanged, OpIds
<1>5. GenerationsOK'
  <2>1. /\ o.dep \in Deployment
        /\ o.kind = "ROLLBACK" => o.target \in Deployment
    BY OperationFields
  <2>2. status' \in [Deployment -> DeploymentStatus]
    BY <1>3, <2>1 DEF Complete, GenerationsOK, DeploymentStatus
  <2>3. verified' \subseteq Deployment
    BY <1>3, <2>1 DEF Complete, GenerationsOK
  <2> QED
    BY <1>3, <2>2, <2>3 DEF GenerationsOK
<1>6. TablesOK'
  BY <1>2, <1>4 DEF TablesOK, RowChanged
<1> QED
  BY <1>1, <1>2, <1>4, <1>5, <1>6 DEF Progress, OperationStep

(* A closed cache gate leaves a rollback failed in its START_TARGET phase. *)
LEMMA CloseCacheGateStep ==
  ASSUME TypeOK, NEW k \in OpIds, NEW o \in Operation, NEW ts,
         QueuesOK(ts, Len(ops)), Settled(o), CloseCacheGate(k, o, ts),
         prepared' = prepared, accepted' = accepted
  PROVE  Progress(k, o, ts)
<1> DEFINE row == [n \in Node |->
                     IF o.rec["START_TARGET"][n].status = "NONE"
                     THEN o.rec["START_TARGET"][n]
                     ELSE [o.rec["START_TARGET"][n] EXCEPT !.status = "FAILED"]]
           rec == [o.rec EXCEPT !["START_TARGET"] = row]
           r == [[o EXCEPT !.phase = "START_TARGET", !.status = "FAILED"]
                   EXCEPT !.rec = rec]
<1>1. /\ o.rec \in [Phases -> [Node -> Record]]
      /\ \A n \in Node : o.rec["START_TARGET"][n] \in Record
  BY OperationFields DEF Phases
<1>2. row \in [Node -> Record]
  BY <1>1 DEF Record, RecordStatus, TaskStatus, LiveStatus
<1>3. ops' = [ops EXCEPT ![k] = r] /\ tasks' = ts
  BY DEF CloseCacheGate, Operation
<1> HIDE DEF row
<1>4. rec \in [Phases -> [Node -> Record]]
  BY <1>1, <1>2
<1> HIDE DEF rec
<1>5. r \in Operation /\ SameScope(r, o) /\ Moved(r)
  BY <1>4 DEF Operation, OperationStatus, SameScope, Phases, Moved
<1> HIDE DEF r
<1>6. ops \in Seq(Operation) /\ GenerationsOK
  BY TypeParts DEF TablesOK
<1>7. RowChanged(k, r)
  BY <1>3, <1>5, <1>6, OperationReplaced DEF RowChanged, OpIds
<1>8. GenerationsOK'
  BY <1>6 DEF CloseCacheGate, GenerationsOK, DeploymentStatus
<1>9. TablesOK'
  BY <1>3, <1>7 DEF TablesOK, RowChanged
<1> QED
  BY <1>3, <1>5, <1>7, <1>8, <1>9 DEF Progress, OperationStep

(* A finished phase queues the next one, closes the cache gate or completes. *)
LEMMA AdvancePhaseStep ==
  ASSUME TypeOK, NEW k \in OpIds, NEW o \in Operation, NEW ts,
         QueuesOK(ts, Len(ops)), Settled(o), AdvancePhase(k, o, ts)
  PROVE  Progress(k, o, ts)
<1> DEFINE p == NextPhase(o)
           nodes == PhaseNodes(o, p)
           q == Queued(o, p, nodes)
<1>1. p \in Phases \cup {"COMPLETE"}
  BY DEF NextPhase, Phases
<1>2. prepared' = prepared /\ accepted' = accepted
  BY DEF AdvancePhase
<1>3. CASE p = "COMPLETE" /\ Complete(k, o, ts)
  BY <1>2, <1>3, CompleteStep
<1>4. CASE p = "START_TARGET" /\ CloseCacheGate(k, o, ts)
  BY <1>2, <1>4, CloseCacheGateStep
<1>5. CASE /\ p # "COMPLETE"
           /\ QueuePhase(k, ops, o, ts, p, nodes)
           /\ status' = IF p = "START_TARGET"
                        THEN [status EXCEPT ![o.dep] = "ROLLING_BACK",
                                            ![o.target] = "ROLLBACK_TARGET_PENDING"]
                        ELSE status
           /\ UNCHANGED verified
  <2>1. p \in Phases /\ nodes \in SUBSET Node
    BY <1>1, <1>5 DEF PhaseNodes
  <2>2. ops \in Seq(Operation) /\ GenerationsOK /\ k \in 1 .. Len(ops)
    BY TypeParts DEF TablesOK, OpIds
  <2>3. IsQueued(q, o, p, nodes)
    <3> HIDE DEF p, nodes
    <3> QED
      BY <2>1, QueuedTyped DEF q
  <2>4. PhaseStarted(k, ops, q, ts, nodes)
    <3> HIDE DEF p, nodes
    <3> QED
      BY <1>5, <2>1, <2>2, QueuePhaseEffect DEF q
  <2> HIDE DEF p, nodes, q
  <2>5. RowChanged(k, q) /\ Grown(tasks', ts, nodes, PhaseTasks(k, q), Len(ops'))
    BY <2>4 DEF PhaseStarted, RowChanged, OpIds
  <2>6. TablesOK'
    BY <2>5 DEF TablesOK, RowChanged, Grown
  <2>7. GenerationsOK'
    <3>1. /\ [status EXCEPT ![o.dep] = "ROLLING_BACK",
                            ![o.target] = "ROLLBACK_TARGET_PENDING"]
               \in [Deployment -> DeploymentStatus]
          /\ status \in [Deployment -> DeploymentStatus]
      BY <2>2 DEF GenerationsOK, DeploymentStatus
    <3> QED
      BY <1>2, <1>5, <2>2, <3>1 DEF GenerationsOK
  <2>8. /\ SameScope(q, o) /\ Moved(q) /\ q.active = o.active
        /\ q.phase \in Phases
        /\ \A n \in nodes : q.rec[q.phase][n].status = "QUEUED"
    <3>1. ASSUME NEW n \in nodes
          PROVE  q.rec[p][n].status = "QUEUED"
      <4>1. n \in Node
        BY <2>1
      <4>2. q.rec[p][n] = [status |-> "QUEUED", attempt |-> o.rec[p][n].attempt + 1]
        BY <2>1, <2>3, <4>1 DEF IsQueued
      <4> QED
        BY <4>2
    <3> QED
      BY <2>1, <2>3, <3>1 DEF IsQueued, Moved
  <2>9. OperationStep(k, o, ts)
    BY <2>1, <2>3, <2>5, <2>8 DEF OperationStep, IsQueued
  <2> QED
    BY <1>2, <2>6, <2>7, <2>9 DEF Progress
<1> QED
  BY <1>3, <1>4, <1>5 DEF AdvancePhase

(* A bound task has a phase and names a row of the table. *)
LEMMA BoundTask ==
  ASSUME TypeOK, NEW n \in Node, NEW i \in TaskIds(n), tasks[n][i].op # 0
  PROVE  /\ tasks[n][i] \in Task
         /\ tasks[n][i].op \in OpIds
         /\ tasks[n][i].phase \in Phases
         /\ ops[tasks[n][i].op] \in Operation
         /\ i \in 1 .. Len(tasks[n])
         /\ QueuesOK(tasks, Len(ops)) /\ Len(ops) \in Nat
         /\ ops \in Seq(Operation)
<1>1. ops \in Seq(Operation) /\ QueuesOK(tasks, Len(ops))
  BY TypeParts DEF TablesOK
<1>2. tasks[n] \in Seq(Task) /\ Len(ops) \in Nat /\ i \in 1 .. Len(tasks[n])
  BY <1>1, LenProperties DEF QueuesOK, TaskIds
<1>3. tasks[n][i] \in Task /\ tasks[n][i].op <= Len(ops)
  BY <1>1, <1>2, ElementOfSeq DEF QueuesOK
<1>4. tasks[n][i].op \in OpIds /\ tasks[n][i].phase \in Phases
  BY <1>2, <1>3, SMTT(30) DEF Task, OpIds
<1>5. ops[tasks[n][i].op] \in Operation
  BY <1>1, <1>4, ElementOfSeq DEF OpIds
<1> QED
  BY <1>1, <1>2, <1>3, <1>4, <1>5

(* The operation row and the queues right after task i of node n has ended.  *)
EndedRow(n, i, s) ==
  Outcome(ops[tasks[n][i].op], tasks[n][i].phase, n, s)
EndedQueues(n, i, s) == Closed(tasks, n, i, s)

(* Ending a bound task leaves well-typed rows and queues. *)
LEMMA EndedTyped ==
  ASSUME TypeOK, NEW n \in Node, NEW i \in TaskIds(n), tasks[n][i].op # 0,
         NEW s \in TaskStatus
  PROVE  /\ EndedRow(n, i, s) \in Operation
         /\ QueuesOK(EndedQueues(n, i, s), Len(ops))
         /\ Ended(EndedQueues(n, i, s), tasks, n, i, s, Len(ops))
         /\ IsOutcome(EndedRow(n, i, s), ops[tasks[n][i].op], tasks[n][i].phase,
                      n, s)
<1>1. /\ tasks[n][i].phase \in Phases
      /\ ops[tasks[n][i].op] \in Operation
      /\ i \in 1 .. Len(tasks[n])
      /\ QueuesOK(tasks, Len(ops)) /\ Len(ops) \in Nat
  BY BoundTask
<1>2. s \in RecordStatus
  BY DEF RecordStatus
<1>3. IsOutcome(EndedRow(n, i, s), ops[tasks[n][i].op], tasks[n][i].phase, n, s)
  BY <1>1, <1>2, OutcomeTyped DEF EndedRow
<1>4. Ended(EndedQueues(n, i, s), tasks, n, i, s, Len(ops))
  BY <1>1, ClosedEffect DEF EndedQueues
<1> QED
  BY <1>3, <1>4 DEF Ended, IsOutcome

(* Task i of node n, the current attempt of its record, has ended as s. *)
TaskEnded(n, i, s) ==
  /\ GenerationsOK' /\ CachesOK' /\ TablesOK'
  /\ IsCurrent(tasks[n][i], n)
  /\ OperationStep(tasks[n][i].op, EndedRow(n, i, s), EndedQueues(n, i, s))

(* finish_operation_task ends its task and moves its operation.              *)
LEMMA FinishBoundStep ==
  ASSUME TypeOK, NEW n \in Node, NEW i \in TaskIds(n), tasks[n][i].op # 0,
         NEW s \in {"SUCCEEDED", "FAILED"}, FinishBound(n, i, s)
  PROVE  TaskEnded(n, i, s)
<1> DEFINE t == tasks[n][i]
           k == t.op
           o == EndedRow(n, i, s)
           ts == EndedQueues(n, i, s)
<1>1. s \in TaskStatus
  BY DEF TaskStatus, LiveStatus
<1>2. o \in Operation /\ QueuesOK(ts, Len(ops))
  BY <1>1, EndedTyped DEF IsOutcome
<1>3. k \in OpIds
  BY BoundTask
<1>4. IsCurrent(t, n) /\ t.phase = o.phase /\ t.phase \in Phases
  <2>1. IsCurrent(t, n) /\ t.phase = ops[k].phase
    BY DEF FinishBound, IsCurrent
  <2>2. o.phase = ops[k].phase
    <3>1. IsOutcome(o, ops[k], t.phase, n, s)
      BY <1>1, EndedTyped
    <3> QED
      BY <3>1 DEF IsOutcome
  <2> QED
    BY <2>1, <2>2, BoundTask
<1>5. \/ FailPhase(k, o, ts)
      \/ PhaseDone(o, t.phase) /\ AdvancePhase(k, o, ts)
      \/ /\ ops' = [ops EXCEPT ![k] = [o EXCEPT !.status = "RUNNING"]]
         /\ tasks' = ts
         /\ UNCHANGED <<generations, prepared>>
  BY DEF FinishBound, EndedRow, EndedQueues
<1>6. ready' \subseteq ready
  BY DEF FinishBound
<1> HIDE DEF o, ts
<1>7. Progress(k, o, ts)
  <2>1. CASE FailPhase(k, o, ts)
    BY <1>2, <1>3, <1>4, <2>1, FailPhaseStep
  <2>2. CASE PhaseDone(o, t.phase) /\ AdvancePhase(k, o, ts)
    <3>1. Settled(o)
      BY <1>4, <2>2 DEF PhaseDone, Settled, Terminal
    <3> QED
      BY <1>2, <1>3, <2>2, <3>1, AdvancePhaseStep
  <2>3. CASE /\ ops' = [ops EXCEPT ![k] = [o EXCEPT !.status = "RUNNING"]]
             /\ tasks' = ts
             /\ UNCHANGED <<generations, prepared>>
    <3> DEFINE r == [o EXCEPT !.status = "RUNNING"]
    <3>1. /\ r \in Operation /\ SameScope(r, o) /\ Moved(r)
          /\ r.rec = o.rec /\ r.phase = o.phase /\ r.active = o.active
      BY <1>2, <1>4 DEF Operation, OperationStatus, SameScope, Moved
    <3> HIDE DEF r
    <3>2. ops \in Seq(Operation) /\ GenerationsOK
      BY TypeParts DEF TablesOK
    <3>3. ops' = [ops EXCEPT ![k] = r]
      BY <2>3 DEF r
    <3>4. RowChanged(k, r)
      BY <1>3, <3>1, <3>2, <3>3, OperationReplaced DEF RowChanged, OpIds
    <3>5. GenerationsOK'
      BY <2>3, <3>2 DEF GenerationsOK, generations
    <3>6. TablesOK'
      BY <1>2, <2>3, <3>4 DEF TablesOK, RowChanged
    <3> QED
      BY <2>3, <3>1, <3>4, <3>5, <3>6 DEF Progress, OperationStep
  <2> QED
    BY <1>5, <2>1, <2>2, <2>3
<1>8. CachesOK'
  BY <1>6, <1>7, TypeParts DEF CachesOK, Progress
<1> QED
  BY <1>4, <1>7, <1>8 DEF TaskEnded, Progress, o, ts

(* cancel_operation_task ends its task and fails its operation's phase.      *)
LEMMA CancelBoundStep ==
  ASSUME TypeOK, NEW n \in Node, NEW i \in TaskIds(n), tasks[n][i].op # 0,
         CancelBound(n, i)
  PROVE  TaskEnded(n, i, "CANCELED")
<1> DEFINE k == tasks[n][i].op
           o == EndedRow(n, i, "CANCELED")
           ts == EndedQueues(n, i, "CANCELED")
<1>1. "CANCELED" \in TaskStatus
  BY DEF TaskStatus, LiveStatus
<1>2. o \in Operation /\ QueuesOK(ts, Len(ops))
  BY <1>1, EndedTyped DEF IsOutcome
<1>3. k \in OpIds
  BY BoundTask
<1>4. /\ IsCurrent(tasks[n][i], n) /\ ready' = ready
      /\ FailPhase(k, o, ts) /\ o.phase \in Phases
  <2>1. IsOutcome(o, ops[k], tasks[n][i].phase, n, "CANCELED")
    BY <1>1, EndedTyped
  <2>2. tasks[n][i].phase \in Phases
    BY BoundTask
  <2> QED
    BY <2>1, <2>2 DEF CancelBound, EndedRow, EndedQueues, IsOutcome, IsCurrent
<1> HIDE DEF o, ts
<1>5. Progress(k, o, ts)
  BY <1>2, <1>3, <1>4, FailPhaseStep
<1>6. CachesOK'
  BY <1>4, <1>5, TypeParts DEF CachesOK, Progress
<1> QED
  BY <1>4, <1>5, <1>6 DEF TaskEnded, Progress, o, ts

----------------------------------------------------------------------------
(* Effects of the remaining actions on the tables *)

(* The tables before a step. *)
LEMMA Tables ==
  ASSUME TypeOK
  PROVE  /\ ops \in Seq(Operation) /\ Len(ops) \in Nat
         /\ QueuesOK(tasks, Len(ops))
         /\ tasks \in [Node -> Seq(Task)]
         /\ \A n \in Node : Len(tasks[n]) \in Nat /\ TaskIds(n) = 1 .. Len(tasks[n])
         /\ \A n \in Node : \A i \in TaskIds(n) : tasks[n][i] \in Task
         /\ \A k \in OpIds : ops[k] \in Operation
<1>1. ops \in Seq(Operation) /\ QueuesOK(tasks, Len(ops))
  BY TypeParts DEF TablesOK
<1>2. tasks \in [Node -> Seq(Task)]
  BY <1>1 DEF QueuesOK
<1>3. \A n \in Node : Len(tasks[n]) \in Nat /\ TaskIds(n) = 1 .. Len(tasks[n])
  BY <1>2, LenProperties DEF TaskIds
<1>4. \A n \in Node : \A i \in TaskIds(n) : tasks[n][i] \in Task
  BY <1>2, <1>3, ElementOfSeq
<1>5. \A k \in OpIds : ops[k] \in Operation
  BY <1>1, ElementOfSeq DEF OpIds
<1> QED
  BY <1>1, <1>2, <1>3, <1>4, <1>5, LenProperties

(* Task i of node n is now u; no other task has changed. *)
TaskChanged(n, i, u) ==
  /\ QueuesOK(tasks', Len(ops))
  /\ \A q \in Node : Len(tasks'[q]) = Len(tasks[q])
  /\ \A q \in Node : \A j \in TaskIds(q) :
       tasks'[q][j] = IF q = n /\ j = i THEN u ELSE tasks[q][j]

(* A task replaced by one of the same operation. *)
LEMMA TaskStep ==
  ASSUME TypeOK, NEW n \in Node, NEW i \in TaskIds(n), NEW u \in Task,
         u.op = tasks[n][i].op, tasks' = [tasks EXCEPT ![n][i] = u]
  PROVE  TaskChanged(n, i, u)
<1>1. /\ QueuesOK(tasks, Len(ops)) /\ Len(ops) \in Nat
      /\ i \in 1 .. Len(tasks[n]) /\ tasks[n][i].op <= Len(ops)
  BY Tables DEF QueuesOK
<1>2. Replaced([tasks EXCEPT ![n][i] = u], tasks, n, i, u, Len(ops))
  BY <1>1, TaskReplaced
<1> QED
  BY <1>2 DEF TaskChanged, TaskIds, Replaced

(* u is t, leased or not, as far as its operation can tell. *)
SameWork(u, t) ==
  /\ u.op = t.op /\ u.phase = t.phase /\ u.attempt = t.attempt
  /\ u.type = t.type /\ u.dep = t.dep

(* A task with another status and lease is the same work. *)
Relabeled(t, s, c) == [t EXCEPT !.status = s, !.lease = c]
(* Another status and lease leave a task the same work. *)
LEMMA RelabeledTyped ==
  ASSUME NEW t \in Task, NEW s \in TaskStatus, NEW c \in 0 .. LeaseTicks
  PROVE  /\ Relabeled(t, s, c) \in Task
         /\ SameWork(Relabeled(t, s, c), t)
         /\ Relabeled(t, s, c).status = s
BY DEF Task, Relabeled, SameWork

(* A task with another lease alone is the same work too. *)
Released(t, c) == [t EXCEPT !.lease = c]
(* So does another lease alone. *)
LEMMA ReleasedTyped ==
  ASSUME NEW t \in Task, NEW c \in 0 .. LeaseTicks
  PROVE  /\ Released(t, c) \in Task
         /\ SameWork(Released(t, c), t)
         /\ Released(t, c).status = t.status
BY DEF Task, Released, SameWork

(* Leasing an old task, or any change of a lease, keeps the task table typed. *)
LeaseStep(n, i) ==
  \E u \in Task : SameWork(u, tasks[n][i]) /\ TaskChanged(n, i, u)
                  /\ u.status = tasks[n][i].status

(* A tick changes one lease. *)
LEMMA TickStep ==
  ASSUME TypeOK, NEW n \in Node, NEW i \in TaskIds(n), Tick(n, i)
  PROVE  LeaseStep(n, i)
<1> DEFINE t == tasks[n][i]
           c == t.lease - 1
           u == Released(t, c)
<1>1. t \in Task
  BY Tables
<1>2. c \in 0 .. LeaseTicks
  BY <1>1, BoundAssumption DEF Tick, Task
<1>3. tasks' = [tasks EXCEPT ![n][i] = u]
  BY DEF Tick, Released
<1> HIDE DEF t, c
<1>4. u \in Task /\ SameWork(u, t) /\ u.status = t.status
  BY <1>1, <1>2, ReleasedTyped
<1> HIDE DEF u
<1> QED
  BY <1>3, <1>4, TaskStep DEF LeaseStep, SameWork, t

(* extend_task changes one lease. *)
LEMMA ExtendStep ==
  ASSUME TypeOK, NEW n \in Node, NEW i \in TaskIds(n), Extend(n, i)
  PROVE  LeaseStep(n, i)
<1> DEFINE t == tasks[n][i]
           u == Released(t, LeaseTicks)
<1>1. t \in Task
  BY Tables
<1>2. LeaseTicks \in 0 .. LeaseTicks
  BY BoundAssumption
<1>3. tasks' = [tasks EXCEPT ![n][i] = u]
  BY DEF Extend, Renewed, Released
<1> HIDE DEF t
<1>4. u \in Task /\ SameWork(u, t) /\ u.status = t.status
  BY <1>1, <1>2, ReleasedTyped
<1> HIDE DEF u
<1> QED
  BY <1>3, <1>4, TaskStep DEF LeaseStep, SameWork, t

(* A task that no operation tracks ends and nothing else moves. *)
LEMMA DirectEnded ==
  ASSUME TypeOK, NEW n \in Node, NEW i \in TaskIds(n), NEW s \in TaskStatus,
         tasks' = Closed(tasks, n, i, s)
  PROVE  \E u \in Task : /\ TaskChanged(n, i, u) /\ SameWork(u, tasks[n][i])
                         /\ u.status = s
<1> DEFINE t == tasks[n][i]
           u == Relabeled(t, s, 0)
<1>1. t \in Task /\ 0 \in 0 .. LeaseTicks
  BY Tables, BoundAssumption
<1>2. tasks' = [tasks EXCEPT ![n][i] = u]
  BY DEF Closed, Relabeled
<1> HIDE DEF t
<1>3. u \in Task /\ SameWork(u, t) /\ u.status = s
  BY <1>1, RelabeledTyped
<1> HIDE DEF u
<1> QED
  BY <1>2, <1>3, TaskStep DEF SameWork, t

(* claim_task leases one task and marks its record. *)
Leases(n, i) ==
  /\ \E u \in Task : /\ TaskChanged(n, i, u) /\ SameWork(u, tasks[n][i])
                     /\ u.status = "RUNNING"
  /\ tasks[n][i].op = 0 => ops' = ops
  /\ tasks[n][i].op # 0 =>
       LET k == tasks[n][i].op
       IN  \E r \in Operation :
             /\ RowChanged(k, r) /\ r.status = "RUNNING"
             /\ \E o : /\ IsOutcome(o, ops[k], tasks[n][i].phase, n, "RUNNING")
                       /\ SameScope(r, o) /\ r.active = o.active
                       /\ r.rec = o.rec /\ r.phase = o.phase

(* claim_task marks the task and, if it is bound, its record and operation. *)
LEMMA ClaimStep ==
  ASSUME TypeOK, NEW n \in Node, NEW i \in TaskIds(n), Claim(n, i)
  PROVE  Leases(n, i)
<1> DEFINE t == tasks[n][i]
           u == Relabeled(t, "RUNNING", LeaseTicks)
<1>1. t \in Task /\ LeaseTicks \in 0 .. LeaseTicks
  BY Tables, BoundAssumption
<1>2. tasks' = [tasks EXCEPT ![n][i] = u]
  BY DEF Claim, Relabeled
<1>3. "RUNNING" \in TaskStatus /\ "RUNNING" \in RecordStatus
  BY DEF TaskStatus, LiveStatus, RecordStatus
<1>4. \E v \in Task : /\ TaskChanged(n, i, v) /\ SameWork(v, t)
                      /\ v.status = "RUNNING"
  <2> HIDE DEF t
  <2>1. u \in Task /\ SameWork(u, t) /\ u.status = "RUNNING"
    BY <1>1, <1>3, RelabeledTyped
  <2> HIDE DEF u
  <2> QED
    BY <1>2, <2>1, TaskStep DEF SameWork, t
<1>5. CASE t.op = 0
  BY <1>4, <1>5 DEF Claim, Leases
<1>6. CASE t.op # 0
  <2> DEFINE k == t.op
             o == Outcome(ops[k], t.phase, n, "RUNNING")
             r == [o EXCEPT !.status = "RUNNING"]
  <2>1. /\ k \in OpIds /\ ops[k] \in Operation /\ t.phase \in Phases
        /\ ops \in Seq(Operation)
    BY <1>6, BoundTask
  <2>2. ops' = [ops EXCEPT ![k] = r]
    BY <1>6, <2>1 DEF Claim
  <2>3. IsOutcome(o, ops[k], t.phase, n, "RUNNING")
    BY <1>3, <2>1, OutcomeTyped
  <2> HIDE DEF o
  <2>4. /\ r \in Operation /\ SameScope(r, o) /\ r.status = "RUNNING"
        /\ r.active = o.active /\ r.rec = o.rec /\ r.phase = o.phase
    BY <2>3 DEF IsOutcome, Operation, OperationStatus, SameScope
  <2> HIDE DEF r
  <2>5. RowChanged(k, r)
    BY <2>1, <2>2, <2>4, OperationReplaced DEF RowChanged, OpIds
  <2> QED
    BY <1>4, <1>6, <2>3, <2>4, <2>5 DEF Leases
<1> QED
  BY <1>5, <1>6

(* The rows a new operation starts with. *)
LEMMA RowsTyped ==
  ASSUME NEW d \in Deployment, NEW nodes \in SUBSET Node,
         NEW nodePhases \in SUBSET Phases, NEW serve \in BOOLEAN
  PROVE  RowsOf(d, nodes, nodePhases, serve) \in [Phases -> [Node -> Record]]
BY DEF RowsOf, Record, RecordStatus

(* New operations are rows of the table. *)
LEMMA NewGenericTyped ==
  ASSUME NEW kind \in {"APPLY", "VERIFY"}, NEW d \in Deployment,
         NEW nodes \in SUBSET Node, NEW serve \in BOOLEAN
  PROVE  LET o == NewGeneric(kind, d, nodes, serve)
         IN  /\ o \in Operation /\ o.active = TRUE
             /\ o.dep = d /\ o.nodes = nodes
<1> DEFINE rec == RowsOf(d, nodes, {kind}, serve)
<1>1. rec \in [Phases -> [Node -> Record]]
  BY RowsTyped DEF Phases
<1> HIDE DEF rec
<1>2. NoDeployment \notin Deployment /\ kind \in Phases
  BY PlanAssumption DEF Phases
<1>3. NewGeneric(kind, d, nodes, serve) =
        [kind |-> kind, dep |-> d, target |-> NoDeployment, nodes |-> nodes,
         serve |-> serve, active |-> TRUE, phase |-> kind, status |-> "QUEUED",
         rec |-> rec]
  BY DEF NewGeneric, rec
<1> QED
  BY <1>1, <1>2, <1>3 DEF Operation, OperationStatus

(* A new rollback is an inactive, PREPARED row. *)
LEMMA NewRollbackTyped ==
  ASSUME NEW s \in Deployment, NEW serve \in BOOLEAN, Previous[s] # NoDeployment
  PROVE  LET o == NewRollback(s, serve)
         IN  /\ o \in Operation /\ o.active = FALSE
             /\ o.dep = s /\ o.nodes = Assigned[s] /\ o.status = "PREPARED"
<1> DEFINE rec == RowsOf(Previous[s], Assigned[s],
                         {"STOP_SOURCE", "START_TARGET", "VERIFY_TARGET"}, serve)
<1>1. Previous[s] \in Deployment /\ Assigned[s] \in SUBSET Node
  BY PlanAssumption
<1>2. rec \in [Phases -> [Node -> Record]]
  BY <1>1, RowsTyped DEF Phases
<1> HIDE DEF rec
<1>3. NewRollback(s, serve) =
        [kind |-> "ROLLBACK", dep |-> s, target |-> Previous[s],
         nodes |-> Assigned[s], serve |-> serve, active |-> FALSE,
         phase |-> "STOP_SOURCE", status |-> "PREPARED", rec |-> rec]
  BY DEF NewRollback, rec
<1> QED
  BY <1>1, <1>2, <1>3 DEF Operation, OperationStatus, Phases

(* A table with one row more holds the old rows. *)
LEMMA OperationAppended ==
  ASSUME TypeOK, NEW o \in Operation
  PROVE  /\ Append(ops, o) \in Seq(Operation)
         /\ Len(Append(ops, o)) = Len(ops) + 1
         /\ \A k \in OpIds : Append(ops, o)[k] = ops[k]
         /\ Append(ops, o)[Len(ops) + 1] = o
         /\ QueuesOK(tasks, Len(Append(ops, o)))
<1>1. ops \in Seq(Operation) /\ Len(ops) \in Nat /\ QueuesOK(tasks, Len(ops))
  BY Tables
<1>2. /\ Append(ops, o) \in Seq(Operation)
      /\ Len(Append(ops, o)) = Len(ops) + 1
      /\ \A k \in OpIds : Append(ops, o)[k] = ops[k]
      /\ Append(ops, o)[Len(ops) + 1] = o
  BY <1>1, AppendProperties DEF OpIds
<1>3. \A n \in Node : \A i \in 1 .. Len(tasks[n]) :
        tasks[n][i].op <= Len(ops) + 1
  <2>1. SUFFICES ASSUME NEW n \in Node, NEW i \in 1 .. Len(tasks[n])
                 PROVE  tasks[n][i].op <= Len(ops) + 1
    OBVIOUS
  <2>2. tasks[n][i] \in Task /\ tasks[n][i].op <= Len(ops)
    BY <1>1, Tables DEF QueuesOK
  <2>3. tasks[n][i].op \in Nat
    BY <2>2 DEF Task
  <2> QED
    BY <1>1, <2>2, <2>3
<1> QED
  BY <1>1, <1>2, <1>3 DEF QueuesOK

(* An operation starts a phase: row k of the table all, which was o, gets new *)
(* attempts for nodes and a task for each of them.                           *)
Starts(k, all, o, p, nodes) ==
  \E q \in Operation : /\ IsQueued(q, o, p, nodes)
                       /\ PhaseStarted(k, all, q, tasks, nodes)

(* _queue_phase starts a phase. *)
LEMMA PhaseStarts ==
  ASSUME NEW all \in Seq(Operation), NEW k \in 1 .. Len(all),
         NEW o \in Operation, QueuesOK(tasks, Len(all)),
         NEW p \in Phases, NEW nodes \in SUBSET Node,
         QueuePhase(k, all, o, tasks, p, nodes)
  PROVE  Starts(k, all, o, p, nodes) /\ TablesOK'
<1> DEFINE q == Queued(o, p, nodes)
<1>1. IsQueued(q, o, p, nodes)
  BY QueuedTyped
<1>2. PhaseStarted(k, all, q, tasks, nodes)
  BY QueuePhaseEffect
<1>3. q \in Operation
  BY <1>1 DEF IsQueued
<1> HIDE DEF q
<1> QED
  BY <1>1, <1>2, <1>3 DEF Starts, TablesOK, PhaseStarted, Grown

(* create_tasks for APPLY and VERIFY appends an operation in its first phase. *)
LEMMA CreateBulkStep ==
  ASSUME TypeOK, NEW kind \in {"APPLY", "VERIFY"}, NEW d \in Deployment,
         NEW nodes \in SUBSET Node, NEW serve \in BOOLEAN,
         CreateBulk(kind, d, nodes, serve)
  PROVE  LET o == NewGeneric(kind, d, nodes, serve)
         IN  /\ TablesOK'
             /\ Starts(Len(ops) + 1, Append(ops, o), o, kind, nodes)
<1> DEFINE o == NewGeneric(kind, d, nodes, serve)
           all == Append(ops, o)
           k == Len(ops) + 1
<1>1. o \in Operation
  BY NewGenericTyped
<1>2. QueuePhase(k, all, o, tasks, kind, nodes)
  BY DEF CreateBulk
<1>3. kind \in Phases
  BY DEF Phases
<1> HIDE DEF o
<1>4. all \in Seq(Operation) /\ k \in 1 .. Len(all) /\ QueuesOK(tasks, Len(all))
  BY <1>1, OperationAppended, Tables
<1> HIDE DEF all, k
<1>5. TablesOK' /\ Starts(k, all, o, kind, nodes)
  BY <1>1, <1>2, <1>3, <1>4, PhaseStarts
<1> QED
  BY <1>5 DEF o, all, k

(* Tasks that no operation tracks are appended to the queues of nodes. *)
DirectTasks(type, d) == [n \in Node |-> Direct(type, d)]
(* The new task of a direct request names no operation. *)
LEMMA DirectTyped ==
  ASSUME NEW type \in DirectTypes \cup {"UNJOIN"},
         NEW d \in Deployment \cup {NoDeployment}
  PROVE  /\ DirectTasks(type, d) \in [Node -> Task]
         /\ Direct(type, d) \in Task /\ Direct(type, d).op = 0
BY BoundAssumption DEF DirectTasks, Direct, Task, TaskTypes, TaskStatus, LiveStatus, Phases

(* create_tasks for START, STOP and RESTART only appends tasks. *)
LEMMA CreateDirectStep ==
  ASSUME TypeOK, NEW type \in DirectTypes, NEW d \in Deployment,
         NEW nodes \in SUBSET Node, CreateDirect(type, d, nodes)
  PROVE  Grown(tasks', tasks, nodes, DirectTasks(type, d), Len(ops))
<1> DEFINE f == DirectTasks(type, d)
<1>1. f \in [Node -> Task] /\ \A n \in nodes : f[n].op <= Len(ops)
  BY DirectTyped, Tables DEF DirectTasks
<1>2. QueuesOK(tasks, Len(ops)) /\ Len(ops) \in Nat
  BY Tables
<1>3. tasks' = Appended(tasks, nodes, f)
  BY DEF CreateDirect, Appended, DirectTasks
<1> HIDE DEF f
<1>4. Grown(Appended(tasks, nodes, f), tasks, nodes, f, Len(ops))
  BY <1>1, <1>2, TasksAppended
<1> QED
  BY <1>3, <1>4 DEF f

(* create_tasks for UNJOIN_NODE appends one task. *)
LEMMA CreateUnjoinStep ==
  ASSUME TypeOK, NEW n \in Node, CreateUnjoin(n)
  PROVE  Grown(tasks', tasks, {n}, DirectTasks("UNJOIN", NoDeployment), Len(ops))
<1> DEFINE f == DirectTasks("UNJOIN", NoDeployment)
<1>1. f \in [Node -> Task] /\ \A m \in {n} : f[m].op <= Len(ops)
  <2>1. /\ f \in [Node -> Task]
        /\ Direct("UNJOIN", NoDeployment).op = 0 /\ Len(ops) \in Nat
    BY DirectTyped, Tables
  <2>2. f[n] = Direct("UNJOIN", NoDeployment)
    BY DEF DirectTasks
  <2> QED
    BY <2>1, <2>2
<1>2. /\ QueuesOK(tasks, Len(ops)) /\ Len(ops) \in Nat
      /\ tasks \in [Node -> Seq(Task)]
  BY Tables
<1>3. tasks' = Appended(tasks, {n}, f)
  <2>1. tasks' = [tasks EXCEPT ![n] = Append(tasks[n], Direct("UNJOIN", NoDeployment))]
    BY DEF CreateUnjoin
  <2> QED
    BY <1>2, <2>1 DEF Appended, DirectTasks
<1> HIDE DEF f
<1>4. Grown(Appended(tasks, {n}, f), tasks, {n}, f, Len(ops))
  BY <1>1, <1>2, TasksAppended
<1> QED
  BY <1>3, <1>4 DEF f

(* The applied row of a prepared or failed rollback is a row of the table. *)
Applied(o) == [o EXCEPT !.active = TRUE]
(* Marking a row active changes nothing else of it. *)
LEMMA AppliedTyped ==
  ASSUME NEW o \in Operation
  PROVE  /\ Applied(o) \in Operation /\ Applied(o).active = TRUE
         /\ Applied(o).nodes = o.nodes /\ Applied(o).dep = o.dep
         /\ Applied(o).rec = o.rec /\ Applied(o).phase = o.phase
BY DEF Applied, Operation

(* The table a rollback request works on: the new row at its end, if the      *)
(* request creates it.                                                       *)
RollbackRows(s, serve) ==
  IF SameRollback(s, serve) = {} THEN Append(ops, NewRollback(s, serve)) ELSE ops

(* That table holds every old row, and at most the prepared row besides. *)
LEMMA RollbackRowsTyped ==
  ASSUME TypeOK, NEW s \in Deployment, NEW serve \in BOOLEAN,
         Previous[s] # NoDeployment
  PROVE  LET all == RollbackRows(s, serve)
         IN  /\ all \in Seq(Operation) /\ QueuesOK(tasks, Len(all))
             /\ Len(all) \in {Len(ops), Len(ops) + 1}
             /\ \A j \in OpIds : j \in 1 .. Len(all) /\ all[j] = ops[j]
             /\ Len(all) = Len(ops) + 1 =>
                  all[Len(all)] = NewRollback(s, serve)
<1>1. NewRollback(s, serve) \in Operation
  BY NewRollbackTyped
<1>2. /\ ops \in Seq(Operation) /\ Len(ops) \in Nat
      /\ QueuesOK(tasks, Len(ops))
  BY Tables
<1>3. CASE SameRollback(s, serve) = {}
  <2>1. RollbackRows(s, serve) = Append(ops, NewRollback(s, serve))
    BY <1>3 DEF RollbackRows
  <2> QED
    BY <1>1, <1>2, <2>1, OperationAppended DEF OpIds
<1>4. CASE SameRollback(s, serve) # {}
  <2>1. RollbackRows(s, serve) = ops
    BY <1>4 DEF RollbackRows
  <2> QED
    BY <1>2, <2>1 DEF OpIds
<1> QED
  BY <1>3, <1>4

(* apply=True on a prepared rollback starts STOP_SOURCE on all its nodes.     *)
LEMMA ApplyRollbackStep ==
  ASSUME TypeOK, NEW s \in Deployment, NEW serve \in BOOLEAN,
         Previous[s] # NoDeployment, NEW k \in 1 .. Len(ops) + 1,
         ApplyRollback(s, serve, k)
  PROVE  LET all == RollbackRows(s, serve)
         IN  /\ TablesOK' /\ k \in 1 .. Len(all)
             /\ Starts(k, all, Applied(all[k]), "STOP_SOURCE", all[k].nodes)
<1> DEFINE all == RollbackRows(s, serve)
<1>1. /\ QueuePhase(k, all, Applied(all[k]), tasks, "STOP_SOURCE", all[k].nodes)
      /\ \/ SameRollback(s, serve) = {} /\ k = Len(all)
         \/ SameRollback(s, serve) # {} /\ k \in SameRollback(s, serve)
  BY DEF ApplyRollback, RollbackRows, Applied
<1>2. /\ all \in Seq(Operation) /\ QueuesOK(tasks, Len(all))
      /\ Len(all) \in {Len(ops), Len(ops) + 1}
      /\ Len(ops) \in Nat
  BY RollbackRowsTyped, Tables
<1>3. k \in 1 .. Len(all)
  <2>1. CASE SameRollback(s, serve) = {}
    BY <1>1, <1>2, <2>1
  <2>2. CASE SameRollback(s, serve) # {}
    BY <1>1, <1>2, <2>2 DEF SameRollback
  <2> QED
    BY <2>1, <2>2
<1> HIDE DEF all
<1>4. all[k] \in Operation
  BY <1>2, <1>3, ElementOfSeq
<1>5. /\ Applied(all[k]) \in Operation /\ "STOP_SOURCE" \in Phases
      /\ all[k].nodes \in SUBSET Node
  BY <1>4, AppliedTyped, OperationFields DEF Phases
<1>6. Starts(k, all, Applied(all[k]), "STOP_SOURCE", all[k].nodes) /\ TablesOK'
  BY <1>1, <1>2, <1>3, <1>5, PhaseStarts
<1> QED
  BY <1>3, <1>6 DEF all

RowOK(o) ==
  /\ o.phase = "COMPLETE" => o.status = "SUCCEEDED"
  /\ o.status = "PREPARED" => ~o.active
RowsOK == \A k \in OpIds : RowOK(ops[k])
TypeInv == TypeOK /\ RowsOK

(* apply=True on a failed rollback starts its phase again on failed nodes.    *)
LEMMA RetryRollbackStep ==
  ASSUME TypeInv, NEW s \in Deployment, NEW serve \in BOOLEAN,
         NEW k \in OpIds, RetryRollback(s, serve, k)
  PROVE  /\ TablesOK' /\ ops[k].phase \in Phases
         /\ Starts(k, ops, Applied(ops[k]), ops[k].phase, RetryNodes(ops[k]))
<1>1. TypeOK /\ RowOK(ops[k])
  BY DEF TypeInv, RowsOK
<1>2. /\ ops \in Seq(Operation) /\ QueuesOK(tasks, Len(ops))
      /\ ops[k] \in Operation /\ k \in 1 .. Len(ops)
  BY <1>1, Tables DEF OpIds
<1>3. ops[k].phase \in Phases
  BY <1>1, <1>2, OperationFields DEF RetryRollback, RowOK
<1>4. QueuePhase(k, ops, Applied(ops[k]), tasks, ops[k].phase, RetryNodes(ops[k]))
  BY DEF RetryRollback, Applied
<1>5. Applied(ops[k]) \in Operation
  BY <1>2, AppliedTyped
<1>6. RetryNodes(ops[k]) \in SUBSET Node
  BY DEF RetryNodes, FailedNodes
<1> QED
  BY <1>2, <1>3, <1>4, <1>5, <1>6, PhaseStarts

(* Starting a phase leaves every other row alone. *)
LEMMA StartsRows ==
  ASSUME NEW all, NEW k \in 1 .. Len(all), NEW o, NEW p \in Phases, NEW nodes,
         Starts(k, all, o, p, nodes)
  PROVE  /\ Len(ops') = Len(all)
         /\ \A j \in 1 .. Len(all) : j # k => ops'[j] = all[j]
         /\ RowOK(ops'[k])
         /\ SameScope(ops'[k], o) /\ ops'[k].active = o.active
<1>1. PICK q \in Operation : /\ IsQueued(q, o, p, nodes)
                             /\ PhaseStarted(k, all, q, tasks, nodes)
  BY DEF Starts
<1>2. /\ Len(ops') = Len(all) /\ ops'[k] = q
      /\ \A j \in 1 .. Len(all) : j # k => ops'[j] = all[j]
  BY <1>1 DEF PhaseStarted
<1>3. RowOK(q)
  BY <1>1 DEF IsQueued, RowOK, Phases
<1> QED
  BY <1>1, <1>2, <1>3 DEF IsQueued

----------------------------------------------------------------------------
(* Type correctness *)

(* A step of one operation keeps every row consistent. *)
LEMMA OperationStepRows ==
  ASSUME TypeInv, NEW k \in OpIds, NEW o, NEW ts, OperationStep(k, o, ts)
  PROVE  RowsOK'
<1>1. PICK r \in Operation : RowChanged(k, r) /\ Moved(r)
  BY DEF OperationStep
<1>2. RowOK(r)
  BY <1>1 DEF Moved, RowOK, Phases
<1> QED
  BY <1>1, <1>2 DEF RowChanged, RowsOK, TypeInv, OpIds

(* A task that has ended leaves both tables typed and consistent. *)
LEMMA TaskEndedInv ==
  ASSUME TypeInv, NEW n \in Node, NEW i \in TaskIds(n), tasks[n][i].op # 0,
         NEW s \in TaskStatus, TaskEnded(n, i, s)
  PROVE  GenerationsOK' /\ CachesOK' /\ TablesOK' /\ RowsOK'
<1>1. tasks[n][i].op \in OpIds
  BY BoundTask DEF TypeInv
<1> QED
  BY <1>1, OperationStepRows DEF TaskEnded

(* An end of a bound task by any of the paths that lead to it. *)
LEMMA EndPaths ==
  ASSUME TypeInv, NEW n \in Node, NEW i \in TaskIds(n), tasks[n][i].op # 0,
         \/ \E s \in {"SUCCEEDED", "FAILED"} : FinishBound(n, i, s)
         \/ CancelBound(n, i)
  PROVE  \E s \in {"SUCCEEDED", "FAILED", "CANCELED"} : TaskEnded(n, i, s)
<1>1. TypeOK
  BY DEF TypeInv
<1>2. CASE CancelBound(n, i)
  BY <1>1, <1>2, CancelBoundStep
<1>3. ASSUME NEW s \in {"SUCCEEDED", "FAILED"}, FinishBound(n, i, s)
      PROVE  TaskEnded(n, i, s)
  BY <1>1, <1>3, FinishBoundStep
<1> QED
  BY <1>2, <1>3

(* The same, with the invariant it keeps. *)
LEMMA EndInv ==
  ASSUME TypeInv, NEW n \in Node, NEW i \in TaskIds(n), tasks[n][i].op # 0,
         \/ \E s \in {"SUCCEEDED", "FAILED"} : FinishBound(n, i, s)
         \/ CancelBound(n, i)
  PROVE  GenerationsOK' /\ CachesOK' /\ TablesOK' /\ RowsOK'
<1>1. PICK s \in {"SUCCEEDED", "FAILED", "CANCELED"} : TaskEnded(n, i, s)
  BY EndPaths
<1>2. s \in TaskStatus
  BY DEF TaskStatus, LiveStatus
<1> QED
  BY <1>1, <1>2, TaskEndedInv

(* A changed task of the same work keeps both tables. *)
LEMMA TaskChangedInv ==
  ASSUME TypeInv, ops' = ops,
         NEW n \in Node, NEW i \in TaskIds(n), NEW u, TaskChanged(n, i, u)
  PROVE  TablesOK' /\ RowsOK'
<1>1. ops \in Seq(Operation)
  BY Tables DEF TypeInv
<1> QED
  BY <1>1 DEF TypeInv, TaskChanged, TablesOK, RowsOK, OpIds

(* The admin requests keep the invariant. *)
LEMMA RequestInv ==
  ASSUME TypeInv, Request
  PROVE  TypeInv'
<1>1. TypeOK /\ RowsOK /\ MembershipOK /\ GenerationsOK /\ CachesOK /\ TablesOK
  BY TypeParts DEF TypeInv
<1>2. SUFFICES MembershipOK' /\ GenerationsOK' /\ CachesOK' /\ TablesOK' /\ RowsOK'
  BY TypeParts DEF TypeInv
<1>3. ASSUME NEW d \in Deployment, Accept(d) \/ Prepare(d)
      PROVE  TypeInv'
  <2>1. UNCHANGED <<membership, tasks, ops, status, verified>>
    BY <1>3 DEF Accept, Prepare, generations
  <2>2. accepted' \subseteq Deployment /\ CachesOK'
    <3>1. CASE Accept(d)
      BY <1>1, <3>1 DEF Accept, GenerationsOK, CachesOK, caches
    <3>2. CASE Prepare(d)
      <4>1. Assigned[d] \subseteq Node /\ d \in Recommended /\ d \in Deployment
        BY <3>2, PlanAssumption DEF Prepare
      <4>2. {<<n, Artifact[d]>> : n \in Assigned[d]}
              \subseteq {<<n, Artifact[e]>> : n \in Node, e \in Recommended}
        BY <4>1
      <4> QED
        BY <1>1, <3>2, <4>1, <4>2 DEF Prepare, GenerationsOK, CachesOK, generations
    <3> QED
      BY <1>3, <3>1, <3>2
  <2>3. GenerationsOK' /\ MembershipOK'
    BY <1>1, <2>1, <2>2 DEF GenerationsOK, MembershipOK, membership
  <2>4. TablesOK' /\ RowsOK'
    BY <1>1, <2>1 DEF TablesOK, RowsOK, OpIds
  <2> QED
    BY <2>2, <2>3, <2>4, TypeParts DEF TypeInv
<1>4. ASSUME NEW kind \in {"APPLY", "VERIFY"}, NEW d \in Deployment,
             NEW nodes \in SUBSET Node, NEW serve \in ServeOptions,
             CreateBulk(kind, d, nodes, serve)
      PROVE  TypeInv'
  <2> DEFINE o == NewGeneric(kind, d, nodes, serve)
             all == Append(ops, o)
             k == Len(ops) + 1
  <2>1. serve \in BOOLEAN
    BY ScopeAssumption
  <2>2. TablesOK' /\ Starts(k, all, o, kind, nodes)
    BY <1>1, <1>4, <2>1, CreateBulkStep
  <2>3. o \in Operation
    BY <2>1, NewGenericTyped
  <2> HIDE DEF o
  <2>4. /\ k \in 1 .. Len(all) /\ Len(all) = k
        /\ \A j \in OpIds : all[j] = ops[j]
    <3>1. Len(ops) \in Nat
      BY <1>1, Tables
    <3>2. Len(all) = k /\ \A j \in OpIds : all[j] = ops[j]
      BY <1>1, <2>3, OperationAppended
    <3>3. k \in 1 .. k
      BY <3>1
    <3> HIDE DEF all, k
    <3> QED
      BY <3>2, <3>3
  <2>5. kind \in Phases /\ \A j \in 1 .. Len(all) : j = k \/ j \in OpIds
    BY <1>1, <2>4, Tables DEF Phases, OpIds
  <2> HIDE DEF all, k
  <2>6. /\ Len(ops') = Len(all) /\ RowOK(ops'[k])
        /\ \A j \in 1 .. Len(all) : j # k => ops'[j] = all[j]
    BY <2>2, <2>4, <2>5, StartsRows
  <2>7. RowsOK'
    BY <1>1, <2>4, <2>5, <2>6 DEF RowsOK, OpIds
  <2>8. GenerationsOK'
    <3>1. status' \in [Deployment -> DeploymentStatus]
      BY <1>1, <1>4 DEF CreateBulk, GenerationsOK, DeploymentStatus
    <3> QED
      BY <1>1, <1>4, <3>1 DEF CreateBulk, GenerationsOK, EvidenceWhenQueued
  <2>9. MembershipOK' /\ CachesOK'
    BY <1>1, <1>4 DEF CreateBulk, MembershipOK, CachesOK, membership, caches
  <2> QED
    BY <2>2, <2>7, <2>8, <2>9, TypeParts DEF TypeInv
<1>5. ASSUME NEW type \in DirectTypes, NEW d \in Deployment,
             NEW nodes \in SUBSET Node, CreateDirect(type, d, nodes)
      PROVE  TypeInv'
  <2>1. QueuesOK(tasks', Len(ops)) /\ ops' = ops
    BY <1>1, <1>5, CreateDirectStep DEF Grown, CreateDirect
  <2>2. TablesOK' /\ RowsOK'
    BY <1>1, <2>1 DEF TablesOK, RowsOK, OpIds
  <2>3. GenerationsOK' /\ MembershipOK' /\ CachesOK'
    BY <1>1, <1>5 DEF CreateDirect, GenerationsOK, MembershipOK, CachesOK,
                      membership, caches
  <2> QED
    BY <2>2, <2>3, TypeParts DEF TypeInv
<1>6. ASSUME NEW n \in Node, CreateUnjoin(n)
      PROVE  TypeInv'
  <2>1. QueuesOK(tasks', Len(ops)) /\ ops' = ops
    BY <1>1, <1>6, CreateUnjoinStep DEF Grown, CreateUnjoin
  <2>2. TablesOK' /\ RowsOK'
    BY <1>1, <2>1 DEF TablesOK, RowsOK, OpIds
  <2>3. GenerationsOK' /\ MembershipOK' /\ CachesOK'
    BY <1>1, <1>6 DEF CreateUnjoin, GenerationsOK, MembershipOK, CachesOK,
                      membership, caches, generations
  <2> QED
    BY <2>2, <2>3, TypeParts DEF TypeInv
<1>7. ASSUME NEW s \in Deployment, NEW serve \in ServeOptions,
             Previous[s] # NoDeployment, PrepareRollback(s, serve)
      PROVE  TypeInv'
  <2> DEFINE o == NewRollback(s, serve)
  <2>1. o \in Operation /\ o.active = FALSE /\ o.phase = "STOP_SOURCE"
    BY <1>7, ScopeAssumption, NewRollbackTyped DEF NewRollback
  <2>2. ops' = Append(ops, o) /\ tasks' = tasks
    BY <1>7 DEF PrepareRollback
  <2> HIDE DEF o
  <2>3. TablesOK'
    BY <1>1, <2>1, <2>2, OperationAppended DEF TablesOK
  <2>4. RowOK(o)
    BY <2>1 DEF RowOK
  <2>5. RowsOK'
    <3>1. /\ Len(ops') = Len(ops) + 1 /\ ops'[Len(ops) + 1] = o
          /\ \A j \in OpIds : ops'[j] = ops[j]
      BY <1>1, <2>1, <2>2, OperationAppended
    <3>2. \A j \in 1 .. Len(ops) + 1 : j \in OpIds \/ j = Len(ops) + 1
      BY <1>1, Tables DEF OpIds
    <3> QED
      BY <1>1, <2>4, <3>1, <3>2 DEF RowsOK, OpIds
  <2>6. GenerationsOK' /\ MembershipOK' /\ CachesOK'
    BY <1>1, <1>7 DEF PrepareRollback, GenerationsOK, MembershipOK, CachesOK,
                      membership, caches, generations
  <2> QED
    BY <2>3, <2>5, <2>6, TypeParts DEF TypeInv
<1>8. ASSUME NEW s \in Deployment, RollbackQueued(s)
      PROVE  GenerationsOK' /\ MembershipOK' /\ CachesOK'
  <2>1. status' \in [Deployment -> DeploymentStatus]
    BY <1>1, <1>8 DEF RollbackQueued, GenerationsOK, DeploymentStatus
  <2> QED
    BY <1>1, <1>8, <2>1 DEF RollbackQueued, GenerationsOK, MembershipOK, CachesOK,
                            membership, caches
<1>9. ASSUME NEW s \in Deployment, NEW serve \in ServeOptions,
             Previous[s] # NoDeployment, NEW k \in 1 .. Len(ops) + 1,
             ApplyRollback(s, serve, k)
      PROVE  TypeInv'
  <2> DEFINE all == RollbackRows(s, serve)
             o == Applied(all[k])
  <2>1. serve \in BOOLEAN
    BY ScopeAssumption
  <2>2. /\ TablesOK' /\ k \in 1 .. Len(all)
        /\ Starts(k, all, o, "STOP_SOURCE", all[k].nodes)
    BY <1>1, <1>9, <2>1, ApplyRollbackStep
  <2>3. /\ Len(all) \in {Len(ops), Len(ops) + 1}
        /\ \A j \in OpIds : all[j] = ops[j]
        /\ Len(all) = Len(ops) + 1 => all[Len(all)] = NewRollback(s, serve)
    BY <1>1, <1>9, <2>1, RollbackRowsTyped
  <2>4. RowOK(NewRollback(s, serve))
    BY DEF NewRollback, RowOK
  <2> HIDE DEF all
  <2>5. \A j \in 1 .. Len(all) : RowOK(all[j])
    <3>1. \A j \in 1 .. Len(all) : j \in OpIds \/ (j = Len(all) /\ j = Len(ops) + 1)
      BY <1>1, <2>3, Tables DEF OpIds
    <3> QED
      BY <1>1, <2>3, <2>4, <3>1 DEF RowsOK
  <2> HIDE DEF o
  <2>6. /\ Len(ops') = Len(all) /\ RowOK(ops'[k])
        /\ \A j \in 1 .. Len(all) : j # k => ops'[j] = all[j]
    BY <2>2, StartsRows DEF Phases
  <2>7. RowsOK'
    BY <2>2, <2>5, <2>6 DEF RowsOK, OpIds
  <2>8. RollbackQueued(s)
    BY <1>9 DEF ApplyRollback
  <2> QED
    BY <1>8, <2>2, <2>7, <2>8, TypeParts DEF TypeInv
<1>10. ASSUME NEW s \in Deployment, NEW serve \in ServeOptions,
              NEW k \in OpIds, RetryRollback(s, serve, k)
       PROVE  TypeInv'
  <2>1. serve \in BOOLEAN /\ k \in 1 .. Len(ops)
    BY ScopeAssumption DEF OpIds
  <2>2. /\ TablesOK' /\ ops[k].phase \in Phases
        /\ Starts(k, ops, Applied(ops[k]), ops[k].phase, RetryNodes(ops[k]))
    BY <1>10, <2>1, RetryRollbackStep
  <2>3. /\ Len(ops') = Len(ops) /\ RowOK(ops'[k])
        /\ \A j \in 1 .. Len(ops) : j # k => ops'[j] = ops[j]
    BY <2>1, <2>2, StartsRows
  <2>4. RowsOK'
    BY <1>1, <2>1, <2>3 DEF RowsOK, OpIds
  <2>5. RollbackQueued(s)
    BY <1>10 DEF RetryRollback
  <2> QED
    BY <1>8, <2>2, <2>4, <2>5, TypeParts DEF TypeInv
<1>11. ASSUME NEW n \in Node, NEW i \in TaskIds(n), Cancel(n, i)
       PROVE  TypeInv'
  <2>1. MembershipOK'
    BY <1>1, <1>11 DEF Cancel, MembershipOK, membership
  <2>2. CASE tasks[n][i].op # 0
    <3>1. FinishBound(n, i, "FAILED") \/ CancelBound(n, i)
      BY <1>11, <2>2 DEF Cancel
    <3>2. GenerationsOK' /\ CachesOK' /\ TablesOK' /\ RowsOK'
      BY <2>2, <3>1, EndInv
    <3> QED
      BY <2>1, <3>2, TypeParts DEF TypeInv
  <2>3. CASE tasks[n][i].op = 0
    <3>1. tasks' = Closed(tasks, n, i, "CANCELED")
          /\ UNCHANGED <<generations, caches, ops>>
      BY <1>11, <2>3 DEF Cancel
    <3>2. PICK u \in Task : TaskChanged(n, i, u)
      BY <1>1, <3>1, DirectEnded DEF TaskStatus, LiveStatus
    <3>3. TablesOK' /\ RowsOK'
      BY <3>1, <3>2, TaskChangedInv
    <3>4. GenerationsOK' /\ CachesOK'
      BY <1>1, <3>1 DEF GenerationsOK, CachesOK, caches, generations
    <3> QED
      BY <2>1, <3>3, <3>4, TypeParts DEF TypeInv
  <2> QED
    BY <2>2, <2>3
<1> QED
  BY <1>3, <1>4, <1>5, <1>6, <1>7, <1>9, <1>10, <1>11, TypeParts DEF Request, TypeInv, OpIds

(* Revoking a node ends its live task of an operation, if it has one. *)
LEMMA RevokeInv ==
  ASSUME TypeInv, NEW n \in Node, Revoke(n)
  PROVE  TypeInv'
<1>1. TypeOK /\ RowsOK /\ MembershipOK /\ GenerationsOK /\ CachesOK /\ TablesOK
  BY TypeParts DEF TypeInv
<1>2. MembershipOK'
  BY <1>1 DEF Revoke, MembershipOK
<1>3. CASE UNCHANGED <<generations, caches, tasks, ops>>
  <2>1. GenerationsOK' /\ CachesOK' /\ TablesOK' /\ RowsOK'
    BY <1>1, <1>3 DEF GenerationsOK, CachesOK, TablesOK, RowsOK, OpIds,
                      generations, caches
  <2> QED
    BY <1>2, <2>1, TypeParts DEF TypeInv
<1>4. ASSUME NEW i \in BoundLiveIds(n),
             CancelBound(n, i) \/ FinishBound(n, i, "FAILED")
      PROVE  TypeInv'
  <2>1. i \in TaskIds(n) /\ tasks[n][i].op # 0
    BY DEF BoundLiveIds, LiveIds
  <2>2. GenerationsOK' /\ CachesOK' /\ TablesOK' /\ RowsOK'
    BY <1>4, <2>1, EndInv
  <2> QED
    BY <1>2, <2>2, TypeParts DEF TypeInv
<1> QED
  BY <1>3, <1>4 DEF Revoke

(* The actions of an agent keep the invariant. *)
LEMMA AgentInv ==
  ASSUME TypeInv, NEW n \in Node, Agent(n)
  PROVE  TypeInv'
<1>1. TypeOK /\ RowsOK /\ MembershipOK /\ GenerationsOK /\ CachesOK /\ TablesOK
  BY TypeParts DEF TypeInv
<1>2. CASE ClaimRequest(n) \/ ClaimNothing(n)
  <2>1. MembershipOK' /\ GenerationsOK' /\ CachesOK' /\ TablesOK' /\ RowsOK'
    BY <1>1, <1>2 DEF ClaimRequest, ClaimNothing, ClaimEnds, MembershipOK, GenerationsOK,
         CachesOK, TablesOK, RowsOK, OpIds, generations, caches
  <2> QED
    BY <2>1, TypeParts DEF TypeInv
<1>3. ASSUME NEW i \in TaskIds(n), Claim(n, i)
      PROVE  TypeInv'
  <2>1. Leases(n, i)
    BY <1>1, <1>3, ClaimStep
  <2>2. PICK u \in Task : TaskChanged(n, i, u)
    BY <2>1 DEF Leases
  <2>3. TablesOK' /\ RowsOK'
    <3>1. CASE tasks[n][i].op = 0
      <4>1. ops' = ops
        BY <2>1, <3>1 DEF Leases
      <4> QED
        BY <2>2, <4>1, TaskChangedInv
    <3>2. CASE tasks[n][i].op # 0
      <4> DEFINE k == tasks[n][i].op
      <4>1. PICK r \in Operation : RowChanged(k, r) /\ r.status = "RUNNING"
                  /\ \E o : /\ IsOutcome(o, ops[k], tasks[n][i].phase, n, "RUNNING")
                            /\ r.phase = o.phase
        BY <2>1, <3>2 DEF Leases
      <4>2. k \in OpIds /\ tasks[n][i].phase \in Phases
        BY <1>1, <3>2, BoundTask
      <4>3. r.phase = ops[k].phase
        BY <4>1 DEF IsOutcome
      <4>4. ops[k].phase = tasks[n][i].phase
        BY <1>3, <3>2 DEF Claim, IsCurrent
      <4>5. RowOK(r)
        BY <4>1, <4>2, <4>3, <4>4 DEF RowOK, Phases
      <4>6. RowsOK'
        BY <1>1, <4>1, <4>5 DEF RowChanged, RowsOK, OpIds
      <4>7. TablesOK'
        BY <2>2, <4>1 DEF RowChanged, TaskChanged, TablesOK
      <4> QED
        BY <4>6, <4>7
    <3> QED
      BY <3>1, <3>2
  <2>4. MembershipOK' /\ GenerationsOK' /\ CachesOK'
    <3>1. ClaimEnds(n) /\ UNCHANGED <<generations, caches>>
      BY <1>3 DEF Claim
    <3> QED
      BY <1>1, <3>1 DEF ClaimEnds, MembershipOK, GenerationsOK, CachesOK, generations, caches
  <2> QED
    BY <2>3, <2>4, TypeParts DEF TypeInv
<1>4. ASSUME NEW i \in TaskIds(n), ClaimExpired(n, i)
      PROVE  TypeInv'
  <2>1. tasks[n][i].op # 0 /\ FinishBound(n, i, "FAILED")
    BY <1>4 DEF ClaimExpired
  <2>2. GenerationsOK' /\ CachesOK' /\ TablesOK' /\ RowsOK'
    BY <2>1, EndInv
  <2>3. MembershipOK'
    BY <1>1, <1>4 DEF ClaimExpired, ClaimEnds, MembershipOK
  <2> QED
    BY <2>2, <2>3, TypeParts DEF TypeInv
<1>5. ASSUME NEW i \in TaskIds(n), Tick(n, i) \/ Extend(n, i)
      PROVE  TypeInv'
  <2>1. LeaseStep(n, i)
    BY <1>1, <1>5, TickStep, ExtendStep
  <2>2. UNCHANGED <<membership, generations, caches, ops>>
    BY <1>5 DEF Tick, Extend
  <2>3. TablesOK' /\ RowsOK'
    BY <2>1, <2>2, TaskChangedInv DEF LeaseStep
  <2>4. MembershipOK' /\ GenerationsOK' /\ CachesOK'
    BY <1>1, <2>2 DEF MembershipOK, GenerationsOK, CachesOK,
                      membership, generations, caches
  <2> QED
    BY <2>3, <2>4, TypeParts DEF TypeInv
<1>6. ASSUME NEW i \in TaskIds(n), NEW s \in {"SUCCEEDED", "FAILED"},
             ReportBound(n, i, s)
      PROVE  TypeInv'
  <2>1. tasks[n][i].op # 0 /\ FinishBound(n, i, s)
    BY <1>6 DEF ReportBound
  <2>2. GenerationsOK' /\ CachesOK' /\ TablesOK' /\ RowsOK'
    BY <2>1, EndInv
  <2>3. MembershipOK'
    BY <1>1, <1>6 DEF ReportBound, membership, MembershipOK
  <2> QED
    BY <2>2, <2>3, TypeParts DEF TypeInv
<1>7. ASSUME NEW i \in TaskIds(n), NEW s \in {"SUCCEEDED", "FAILED"},
             ReportDirect(n, i, s)
      PROVE  TypeInv'
  <2>1. tasks' = Closed(tasks, n, i, s) /\ ops' = ops /\ s \in TaskStatus
    BY <1>7 DEF ReportDirect, TaskStatus, LiveStatus
  <2>2. PICK u \in Task : TaskChanged(n, i, u)
    BY <1>1, <2>1, DirectEnded
  <2>3. TablesOK' /\ RowsOK'
    BY <2>1, <2>2, TaskChangedInv
  <2>4. MembershipOK' /\ GenerationsOK' /\ CachesOK'
    BY <1>1, <1>7 DEF ReportDirect, MembershipOK, GenerationsOK, CachesOK,
                      generations, caches
  <2> QED
    BY <2>3, <2>4, TypeParts DEF TypeInv
<1> QED
  BY <1>2, <1>3, <1>4, <1>5, <1>6, <1>7 DEF Agent, ClaimTask, Report

(* The inductive step of TypeInv. *)
LEMMA TypeInvNext ==
  ASSUME TypeInv, [Next]_vars
  PROVE  TypeInv'
<1>1. TypeOK /\ RowsOK /\ MembershipOK /\ GenerationsOK /\ CachesOK /\ TablesOK
  BY TypeParts DEF TypeInv
<1>2. CASE Request
  BY <1>2, RequestInv
<1>3. ASSUME NEW n \in Node, Agent(n)
      PROVE  TypeInv'
  BY <1>3, AgentInv
<1>4. ASSUME NEW n \in Node, Membership(n)
      PROVE  TypeInv'
  <2>1. CASE Revoke(n)
    BY <2>1, RevokeInv
  <2>2. CASE Unjoin(n) \/ Rejoin(n) \/ Approve(n) \/ Rotate(n)
    <3>1. UNCHANGED <<generations, caches, tasks, ops>>
      BY <2>2 DEF Unjoin, Rejoin, Approve, Rotate
    <3>2. MembershipOK'
      BY <1>1, <2>2 DEF Unjoin, Rejoin, Approve, Rotate, MembershipOK
    <3>3. GenerationsOK' /\ CachesOK' /\ TablesOK' /\ RowsOK'
      BY <1>1, <3>1 DEF GenerationsOK, CachesOK, TablesOK, RowsOK, OpIds,
                        generations, caches
    <3> QED
      BY <3>2, <3>3, TypeParts DEF TypeInv
  <2> QED
    BY <1>4, <2>1, <2>2 DEF Membership
<1>5. ASSUME NEW n \in Node, NEW d \in Recommended, CacheDemoted(n, Artifact[d])
      PROVE  TypeInv'
  <2>1. MembershipOK' /\ GenerationsOK' /\ CachesOK' /\ TablesOK' /\ RowsOK'
    BY <1>1, <1>5 DEF CacheDemoted, MembershipOK, GenerationsOK, CachesOK, TablesOK,
                      RowsOK, OpIds, membership, generations
  <2> QED
    BY <2>1, TypeParts DEF TypeInv
<1>6. CASE UNCHANGED vars
  <2>1. MembershipOK' /\ GenerationsOK' /\ CachesOK' /\ TablesOK' /\ RowsOK'
    BY <1>1, <1>6 DEF vars, MembershipOK, GenerationsOK, CachesOK, TablesOK,
                      RowsOK, OpIds, membership, generations, caches
  <2> QED
    BY <2>1, TypeParts DEF TypeInv
<1> QED
  BY <1>2, <1>3, <1>4, <1>5, <1>6 DEF Next

(* The initial state satisfies the invariant. *)
LEMMA TypeInvInit ==
  ASSUME Init
  PROVE  TypeInv
<1>1. GenerationsOK /\ CachesOK /\ MembershipOK
  <2>1. status \in [Deployment -> DeploymentStatus]
    BY DEF Init, DeploymentStatus
  <2>2. accepted \subseteq Deployment /\ verified \subseteq Deployment
    BY ScopeAssumption DEF Init
  <2>3. ready \subseteq {<<n, Artifact[d]>> : n \in Node, d \in Recommended}
    BY DEF Init
  <2> QED
    BY <2>1, <2>2, <2>3 DEF Init, GenerationsOK, CachesOK, MembershipOK
<1>2. TablesOK /\ RowsOK
  BY EmptySeq DEF Init, TablesOK, QueuesOK, RowsOK, OpIds
<1> QED
  BY <1>1, <1>2, TypeParts DEF TypeInv

(* The tables only ever hold the values of their columns, the queues only      *)
(* tasks of existing operations, and a complete operation has succeeded.      *)
THEOREM TypeInvariant == Spec => []TypeInv
<1>1. Init => TypeInv
  BY TypeInvInit
<1>2. TypeInv /\ [Next]_vars => TypeInv'
  BY TypeInvNext
<1> QED
  BY <1>1, <1>2, PTL DEF Spec

(* The closed value sets of tables.py and its foreign keys. *)
THEOREM TypeCorrect == Spec => []TypeOK
<1>1. TypeInv => TypeOK
  BY DEF TypeInv
<1> QED
  BY <1>1, TypeInvariant, PTL

----------------------------------------------------------------------------
(* What a step can do to the tables as a whole *)

(* No row changes its request or becomes active. *)
Kept ==
  Len(ops') = Len(ops) /\ \A k \in OpIds : SameScope(ops'[k], ops[k])

(* Old tasks keep their status or end, new ones wait at the end of a queue. *)
Follows ==
  \A n \in Node :
    /\ \A i \in TaskIds(n) :
         tasks'[n][i].status \in {tasks[n][i].status} \cup Terminal
    /\ \A i \in TaskIds(n)' : i \in TaskIds(n) \/ tasks'[n][i].status = "QUEUED"
    /\ TaskIds(n) \subseteq TaskIds(n)'

(* A task that has ended, or an attempt whose lease has run out. *)
Fixed(t) == t.status \in Terminal \/ (t.op # 0 /\ HasExpired(t))

(* No operation moves; a task that ends or appears is one no operation tracks. *)
Unbound ==
  /\ ops' = ops
  /\ \A n \in Node :
       /\ TaskIds(n) \subseteq TaskIds(n)'
       /\ \A i \in TaskIds(n) :
            /\ SameWork(tasks'[n][i], tasks[n][i])
            /\ \/ tasks'[n][i].status = tasks[n][i].status
               \/ tasks[n][i].op = 0 /\ tasks'[n][i].status \in Terminal
            /\ Fixed(tasks[n][i]) => tasks'[n][i] = tasks[n][i]
       /\ \A i \in TaskIds(n)' : \/ i \in TaskIds(n)
                                 \/ /\ tasks'[n][i].op = 0
                                    /\ tasks'[n][i].status = "QUEUED"

(* A live task of an operation ends. *)
Ends ==
  \E n \in Node : \E i \in BoundLiveIds(n) :
    \E s \in {"SUCCEEDED", "FAILED", "CANCELED"} : TaskEnded(n, i, s)

(* A step that concerns no operation activates none and starts no task. *)
LEMMA UnboundFollows ==
  ASSUME Unbound
  PROVE  Kept /\ Follows
BY DEF Unbound, Kept, Follows, SameScope

(* Nothing changes in the operation table and the queues. *)
LEMMA QuietStep ==
  ASSUME TypeInv, UNCHANGED <<tasks, ops>>
  PROVE  Unbound
BY DEF Unbound, SameWork, TaskIds

(* A queue that grows keeps the tasks it has. *)
LEMMA GrownFollows ==
  ASSUME TypeInv, NEW nodes \in SUBSET Node, NEW f \in [Node -> Task], NEW m,
         Grown(tasks', tasks, nodes, f, m),
         \A n \in nodes : f[n].status = "QUEUED"
  PROVE  Follows
<1>1. SUFFICES ASSUME NEW n \in Node
               PROVE  /\ \A i \in TaskIds(n) : tasks'[n][i] = tasks[n][i]
                      /\ \A i \in TaskIds(n)' : i \in TaskIds(n)
                                               \/ tasks'[n][i].status = "QUEUED"
                      /\ TaskIds(n) \subseteq TaskIds(n)'
  BY DEF Follows
<1>2. /\ Len(tasks[n]) \in Nat
      /\ Len(tasks'[n]) = IF n \in nodes THEN Len(tasks[n]) + 1 ELSE Len(tasks[n])
      /\ \A i \in 1 .. Len(tasks[n]) : tasks'[n][i] = tasks[n][i]
      /\ n \in nodes => tasks'[n][Len(tasks[n]) + 1] = f[n]
  BY Tables DEF Grown, TypeInv
<1>3. /\ TaskIds(n) = 1 .. Len(tasks[n])
      /\ TaskIds(n)' = 1 .. Len(tasks'[n])
  BY DEF TaskIds
<1>4. \A i \in TaskIds(n)' : i \in TaskIds(n) \/ (n \in nodes /\ i = Len(tasks[n]) + 1)
  BY <1>2, <1>3
<1> QED
  BY <1>2, <1>3, <1>4

(* So does one that also ends a task. *)
LEMMA EndedFollows ==
  ASSUME TypeInv, NEW n \in Node, NEW i \in TaskIds(n), tasks[n][i].op # 0,
         NEW s \in {"SUCCEEDED", "FAILED", "CANCELED"}, TaskEnded(n, i, s)
  PROVE  Kept /\ Follows
<1> DEFINE k == tasks[n][i].op
           o == EndedRow(n, i, s)
           ts == EndedQueues(n, i, s)
<1>1. TypeOK /\ s \in TaskStatus
  BY DEF TypeInv, TaskStatus, LiveStatus
<1>2. /\ IsOutcome(o, ops[k], tasks[n][i].phase, n, s)
      /\ Ended(ts, tasks, n, i, s, Len(ops))
  BY <1>1, EndedTyped
<1> HIDE DEF o, ts
<1>3. PICK r \in Operation :
        /\ RowChanged(k, r) /\ SameScope(r, o)
        /\ \/ tasks' = ts
           \/ \E nodes \in SUBSET Node :
                /\ Grown(tasks', ts, nodes, PhaseTasks(k, r), Len(ops'))
                /\ \A m \in nodes : r.rec[r.phase][m].status = "QUEUED"
  BY DEF TaskEnded, OperationStep, o, ts
<1>4. Kept
  <2>1. SameScope(r, ops[k])
    BY <1>2, <1>3 DEF IsOutcome, SameScope
  <2> QED
    BY <1>3, <2>1 DEF RowChanged, Kept, SameScope
<1>5. Follows
  <2>1. SUFFICES ASSUME NEW q \in Node
                 PROVE  /\ \A j \in TaskIds(q) : tasks'[q][j].status
                             \in {tasks[q][j].status} \cup Terminal
                        /\ \A j \in TaskIds(q)' : j \in TaskIds(q)
                                                 \/ tasks'[q][j].status = "QUEUED"
                        /\ TaskIds(q) \subseteq TaskIds(q)'
    BY DEF Follows
  <2>2. Len(tasks[q]) \in Nat /\ TaskIds(q) = 1 .. Len(tasks[q])
    BY <1>1, Tables
  <2>3. /\ Len(ts[q]) = Len(tasks[q])
        /\ \A j \in TaskIds(q) : ts[q][j].status \in {tasks[q][j].status} \cup Terminal
    <3>1. Len(ts[q]) = Len(tasks[q])
      BY <1>2 DEF Ended
    <3>2. ASSUME NEW j \in TaskIds(q)
          PROVE  ts[q][j].status \in {tasks[q][j].status} \cup Terminal
      <4>1. tasks[n][i] \in Task
        BY <1>1, Tables
      <4>2. ts[q][j] = IF q = n /\ j = i
                       THEN [tasks[n][i] EXCEPT !.status = s, !.lease = 0]
                       ELSE tasks[q][j]
        BY <1>2, <2>2 DEF Ended
      <4>3. [tasks[n][i] EXCEPT !.status = s, !.lease = 0].status = s
        <5> DEFINE t == tasks[n][i]
        <5> HIDE DEF t
        <5>1. [t EXCEPT !.status = s, !.lease = 0].status = s
          BY <4>1 DEF Task, t
        <5> QED
          BY <5>1 DEF t
      <4> QED
        BY <4>2, <4>3 DEF Terminal
    <3> QED
      BY <3>1, <3>2
  <2>4. TaskIds(q)' = 1 .. Len(tasks'[q])
    BY DEF TaskIds
  <2>5. CASE tasks' = ts
    BY <2>2, <2>3, <2>4, <2>5
  <2>6. ASSUME NEW nodes \in SUBSET Node,
               Grown(tasks', ts, nodes, PhaseTasks(k, r), Len(ops'))
        PROVE  /\ \A j \in TaskIds(q) : tasks'[q][j] = ts[q][j]
               /\ \A j \in TaskIds(q)' : j \in TaskIds(q)
                                        \/ tasks'[q][j].status = "QUEUED"
               /\ TaskIds(q) \subseteq TaskIds(q)'
    <3>1. /\ Len(tasks'[q]) = IF q \in nodes THEN Len(ts[q]) + 1 ELSE Len(ts[q])
          /\ \A j \in 1 .. Len(ts[q]) : tasks'[q][j] = ts[q][j]
          /\ q \in nodes => tasks'[q][Len(ts[q]) + 1] = PhaseTasks(k, r)[q]
      BY <2>6 DEF Grown
    <3>2. PhaseTasks(k, r)[q].status = "QUEUED"
      BY DEF PhaseTasks, PhaseTask
    <3>3. \A j \in TaskIds(q)' : j \in TaskIds(q) \/ (q \in nodes /\ j = Len(ts[q]) + 1)
      BY <2>2, <2>3, <2>4, <3>1
    <3> QED
      BY <2>2, <2>3, <2>4, <3>1, <3>2, <3>3
  <2> QED
    BY <1>3, <2>3, <2>5, <2>6
<1> QED
  BY <1>4, <1>5

(* Starting a phase only adds waiting tasks. *)
LEMMA StartsFollows ==
  ASSUME TypeInv, NEW all, NEW k \in 1 .. Len(all), Len(all) \in Nat, NEW o,
         NEW p \in Phases, NEW nodes \in SUBSET Node,
         Starts(k, all, o, p, nodes)
  PROVE  Follows
<1>1. PICK q \in Operation : /\ IsQueued(q, o, p, nodes)
                             /\ PhaseStarted(k, all, q, tasks, nodes)
  BY DEF Starts
<1>2. k \in Nat \ {0} /\ q.phase \in Phases
  BY <1>1 DEF IsQueued
<1>3. PhaseTasks(k, q) \in [Node -> Task]
  BY <1>2, PhaseTaskTyped DEF PhaseTasks
<1>4. \A n \in nodes : PhaseTasks(k, q)[n].status = "QUEUED"
  BY DEF PhaseTasks, PhaseTask
<1>5. Grown(tasks', tasks, nodes, PhaseTasks(k, q), Len(ops'))
  BY <1>1 DEF PhaseStarted
<1> QED
  BY <1>3, <1>4, <1>5, GrownFollows

(* The end of a task activates no operation and starts no task. *)
LEMMA EndsFollows ==
  ASSUME TypeInv, Ends
  PROVE  Kept /\ Follows
<1>1. PICK n \in Node : \E i \in BoundLiveIds(n) :
        \E s \in {"SUCCEEDED", "FAILED", "CANCELED"} : TaskEnded(n, i, s)
  BY DEF Ends
<1>2. PICK i \in BoundLiveIds(n) :
        \E s \in {"SUCCEEDED", "FAILED", "CANCELED"} : TaskEnded(n, i, s)
  BY <1>1
<1>3. PICK s \in {"SUCCEEDED", "FAILED", "CANCELED"} : TaskEnded(n, i, s)
  BY <1>2
<1>4. i \in TaskIds(n) /\ tasks[n][i].op # 0
  BY DEF BoundLiveIds, LiveIds
<1> QED
  BY <1>3, <1>4, EndedFollows

(* New tasks that no operation tracks. *)
LEMMA GrownUnbound ==
  ASSUME TypeInv, NEW nodes \in SUBSET Node, NEW f \in [Node -> Task], NEW m,
         Grown(tasks', tasks, nodes, f, m), ops' = ops,
         \A n \in nodes : f[n].status = "QUEUED" /\ f[n].op = 0
  PROVE  Unbound
<1>1. SUFFICES ASSUME NEW n \in Node
               PROVE  /\ \A i \in TaskIds(n) : tasks'[n][i] = tasks[n][i]
                      /\ \A i \in TaskIds(n)' : \/ i \in TaskIds(n)
                                                \/ /\ tasks'[n][i].op = 0
                                                   /\ tasks'[n][i].status = "QUEUED"
                      /\ TaskIds(n) \subseteq TaskIds(n)'
  BY DEF Unbound, SameWork
<1>2. /\ Len(tasks[n]) \in Nat
      /\ Len(tasks'[n]) = IF n \in nodes THEN Len(tasks[n]) + 1 ELSE Len(tasks[n])
      /\ \A i \in 1 .. Len(tasks[n]) : tasks'[n][i] = tasks[n][i]
      /\ n \in nodes => tasks'[n][Len(tasks[n]) + 1] = f[n]
  BY Tables DEF Grown, TypeInv
<1>3. /\ TaskIds(n) = 1 .. Len(tasks[n])
      /\ TaskIds(n)' = 1 .. Len(tasks'[n])
  BY DEF TaskIds
<1>4. \A i \in TaskIds(n)' : i \in TaskIds(n) \/ (n \in nodes /\ i = Len(tasks[n]) + 1)
  BY <1>2, <1>3
<1> QED
  BY <1>2, <1>3, <1>4

(* A step that creates or restarts an operation. *)
Activates ==
  \/ \E kind \in {"APPLY", "VERIFY"}, d \in Deployment, nodes \in SUBSET Node,
        serve \in BOOLEAN : CreateBulk(kind, d, nodes, serve)
  \/ \E s \in Deployment, serve \in BOOLEAN :
       /\ Previous[s] # NoDeployment
       /\ \/ PrepareRollback(s, serve)
          \/ \E k \in 1 .. Len(ops) + 1 : ApplyRollback(s, serve, k)
          \/ \E k \in OpIds : RetryRollback(s, serve, k)

Claims == \E n \in Node : \E i \in TaskIds(n) : Claim(n, i)

(* finish_operation_task or cancel_operation_task ends task i of node n as s.  *)
OutcomeOf(n, i, s) ==
  \/ s \in {"SUCCEEDED", "FAILED"} /\ FinishBound(n, i, s)
  \/ s = "CANCELED" /\ CancelBound(n, i)
BoundEnds ==
  \E n \in Node : \E i \in BoundLiveIds(n) : \E s \in Terminal : OutcomeOf(n, i, s)

(* No operation moves, no generation changes and no task appears. *)
Quiet ==
  /\ Unbound /\ UNCHANGED generations
  /\ \A n \in Node : TaskIds(n)' = TaskIds(n)

(* A step that concerns no operation. *)
Others ==
  \/ Quiet
  \/ \E d \in Deployment : Accept(d)
  \/ \E type \in DirectTypes, d \in Deployment, nodes \in SUBSET Node :
       CreateDirect(type, d, nodes)
  \/ \E n \in Node : CreateUnjoin(n)

(* The kinds of a step: an operation is created or restarted, a task is        *)
(* leased, a task of an operation ends, or no operation is concerned.        *)
LEMMA StepKinds ==
  ASSUME TypeInv, [Next]_vars
  PROVE  Activates \/ Claims \/ BoundEnds \/ Others
<1>1. TypeOK
  BY DEF TypeInv
<1>2. ASSUME UNCHANGED <<tasks, ops, generations>>
      PROVE  Others
  BY <1>2, QuietStep DEF Others, Quiet, TaskIds
<1>3. ASSUME NEW n \in Node, NEW i \in TaskIds(n), NEW s \in Terminal,
             tasks[n][i].op = 0, tasks[n][i].status \in LiveStatus,
             tasks' = Closed(tasks, n, i, s), ops' = ops, UNCHANGED generations
      PROVE  Others
  <2>1. PICK u \in Task : /\ TaskChanged(n, i, u) /\ u.status = s
                          /\ SameWork(u, tasks[n][i])
    BY <1>1, <1>3, DirectEnded DEF TaskStatus, Terminal, LiveStatus
  <2>2. Unbound
    <3>1. ~Fixed(tasks[n][i])
      BY <1>3 DEF Fixed, LiveStatus, Terminal
    <3> QED
      BY <1>3, <2>1, <3>1 DEF TaskChanged, Unbound, TaskIds, SameWork
  <2> QED
    BY <1>3, <2>1, <2>2 DEF Others, Quiet, TaskChanged, TaskIds
<1>4. ASSUME NEW n \in Node, NEW i \in TaskIds(n), LeaseStep(n, i), ops' = ops,
             ~Fixed(tasks[n][i]), UNCHANGED generations
      PROVE  Others
  <2>1. PICK u \in Task : /\ TaskChanged(n, i, u) /\ SameWork(u, tasks[n][i])
                          /\ u.status = tasks[n][i].status
    BY <1>4 DEF LeaseStep
  <2>2. Unbound
    BY <1>4, <2>1 DEF TaskChanged, Unbound, TaskIds, SameWork
  <2> QED
    BY <1>4, <2>1, <2>2 DEF Others, Quiet, TaskChanged, TaskIds
<1>5. ASSUME NEW n \in Node, NEW i \in TaskIds(n), tasks[n][i].op # 0,
             \/ /\ tasks[n][i].status = "RUNNING"
                /\ \E s \in {"SUCCEEDED", "FAILED"} : FinishBound(n, i, s)
             \/ tasks[n][i].status = "QUEUED" /\ CancelBound(n, i)
      PROVE  BoundEnds
  <2>1. i \in BoundLiveIds(n)
    BY <1>5 DEF BoundLiveIds, LiveIds, IsLive, LiveStatus
  <2>2. \E s \in Terminal : OutcomeOf(n, i, s)
    BY <1>5 DEF OutcomeOf, Terminal
  <2> QED
    BY <2>1, <2>2 DEF BoundEnds
<1>6. CASE Request
  <2>1. ASSUME NEW d \in Deployment, Accept(d) \/ Prepare(d)
        PROVE  Others
    BY <1>2, <2>1 DEF Prepare, Others
  <2>2. ASSUME NEW n \in Node, NEW i \in TaskIds(n), Cancel(n, i)
        PROVE  BoundEnds \/ Others
    <3>1. CASE tasks[n][i].op # 0
      BY <1>5, <2>2, <3>1 DEF Cancel, HasExpired
    <3>2. CASE tasks[n][i].op = 0
      <4>1. /\ tasks' = Closed(tasks, n, i, "CANCELED") /\ ops' = ops
            /\ UNCHANGED generations /\ tasks[n][i].status \in LiveStatus
        BY <2>2, <3>2 DEF Cancel, LiveStatus
      <4> QED
        BY <1>3, <3>2, <4>1 DEF Terminal
    <3> QED
      BY <3>1, <3>2
  <2> QED
    BY <1>6, <2>1, <2>2, ScopeAssumption DEF Request, Activates, OpIds, Others
<1>7. ASSUME NEW n \in Node, Agent(n)
      PROVE  Claims \/ BoundEnds \/ Others
  <2>1. CASE ClaimRequest(n) \/ ClaimNothing(n)
    BY <1>2, <2>1 DEF ClaimRequest, ClaimNothing
  <2>2. ASSUME NEW i \in TaskIds(n), ClaimExpired(n, i)
        PROVE  BoundEnds
    BY <1>5, <2>2 DEF ClaimExpired, HasExpired
  <2>3. ASSUME NEW i \in TaskIds(n), Tick(n, i) \/ Extend(n, i)
        PROVE  Others
    <3>1. LeaseStep(n, i)
      BY <1>1, <2>3, TickStep, ExtendStep
    <3>2. /\ ops' = ops /\ UNCHANGED generations
          /\ tasks[n][i].status = "RUNNING" /\ ~HasExpired(tasks[n][i])
      <4>1. CASE Tick(n, i)
        BY <4>1 DEF Tick, HasExpired
      <4>2. CASE Extend(n, i)
        BY <4>2 DEF Extend, Extendable
      <4> QED
        BY <2>3, <4>1, <4>2
    <3>3. ~Fixed(tasks[n][i])
      BY <3>2 DEF Fixed, Terminal
    <3> QED
      BY <1>4, <3>1, <3>2, <3>3
  <2>4. ASSUME NEW i \in TaskIds(n), Report(n, i)
        PROVE  BoundEnds \/ Others
    <3>1. ASSUME NEW s \in {"SUCCEEDED", "FAILED"}, ReportBound(n, i, s)
          PROVE  BoundEnds
      BY <1>5, <3>1 DEF ReportBound, MayReport
    <3>2. ASSUME NEW s \in {"SUCCEEDED", "FAILED"}, ReportDirect(n, i, s)
          PROVE  Others
      BY <1>3, <3>2 DEF ReportDirect, MayReport, Terminal, LiveStatus
    <3> QED
      BY <2>4, <3>1, <3>2 DEF Report
  <2> QED
    BY <1>7, <2>1, <2>2, <2>3, <2>4 DEF Agent, ClaimTask, Claims
<1>8. ASSUME NEW n \in Node, Membership(n)
      PROVE  BoundEnds \/ Others
  <2>1. ASSUME NEW i \in BoundLiveIds(n),
               \/ tasks[n][i].status = "QUEUED" /\ CancelBound(n, i)
               \/ tasks[n][i].status # "QUEUED" /\ FinishBound(n, i, "FAILED")
        PROVE  BoundEnds
    BY <1>5, <2>1 DEF BoundLiveIds, LiveIds, IsLive, LiveStatus
  <2> QED
    BY <1>2, <1>8, <2>1 DEF Membership, Revoke, Unjoin, Rejoin, Approve, Rotate
<1>9. ASSUME NEW n \in Node, NEW d \in Recommended, CacheDemoted(n, Artifact[d])
      PROVE  Others
  BY <1>2, <1>9 DEF CacheDemoted
<1>10. CASE UNCHANGED vars
  BY <1>2, <1>10 DEF vars
<1> QED
  BY <1>6, <1>7, <1>8, <1>9, <1>10 DEF Next

(* A step that concerns no operation moves none. *)
LEMMA OthersUnbound ==
  ASSUME TypeInv, Others
  PROVE  Unbound
<1>1. TypeOK
  BY DEF TypeInv
<1>2. ASSUME NEW d \in Deployment, Accept(d)
      PROVE  Unbound
  BY <1>2, QuietStep DEF Accept
<1>3. ASSUME NEW type \in DirectTypes, NEW d \in Deployment,
             NEW nodes \in SUBSET Node, CreateDirect(type, d, nodes)
      PROVE  Unbound
  <2>1. Grown(tasks', tasks, nodes, DirectTasks(type, d), Len(ops))
    BY <1>1, <1>3, CreateDirectStep
  <2>2. /\ DirectTasks(type, d) \in [Node -> Task]
        /\ \A n \in nodes : /\ DirectTasks(type, d)[n].status = "QUEUED"
                            /\ DirectTasks(type, d)[n].op = 0
    BY DirectTyped DEF DirectTasks, Direct
  <2>3. ops' = ops
    BY <1>3 DEF CreateDirect
  <2> QED
    BY <2>1, <2>2, <2>3, GrownUnbound
<1>4. ASSUME NEW n \in Node, CreateUnjoin(n)
      PROVE  Unbound
  <2> DEFINE f == DirectTasks("UNJOIN", NoDeployment)
  <2>1. Grown(tasks', tasks, {n}, f, Len(ops))
    BY <1>1, <1>4, CreateUnjoinStep
  <2>2. f \in [Node -> Task]
    BY DirectTyped
  <2>3. \A m \in {n} : f[m].status = "QUEUED" /\ f[m].op = 0
    BY DEF DirectTasks, Direct
  <2>4. ops' = ops
    BY <1>4 DEF CreateUnjoin
  <2> HIDE DEF f
  <2> QED
    BY <2>1, <2>2, <2>3, <2>4, GrownUnbound
<1> QED
  BY <1>2, <1>3, <1>4 DEF Others, Quiet

(* What the kinds have in common. *)
LEMMA StepShapes ==
  ASSUME TypeInv, [Next]_vars
  PROVE  Activates \/ Claims \/ Ends \/ Unbound
<1>1. TypeOK
  BY DEF TypeInv
<1>2. CASE BoundEnds
  <2>1. PICK n \in Node : \E i \in BoundLiveIds(n) : \E s \in Terminal : OutcomeOf(n, i, s)
    BY <1>2 DEF BoundEnds
  <2>2. PICK i \in BoundLiveIds(n) : \E s \in Terminal : OutcomeOf(n, i, s)
    BY <2>1
  <2>3. i \in TaskIds(n) /\ tasks[n][i].op # 0
    BY DEF BoundLiveIds, LiveIds
  <2>4. PICK s \in {"SUCCEEDED", "FAILED", "CANCELED"} : TaskEnded(n, i, s)
    BY <2>2, <2>3, EndPaths DEF OutcomeOf
  <2> QED
    BY <2>4 DEF Ends
<1> QED
  BY <1>2, StepKinds, OthersUnbound

(* Leasing a task changes no request and activates nothing. *)
LEMMA ClaimKeeps ==
  ASSUME TypeInv, Claims
  PROVE  Kept
<1>1. PICK n \in Node : \E i \in TaskIds(n) : Claim(n, i)
  BY DEF Claims
<1>2. PICK i \in TaskIds(n) : Claim(n, i)
  BY <1>1
<1>3. Leases(n, i)
  BY <1>2, ClaimStep DEF TypeInv
<1>4. CASE tasks[n][i].op = 0
  BY <1>3, <1>4 DEF Leases, Kept, SameScope
<1>5. CASE tasks[n][i].op # 0
  <2> DEFINE k == tasks[n][i].op
  <2>1. PICK r \in Operation :
          /\ RowChanged(k, r)
          /\ \E o : /\ IsOutcome(o, ops[k], tasks[n][i].phase, n, "RUNNING")
                    /\ SameScope(r, o)
    BY <1>3, <1>5 DEF Leases
  <2>2. SameScope(r, ops[k])
    BY <2>1 DEF IsOutcome, SameScope
  <2> QED
    BY <2>1, <2>2 DEF RowChanged, Kept, SameScope
<1> QED
  BY <1>4, <1>5

----------------------------------------------------------------------------
(* Active operations are disjoint *)

(* A row that starts to be active meets no active row, if its nodes and its   *)
(* lineage meet none of the old ones.                                        *)
LEMMA NewActiveRow ==
  ASSUME ActiveOperationsDisjoint, NEW all, NEW k \in 1 .. Len(all), NEW o,
         NEW p \in Phases, NEW nodes, Starts(k, all, o, p, nodes),
         \A j \in 1 .. Len(all) : j # k => j \in OpIds /\ all[j] = ops[j],
         \A j \in OpIds : j # k /\ ops[j].active =>
           /\ ops[j].nodes \cap o.nodes = {}
           /\ Lineage[ops[j].dep] # Lineage[o.dep]
  PROVE  ActiveOperationsDisjoint'
<1>1. /\ Len(ops') = Len(all)
      /\ \A j \in 1 .. Len(all) : j # k => ops'[j] = all[j]
      /\ ops'[k].nodes = o.nodes /\ ops'[k].dep = o.dep
  BY StartsRows DEF SameScope
<1>2. SUFFICES ASSUME NEW i \in OpIds', NEW j \in OpIds', i # j,
                      ops'[i].active, ops'[j].active
               PROVE  /\ ops'[i].nodes \cap ops'[j].nodes = {}
                      /\ Lineage[ops'[i].dep] # Lineage[ops'[j].dep]
  BY DEF ActiveOperationsDisjoint
<1>3. i \in 1 .. Len(all) /\ j \in 1 .. Len(all)
  BY <1>1 DEF OpIds
<1>4. CASE i # k /\ j # k
  BY <1>1, <1>2, <1>3, <1>4 DEF ActiveOperationsDisjoint
<1>5. CASE i = k
  <2>1. j \in OpIds /\ ops'[j] = ops[j]
    BY <1>1, <1>2, <1>3, <1>5
  <2> QED
    BY <1>1, <1>2, <1>5, <2>1
<1>6. CASE j = k
  <2>1. i \in OpIds /\ ops'[i] = ops[i]
    BY <1>1, <1>2, <1>3, <1>6
  <2> QED
    BY <1>1, <1>2, <1>6, <2>1
<1> QED
  BY <1>4, <1>5, <1>6

(* A created, applied or retried operation meets no other active one. *)
LEMMA ActivationDisjoint ==
  ASSUME TypeInv, ActiveOperationsDisjoint, Activates
  PROVE  ActiveOperationsDisjoint'
<1>1. TypeOK
  BY DEF TypeInv
<1>2. ASSUME NEW kind \in {"APPLY", "VERIFY"}, NEW d \in Deployment,
             NEW nodes \in SUBSET Node, NEW serve \in BOOLEAN,
             CreateBulk(kind, d, nodes, serve)
      PROVE  ActiveOperationsDisjoint'
  <2> DEFINE o == NewGeneric(kind, d, nodes, serve)
             all == Append(ops, o)
             k == Len(ops) + 1
  <2>1. Starts(k, all, o, kind, nodes)
    BY <1>1, <1>2, CreateBulkStep
  <2>2. o \in Operation /\ o.dep = d /\ o.nodes = nodes
    BY NewGenericTyped
  <2> HIDE DEF o
  <2>3. Len(ops) \in Nat /\ Len(all) = k /\ \A j \in OpIds : all[j] = ops[j]
    BY <1>1, <2>2, OperationAppended, Tables
  <2> HIDE DEF all
  <2>4. /\ k \in 1 .. Len(all)
        /\ \A j \in 1 .. Len(all) : j # k => j \in OpIds /\ all[j] = ops[j]
    BY <2>3 DEF OpIds
  <2>5. \A j \in OpIds : ops[j].active =>
          /\ ops[j].nodes \cap o.nodes = {}
          /\ Lineage[ops[j].dep] # Lineage[o.dep]
    BY <1>2, <2>2 DEF CreateBulk, LineageIdle, NodesIdle, OpIds
  <2>6. kind \in Phases
    BY DEF Phases
  <2> HIDE DEF k
  <2> QED
    BY <2>1, <2>4, <2>5, <2>6, NewActiveRow
<1>3. ASSUME NEW s \in Deployment, NEW serve \in BOOLEAN,
             Previous[s] # NoDeployment, PrepareRollback(s, serve)
      PROVE  ActiveOperationsDisjoint'
  <2> DEFINE o == NewRollback(s, serve)
  <2>1. o \in Operation /\ o.active = FALSE
    BY <1>3, NewRollbackTyped
  <2>2. ops' = Append(ops, o)
    BY <1>3 DEF PrepareRollback
  <2> HIDE DEF o
  <2>3. /\ Len(ops') = Len(ops) + 1 /\ ops'[Len(ops) + 1] = o
        /\ \A j \in OpIds : ops'[j] = ops[j]
    BY <1>1, <2>1, <2>2, OperationAppended
  <2>4. \A j \in OpIds' : ops'[j].active => j \in OpIds /\ ops'[j] = ops[j]
    BY <1>1, <2>1, <2>3, Tables DEF OpIds
  <2> QED
    BY <2>4 DEF ActiveOperationsDisjoint
<1>4. ASSUME NEW s \in Deployment, NEW serve \in BOOLEAN,
             Previous[s] # NoDeployment, NEW k \in 1 .. Len(ops) + 1,
             ApplyRollback(s, serve, k)
      PROVE  ActiveOperationsDisjoint'
  <2> DEFINE all == RollbackRows(s, serve)
             o == Applied(all[k])
  <2>1. k \in 1 .. Len(all) /\ Starts(k, all, o, "STOP_SOURCE", all[k].nodes)
    BY <1>1, <1>4, ApplyRollbackStep
  <2>2. /\ all \in Seq(Operation) /\ Len(all) \in {Len(ops), Len(ops) + 1}
        /\ \A j \in OpIds : all[j] = ops[j]
    BY <1>1, <1>4, RollbackRowsTyped
  <2>3. MayActivate(k, all[k])
    BY <1>4 DEF ApplyRollback, RollbackRows
  <2>4. SameRollback(s, serve) # {} => k \in OpIds
    BY <1>4 DEF ApplyRollback, SameRollback, OpIds
  <2>5. SameRollback(s, serve) = {} => k = Len(all)
    BY <1>4 DEF ApplyRollback, RollbackRows
  <2>6. SameRollback(s, serve) # {} => all = ops
    BY DEF RollbackRows
  <2> HIDE DEF all
  <2>7. o.nodes = all[k].nodes /\ o.dep = all[k].dep
    BY <2>1, <2>2, ElementOfSeq, AppliedTyped
  <2>8. \A j \in OpIds : j # k /\ ops[j].active =>
          /\ ops[j].nodes \cap o.nodes = {}
          /\ Lineage[ops[j].dep] # Lineage[o.dep]
    BY <2>3, <2>7 DEF MayActivate, OpIds
  <2>9. \A j \in 1 .. Len(all) : j # k => j \in OpIds /\ all[j] = ops[j]
    <3>1. Len(ops) \in Nat
      BY <1>1, Tables
    <3>2. CASE SameRollback(s, serve) # {}
      BY <2>6, <3>2 DEF OpIds
    <3>3. CASE SameRollback(s, serve) = {}
      BY <2>2, <2>5, <3>1, <3>3 DEF OpIds
    <3> QED
      BY <3>2, <3>3
  <2> HIDE DEF o
  <2>10. "STOP_SOURCE" \in Phases
    BY DEF Phases
  <2> QED
    BY <2>1, <2>8, <2>9, <2>10, NewActiveRow
<1>5. ASSUME NEW s \in Deployment, NEW serve \in BOOLEAN, NEW k \in OpIds,
             RetryRollback(s, serve, k)
      PROVE  ActiveOperationsDisjoint'
  <2> DEFINE o == Applied(ops[k])
             nodes == RetryNodes(ops[k])
  <2>1. ops[k].phase \in Phases /\ Starts(k, ops, o, ops[k].phase, nodes)
    BY <1>5, RetryRollbackStep
  <2>2. o.nodes = ops[k].nodes /\ o.dep = ops[k].dep
    BY <1>1, Tables, AppliedTyped
  <2>3. \A j \in OpIds : j # k /\ ops[j].active =>
          /\ ops[j].nodes \cap o.nodes = {}
          /\ Lineage[ops[j].dep] # Lineage[o.dep]
    <3>1. CASE ops[k].active
      BY <2>2, <3>1 DEF ActiveOperationsDisjoint
    <3>2. CASE MayActivate(k, ops[k])
      BY <2>2, <3>2 DEF MayActivate, OpIds
    <3> QED
      BY <1>5, <3>1, <3>2 DEF RetryRollback
  <2> DEFINE all == ops
             p == ops[k].phase
  <2>4. /\ k \in 1 .. Len(all) /\ p \in Phases
        /\ Starts(k, all, o, p, nodes)
        /\ \A j \in 1 .. Len(all) : j # k => j \in OpIds /\ all[j] = ops[j]
    BY <2>1 DEF OpIds
  <2> HIDE DEF o, nodes, all, p
  <2> QED
    BY <2>3, <2>4, NewActiveRow
<1> QED
  BY <1>2, <1>3, <1>4, <1>5 DEF Activates

(* Two active operations share neither a node nor a lineage, whatever the     *)
(* interleaving of bulks, rollbacks, retries and reports: the unique column   *)
(* active_lineage_id of tables.py and the node checks of create_tasks and     *)
(* _activate_operation together never let a second one in.                    *)
THEOREM ActiveDisjoint == Spec => []ActiveOperationsDisjoint
<1>1. Init => ActiveOperationsDisjoint
  BY DEF Init, ActiveOperationsDisjoint, OpIds
<1>2. TypeInv /\ ActiveOperationsDisjoint /\ [Next]_vars
        => ActiveOperationsDisjoint'
  <2> SUFFICES ASSUME TypeInv, ActiveOperationsDisjoint, [Next]_vars
               PROVE  ActiveOperationsDisjoint'
    OBVIOUS
  <2>1. CASE Activates
    BY <2>1, ActivationDisjoint
  <2>2. CASE Kept
    BY <2>2 DEF Kept, SameScope, ActiveOperationsDisjoint, OpIds
  <2> QED
    BY <2>1, <2>2, StepShapes, ClaimKeeps, EndsFollows, UnboundFollows
<1> QED
  BY <1>1, <1>2, TypeInvariant, PTL DEF Spec

----------------------------------------------------------------------------
(* One lease per node *)

(* Claim leases the oldest live task of a node that has no running lease. *)
LEMMA ClaimOldest ==
  ASSUME TypeInv, OneLeasePerNode, NEW n \in Node, NEW i \in TaskIds(n),
         Claim(n, i)
  PROVE  OneLeasePerNode'
<1>1. /\ TypeOK /\ ~Leased(n) /\ i \in Claimable(n)
      /\ \A j \in Claimable(n) : i <= j
  BY DEF Claim, OldestClaimable, TypeInv
<1>2. PICK u \in Task : TaskChanged(n, i, u) /\ u.status = "RUNNING"
  BY <1>1, ClaimStep DEF Leases
<1>3. ASSUME NEW j \in LiveIds(n)
      PROVE  j \in Claimable(n) /\ i <= j
  <2>1. tasks[n][j].status = "RUNNING" => HasExpired(tasks[n][j])
    BY <1>1 DEF Leased, LiveIds
  <2>2. tasks[n][j].status \in {"QUEUED", "RUNNING"}
    BY DEF LiveIds, IsLive, LiveStatus
  <2> QED
    BY <1>1, <2>1, <2>2 DEF Claimable, LiveIds
<1>4. i \in LiveIds(n)
  BY <1>1 DEF Claimable, HasExpired, LiveIds, IsLive, LiveStatus
<1>5. SUFFICES ASSUME NEW q \in Node, NEW a \in LiveIds(q)', NEW b \in LiveIds(q)',
                      a < b
               PROVE  tasks'[q][b].status = "QUEUED"
  BY DEF OneLeasePerNode
<1>6. /\ TaskIds(q)' = TaskIds(q)
      /\ \A j \in TaskIds(q) : tasks'[q][j] = IF q = n /\ j = i THEN u ELSE tasks[q][j]
  BY <1>2 DEF TaskChanged, TaskIds
<1>7. a \in LiveIds(q) /\ b \in LiveIds(q)
  BY <1>4, <1>6 DEF LiveIds
<1>8. tasks[q][b].status = "QUEUED"
  BY <1>5, <1>7 DEF OneLeasePerNode
<1>9. ~(q = n /\ b = i)
  <2>1. a \in Int /\ b \in Int
    BY <1>1, <1>7, Tables DEF LiveIds
  <2> QED
    BY <1>3, <1>5, <1>7, <2>1
<1> QED
  BY <1>6, <1>7, <1>8, <1>9 DEF LiveIds

(* A task behind a live one is still waiting. *)
LEMMA FollowsInOrder ==
  ASSUME TypeInv, OneLeasePerNode, Follows
  PROVE  OneLeasePerNode'
<1>1. SUFFICES ASSUME NEW q \in Node, NEW a \in LiveIds(q)', NEW b \in LiveIds(q)',
                      a < b
               PROVE  tasks'[q][b].status = "QUEUED"
  BY DEF OneLeasePerNode
<1>2. a \in TaskIds(q)' /\ b \in TaskIds(q)' /\ IsLive(tasks'[q][a]) /\ IsLive(tasks'[q][b])
  BY DEF LiveIds
<1>3. CASE b \in TaskIds(q)
  <2>1. Len(tasks[q]) \in Nat /\ TaskIds(q) = 1 .. Len(tasks[q])
    BY Tables DEF TypeInv
  <2>2. a \in TaskIds(q)
    BY <1>1, <1>2, <1>3, <2>1 DEF TaskIds
  <2>3. ASSUME NEW j \in TaskIds(q), IsLive(tasks'[q][j])
        PROVE  j \in LiveIds(q) /\ tasks'[q][j].status = tasks[q][j].status
    BY <2>3 DEF Follows, IsLive, LiveStatus, Terminal, LiveIds
  <2>4. a \in LiveIds(q) /\ b \in LiveIds(q) /\ tasks'[q][b].status = tasks[q][b].status
    BY <1>2, <1>3, <2>2, <2>3
  <2> QED
    BY <1>1, <2>4 DEF OneLeasePerNode
<1>4. CASE b \notin TaskIds(q)
  BY <1>2, <1>4 DEF Follows
<1> QED
  BY <1>3, <1>4

(* Creating or restarting an operation only adds waiting tasks. *)
LEMMA ActivationFollows ==
  ASSUME TypeInv, Activates
  PROVE  Follows
<1>1. TypeOK
  BY DEF TypeInv
<1>2. ASSUME NEW kind \in {"APPLY", "VERIFY"}, NEW d \in Deployment,
             NEW nodes \in SUBSET Node, NEW serve \in BOOLEAN,
             CreateBulk(kind, d, nodes, serve)
      PROVE  Follows
  <2> DEFINE o == NewGeneric(kind, d, nodes, serve)
             all == Append(ops, o)
             k == Len(ops) + 1
  <2>1. Starts(k, all, o, kind, nodes)
    BY <1>1, <1>2, CreateBulkStep
  <2>2. o \in Operation
    BY NewGenericTyped
  <2> HIDE DEF o
  <2>3. Len(ops) \in Nat /\ Len(all) = k
    BY <1>1, <2>2, OperationAppended, Tables
  <2> HIDE DEF all
  <2>4. k \in 1 .. Len(all) /\ Len(all) \in Nat /\ kind \in Phases
    BY <2>3 DEF Phases
  <2> HIDE DEF k
  <2> QED
    BY <2>1, <2>4, StartsFollows
<1>3. ASSUME NEW s \in Deployment, NEW serve \in BOOLEAN, PrepareRollback(s, serve)
      PROVE  Follows
  BY <1>3 DEF PrepareRollback, Follows, TaskIds
<1>4. ASSUME NEW s \in Deployment, NEW serve \in BOOLEAN,
             Previous[s] # NoDeployment, NEW k \in 1 .. Len(ops) + 1,
             ApplyRollback(s, serve, k)
      PROVE  Follows
  <2> DEFINE all == RollbackRows(s, serve)
             o == Applied(all[k])
             nodes == all[k].nodes
  <2>1. k \in 1 .. Len(all) /\ Starts(k, all, o, "STOP_SOURCE", nodes)
    BY <1>1, <1>4, ApplyRollbackStep
  <2>2. all \in Seq(Operation)
    BY <1>1, <1>4, RollbackRowsTyped
  <2> HIDE DEF all
  <2>3. nodes \in SUBSET Node /\ Len(all) \in Nat
    BY <2>1, <2>2, ElementOfSeq, OperationFields, LenProperties
  <2>4. "STOP_SOURCE" \in Phases
    BY DEF Phases
  <2> HIDE DEF o, nodes
  <2> QED
    BY <2>1, <2>3, <2>4, StartsFollows
<1>5. ASSUME NEW s \in Deployment, NEW serve \in BOOLEAN, NEW k \in OpIds,
             RetryRollback(s, serve, k)
      PROVE  Follows
  <2> DEFINE nodes == RetryNodes(ops[k])
             o == Applied(ops[k])
  <2>1. ops[k].phase \in Phases /\ Starts(k, ops, o, ops[k].phase, nodes)
    BY <1>5, RetryRollbackStep
  <2>2. nodes \in SUBSET Node /\ Len(ops) \in Nat /\ k \in 1 .. Len(ops)
    BY <1>1, Tables DEF RetryNodes, FailedNodes, OpIds
  <2> HIDE DEF o, nodes
  <2> QED
    BY <2>1, <2>2, StartsFollows
<1> QED
  BY <1>2, <1>3, <1>4, <1>5 DEF Activates

(* claim_task never runs two tasks of a node at once and never overtakes:      *)
(* whatever is behind a live task in created_at order is still QUEUED.        *)
THEOREM OneLease == Spec => []OneLeasePerNode
<1>1. Init => OneLeasePerNode
  BY EmptySeq DEF Init, OneLeasePerNode, LiveIds, TaskIds
<1>2. TypeInv /\ OneLeasePerNode /\ [Next]_vars => OneLeasePerNode'
  <2> SUFFICES ASSUME TypeInv, OneLeasePerNode, [Next]_vars
               PROVE  OneLeasePerNode'
    OBVIOUS
  <2>1. CASE Activates
    BY <2>1, ActivationFollows, FollowsInOrder
  <2>2. CASE Claims
    BY <2>2, ClaimOldest DEF Claims
  <2>3. CASE Follows
    BY <2>3, FollowsInOrder
  <2> QED
    BY <2>1, <2>2, <2>3, StepShapes, EndsFollows, UnboundFollows
<1> QED
  BY <1>1, <1>2, TypeInvariant, PTL DEF Spec

----------------------------------------------------------------------------
(* Every live task is the current attempt of its record *)

(* No record has two live tasks. *)
OneTaskPerRecord ==
  \A n \in Node : \A i, j \in BoundLiveIds(n) :
    tasks[n][i].op = tasks[n][j].op => i = j

CurrentInv == TypeInv /\ LiveBoundTaskIsCurrent /\ OneTaskPerRecord

(* What LiveBoundTaskIsCurrent says of a live task, with the row it names. *)
Good(n, t) ==
  /\ t.op \in OpIds
  /\ ops[t.op].active
  /\ IsCurrent(t, n)
  /\ ops[t.op].rec[t.phase][n].status = t.status

(* LiveBoundTaskIsCurrent, task by task. *)
LEMMA GoodTasks ==
  /\ LiveBoundTaskIsCurrent <=>
       \A n \in Node : \A i \in BoundLiveIds(n) : Good(n, tasks[n][i])
  /\ LiveBoundTaskIsCurrent' <=>
       \A n \in Node : \A i \in BoundLiveIds(n)' : Good(n, tasks[n][i])'
BY DEF LiveBoundTaskIsCurrent, Good

(* A step that concerns no operation leaves the live tasks of all of them.    *)
LEMMA UnboundCurrent ==
  ASSUME CurrentInv, Unbound
  PROVE  LiveBoundTaskIsCurrent' /\ OneTaskPerRecord'
<1>1. ASSUME NEW n \in Node, NEW i \in BoundLiveIds(n)'
      PROVE  /\ i \in BoundLiveIds(n)
             /\ SameWork(tasks'[n][i], tasks[n][i])
             /\ tasks'[n][i].status = tasks[n][i].status
  <2>1. i \in TaskIds(n)' /\ IsLive(tasks'[n][i]) /\ tasks'[n][i].op # 0
    BY DEF BoundLiveIds, LiveIds
  <2>2. i \in TaskIds(n)
    BY <2>1 DEF Unbound
  <2>3. /\ SameWork(tasks'[n][i], tasks[n][i])
        /\ tasks'[n][i].status = tasks[n][i].status
    BY <2>1, <2>2 DEF Unbound, SameWork
  <2> QED
    BY <2>1, <2>2, <2>3 DEF BoundLiveIds, LiveIds, IsLive, SameWork
<1>2. ASSUME NEW n \in Node, NEW i \in BoundLiveIds(n)'
      PROVE  Good(n, tasks[n][i])'
  <2>1. Good(n, tasks[n][i])
    BY <1>1, GoodTasks DEF CurrentInv
  <2> QED
    BY <1>1, <2>1 DEF Good, SameWork, IsCurrent, Unbound, OpIds
<1>3. OneTaskPerRecord'
  BY <1>1 DEF OneTaskPerRecord, SameWork, CurrentInv
<1> QED
  BY <1>2, <1>3, GoodTasks

(* Leasing a task marks its own record and no other. *)
LEMMA ClaimCurrent ==
  ASSUME CurrentInv, Claims
  PROVE  LiveBoundTaskIsCurrent' /\ OneTaskPerRecord'
<1>1. PICK n \in Node : \E i \in TaskIds(n) : Claim(n, i)
  BY DEF Claims
<1>2. PICK i \in TaskIds(n) : Claim(n, i)
  BY <1>1
<1>3. Leases(n, i) /\ TypeInv /\ TypeOK
  BY <1>2, ClaimStep DEF CurrentInv, TypeInv
<1>4. PICK u \in Task : /\ TaskChanged(n, i, u) /\ SameWork(u, tasks[n][i])
                        /\ u.status = "RUNNING"
  BY <1>3 DEF Leases
<1>5. IsLive(tasks[n][i])
  BY <1>2 DEF Claim, OldestClaimable, Claimable, HasExpired, IsLive, LiveStatus
<1>6. ASSUME NEW q \in Node
      PROVE  /\ TaskIds(q)' = TaskIds(q)
             /\ \A j \in TaskIds(q) :
                  tasks'[q][j] = IF q = n /\ j = i THEN u ELSE tasks[q][j]
  BY <1>4 DEF TaskChanged, TaskIds
<1>7. ASSUME NEW q \in Node, NEW j \in BoundLiveIds(q)'
      PROVE  j \in BoundLiveIds(q) /\ SameWork(tasks'[q][j], tasks[q][j])
  BY <1>4, <1>5, <1>6 DEF BoundLiveIds, LiveIds, SameWork
<1>8. OneTaskPerRecord'
  BY <1>7 DEF OneTaskPerRecord, SameWork, CurrentInv
<1>9. ASSUME NEW q \in Node, NEW j \in BoundLiveIds(q)'
      PROVE  Good(q, tasks[q][j])'
  <2>1. j \in BoundLiveIds(q) /\ j \in TaskIds(q) /\ tasks[q][j].op # 0
    BY <1>7 DEF BoundLiveIds, LiveIds
  <2>2. Good(q, tasks[q][j])
    BY <2>1, GoodTasks DEF CurrentInv
  <2>3. CASE tasks[n][i].op = 0
    <3>1. ops' = ops /\ tasks'[q][j] = tasks[q][j]
      BY <1>3, <1>6, <2>1, <2>3 DEF Leases
    <3> QED
      BY <2>2, <3>1 DEF Good, IsCurrent, OpIds
  <2>4. CASE tasks[n][i].op # 0
    <3> DEFINE k == tasks[n][i].op
               p == tasks[n][i].phase
    <3>1. PICK r \in Operation :
            /\ RowChanged(k, r)
            /\ \E o : /\ IsOutcome(o, ops[k], p, n, "RUNNING")
                      /\ r.active = o.active /\ r.rec = o.rec /\ r.phase = o.phase
      BY <1>3, <2>4 DEF Leases
    <3> HIDE DEF k, p
    <3>2. /\ r.active = ops[k].active /\ r.phase = ops[k].phase
          /\ \A a \in Phases, m \in Node :
               r.rec[a][m] = IF a = p /\ m = n
                             THEN [status |-> "RUNNING",
                                   attempt |-> ops[k].rec[p][n].attempt]
                             ELSE ops[k].rec[a][m]
      <4>1. PICK o : /\ IsOutcome(o, ops[k], p, n, "RUNNING")
                     /\ r.active = o.active /\ r.rec = o.rec /\ r.phase = o.phase
        BY <3>1
      <4> QED
        BY <4>1 DEF IsOutcome
    <3>3. k \in OpIds /\ p \in Phases /\ i \in BoundLiveIds(n)
      BY <1>3, <1>5, <2>4, BoundTask DEF BoundLiveIds, LiveIds, k, p
    <3>4. Good(n, tasks[n][i])
      BY <3>3, GoodTasks DEF CurrentInv
    <3>5. OpIds' = OpIds /\ \A a \in OpIds : ops'[a] = IF a = k THEN r ELSE ops[a]
      BY <3>1 DEF RowChanged, OpIds
    <3>6. CASE q = n /\ j = i
      <4>1. tasks'[q][j] = u
        BY <1>6, <2>1, <3>6
      <4>2. u.op = k /\ u.phase = p /\ u.attempt = tasks[n][i].attempt
        BY <1>4 DEF SameWork, k, p
      <4>3. ops[k].active /\ p = ops[k].phase /\ u.attempt = ops[k].rec[p][n].attempt
        BY <3>4, <4>2 DEF Good, IsCurrent, k, p
      <4>4. r.rec[p][n] = [status |-> "RUNNING", attempt |-> ops[k].rec[p][n].attempt]
        BY <3>2, <3>3
      <4>5. /\ ops'[u.op] = r /\ u.op \in OpIds' /\ r.active /\ u.phase = r.phase
            /\ u.attempt = r.rec[u.phase][n].attempt
            /\ r.rec[u.phase][n].status = u.status
        BY <1>4, <3>2, <3>3, <3>5, <4>2, <4>3, <4>4
      <4> QED
        BY <3>6, <4>1, <4>5 DEF Good, IsCurrent
    <3>7. CASE ~(q = n /\ j = i)
      <4>1. tasks'[q][j] = tasks[q][j]
        BY <1>6, <2>1, <3>7
      <4>2. CASE tasks[q][j].op = k
        <5>1. q # n
          BY <2>1, <3>3, <3>7, <4>2 DEF OneTaskPerRecord, CurrentInv, k
        <5>2. tasks[q][j].phase \in Phases
          BY <1>3, <2>1, BoundTask
        <5>3. r.rec[tasks[q][j].phase][q] = ops[k].rec[tasks[q][j].phase][q]
          BY <3>2, <5>1, <5>2
        <5> DEFINE t == tasks[q][j]
        <5>4. /\ ops[k].active /\ t.phase = ops[k].phase
              /\ t.attempt = ops[k].rec[t.phase][q].attempt
              /\ ops[k].rec[t.phase][q].status = t.status
          BY <2>2, <4>2 DEF Good, IsCurrent
        <5>5. /\ ops'[t.op] = r /\ t.op \in OpIds' /\ r.active /\ t.phase = r.phase
              /\ t.attempt = r.rec[t.phase][q].attempt
              /\ r.rec[t.phase][q].status = t.status
          BY <3>2, <3>3, <3>5, <4>2, <5>3, <5>4
        <5> QED
          BY <4>1, <5>5 DEF Good, IsCurrent
      <4>3. CASE tasks[q][j].op # k
        BY <2>2, <3>5, <4>1, <4>3 DEF Good, IsCurrent
      <4> QED
        BY <4>2, <4>3
    <3> QED
      BY <3>6, <3>7
  <2> QED
    BY <2>3, <2>4
<1> QED
  BY <1>8, <1>9, GoodTasks

(* A phase starts on a row that has no live task. *)
LEMMA StartsCurrent ==
  ASSUME CurrentInv, NEW all, NEW k \in 1 .. Len(all), Len(all) \in Nat, NEW o,
         NEW p \in Phases, NEW nodes \in SUBSET Node,
         Starts(k, all, o, p, nodes), o.active = TRUE,
         \A j \in OpIds : j # k => j \in 1 .. Len(all) /\ all[j] = ops[j],
         \A n \in Node : \A i \in BoundLiveIds(n) : tasks[n][i].op # k
  PROVE  LiveBoundTaskIsCurrent' /\ OneTaskPerRecord'
<1>1. PICK q \in Operation : /\ IsQueued(q, o, p, nodes)
                             /\ PhaseStarted(k, all, q, tasks, nodes)
  BY DEF Starts
<1>2. /\ OpIds' = 1 .. Len(all) /\ ops'[k] = q
      /\ \A j \in OpIds : j # k => j \in OpIds' /\ ops'[j] = ops[j]
  BY <1>1 DEF PhaseStarted, OpIds
<1>3. Grown(tasks', tasks, nodes, PhaseTasks(k, q), Len(ops'))
  BY <1>1 DEF PhaseStarted
<1>4. q.phase = p /\ q.active /\ k # 0
  BY <1>1 DEF IsQueued
<1>5. ASSUME NEW n \in Node, NEW i \in BoundLiveIds(n)'
      PROVE  \/ i \in BoundLiveIds(n) /\ tasks'[n][i] = tasks[n][i]
             \/ /\ n \in nodes /\ i = Len(tasks[n]) + 1
                /\ tasks'[n][i] = PhaseTask(k, q, n)
  <2>1. /\ Len(tasks[n]) \in Nat
        /\ Len(tasks'[n]) = IF n \in nodes THEN Len(tasks[n]) + 1 ELSE Len(tasks[n])
        /\ \A j \in 1 .. Len(tasks[n]) : tasks'[n][j] = tasks[n][j]
        /\ n \in nodes => tasks'[n][Len(tasks[n]) + 1] = PhaseTasks(k, q)[n]
    BY <1>3, Tables DEF Grown, CurrentInv, TypeInv
  <2>2. TaskIds(n) = 1 .. Len(tasks[n]) /\ TaskIds(n)' = 1 .. Len(tasks'[n])
    BY DEF TaskIds
  <2>3. i \in TaskIds(n)' /\ IsLive(tasks'[n][i]) /\ tasks'[n][i].op # 0
    BY DEF BoundLiveIds, LiveIds
  <2>4. i \in TaskIds(n) \/ (n \in nodes /\ i = Len(tasks[n]) + 1)
    BY <2>1, <2>2, <2>3
  <2>5. PhaseTasks(k, q)[n] = PhaseTask(k, q, n)
    BY DEF PhaseTasks
  <2>6. CASE i \in TaskIds(n)
    <3>1. tasks'[n][i] = tasks[n][i]
      BY <2>1, <2>2, <2>6
    <3> QED
      BY <2>3, <2>6, <3>1 DEF BoundLiveIds, LiveIds
  <2> QED
    BY <2>1, <2>4, <2>5, <2>6
<1>6. ASSUME NEW n \in Node, NEW i \in BoundLiveIds(n)'
      PROVE  Good(n, tasks[n][i])'
  <2>1. CASE i \in BoundLiveIds(n) /\ tasks'[n][i] = tasks[n][i]
    <3>1. Good(n, tasks[n][i]) /\ tasks[n][i].op # k
      BY <2>1, GoodTasks DEF CurrentInv
    <3> QED
      BY <1>2, <2>1, <3>1 DEF Good, IsCurrent
  <2>2. CASE n \in nodes /\ tasks'[n][i] = PhaseTask(k, q, n)
    <3>1. q.rec[p][n].status = "QUEUED"
      <4>1. q.rec[p][n] = [status |-> "QUEUED", attempt |-> o.rec[p][n].attempt + 1]
        BY <1>1, <2>2 DEF IsQueued
      <4> QED
        BY <4>1
    <3> QED
      BY <1>2, <1>4, <2>2, <3>1 DEF Good, IsCurrent, PhaseTask
  <2> QED
    BY <1>5, <2>1, <2>2
<1>7. OneTaskPerRecord'
  <2> SUFFICES ASSUME NEW n \in Node, NEW i \in BoundLiveIds(n)',
                      NEW j \in BoundLiveIds(n)', tasks'[n][i].op = tasks'[n][j].op
               PROVE  i = j
    BY DEF OneTaskPerRecord
  <2>1. PhaseTask(k, q, n).op = k
    BY DEF PhaseTask
  <2> QED
    BY <1>5, <2>1 DEF OneTaskPerRecord, CurrentInv
<1> QED
  BY <1>6, <1>7, GoodTasks

(* A task that ends leaves no live task behind in a phase its operation leaves. *)
LEMMA EndsCurrent ==
  ASSUME CurrentInv, NEW n \in Node, NEW i \in BoundLiveIds(n),
         NEW s \in {"SUCCEEDED", "FAILED", "CANCELED"}, TaskEnded(n, i, s)
  PROVE  LiveBoundTaskIsCurrent' /\ OneTaskPerRecord'
<1> DEFINE k == tasks[n][i].op
           p == tasks[n][i].phase
           o == EndedRow(n, i, s)
           ts == EndedQueues(n, i, s)
<1>1. /\ TypeOK /\ i \in TaskIds(n) /\ k # 0 /\ s \in TaskStatus
      /\ Good(n, tasks[n][i])
  BY GoodTasks DEF CurrentInv, TypeInv, BoundLiveIds, LiveIds, TaskStatus, LiveStatus
<1>2. IsOutcome(o, ops[k], p, n, s) /\ Ended(ts, tasks, n, i, s, Len(ops))
  BY <1>1, EndedTyped
<1>3. k \in OpIds /\ p \in Phases /\ ops[k] \in Operation
  BY <1>1, BoundTask
<1>4. ops[k].active /\ p = ops[k].phase
  BY <1>1 DEF Good, IsCurrent
<1>5. OperationStep(k, o, ts)
  BY DEF TaskEnded
<1>6. [tasks[n][i] EXCEPT !.status = s, !.lease = 0].status = s
  <2> DEFINE t == tasks[n][i]
  <2>1. t \in Task
    BY <1>1, Tables
  <2> HIDE DEF t
  <2>2. [t EXCEPT !.status = s, !.lease = 0].status = s
    BY <2>1 DEF Task
  <2> QED
    BY <2>2 DEF t
<1>7. k \in Nat \ {0}
  BY <1>1, <1>3 DEF OpIds
<1> HIDE DEF o, ts
<1>8. ASSUME NEW q \in Node, NEW j \in TaskIds(q), IsLive(ts[q][j]),
             ts[q][j].op # 0
      PROVE  /\ j \in BoundLiveIds(q) /\ ts[q][j] = tasks[q][j]
             /\ ~(q = n /\ j = i)
  <2>1. ts[q][j] = IF q = n /\ j = i
                   THEN [tasks[n][i] EXCEPT !.status = s, !.lease = 0]
                   ELSE tasks[q][j]
    BY <1>2 DEF Ended, TaskIds
  <2>2. ~(q = n /\ j = i)
    BY <1>6, <1>8, <2>1 DEF IsLive, LiveStatus
  <2>3. ts[q][j] = tasks[q][j]
    BY <2>1, <2>2
  <2> QED
    BY <1>8, <2>2, <2>3 DEF BoundLiveIds, LiveIds
<1>9. ASSUME NEW q \in Node, NEW j \in BoundLiveIds(q), ~(q = n /\ j = i),
             tasks[q][j].op = k
      PROVE  /\ q # n /\ ~Settled(o) /\ tasks[q][j].phase = p
             /\ o.rec[p][q] = ops[k].rec[p][q]
  <2>1. q # n
    BY <1>9 DEF OneTaskPerRecord, CurrentInv
  <2>2. Good(q, tasks[q][j]) /\ IsLive(tasks[q][j])
    BY GoodTasks DEF CurrentInv, BoundLiveIds, LiveIds
  <2>3. /\ tasks[q][j].phase = p
        /\ ops[k].rec[p][q].status \in LiveStatus
    BY <1>4, <1>9, <2>2 DEF Good, IsCurrent, IsLive
  <2>4. o.rec[p][q] = ops[k].rec[p][q] /\ o.phase = p
    <3> HIDE DEF k, p
    <3> QED
      BY <1>2, <1>3, <1>4, <2>1 DEF IsOutcome
  <2>5. o.rec[o.phase][q].status \in LiveStatus
    BY <2>3, <2>4
  <2>6. ~Settled(o)
    BY <2>5 DEF Settled, PhaseNodes, LiveStatus, Terminal
  <2> QED
    BY <2>1, <2>3, <2>4, <2>6
<1>10. PICK r \in Operation :
         /\ RowChanged(k, r)
         /\ \/ /\ tasks' = ts
               /\ \/ Settled(o)
                  \/ r.rec = o.rec /\ r.phase = o.phase /\ r.active = o.active
            \/ /\ Settled(o) /\ r.active = o.active /\ r.phase \in Phases
               /\ \E nodes \in SUBSET Node :
                    /\ Grown(tasks', ts, nodes, PhaseTasks(k, r), Len(ops'))
                    /\ \A m \in nodes : r.rec[r.phase][m].status = "QUEUED"
  BY <1>5 DEF OperationStep
<1>11. OpIds' = OpIds /\ \A a \in OpIds : ops'[a] = IF a = k THEN r ELSE ops[a]
  BY <1>10 DEF RowChanged, OpIds
<1>12. o.active = ops[k].active /\ o.phase = p
  BY <1>2, <1>4 DEF IsOutcome
(* a live task from before the step *)
<1>13. ASSUME NEW q \in Node, NEW j \in BoundLiveIds(q), ~(q = n /\ j = i),
              tasks'[q][j] = tasks[q][j],
              Settled(o) \/ (r.rec = o.rec /\ r.phase = o.phase /\ r.active = o.active)
       PROVE  Good(q, tasks[q][j])'
  <2> DEFINE t == tasks[q][j]
  <2>1. Good(q, t)
    BY GoodTasks DEF CurrentInv
  <2>2. CASE t.op # k
    BY <1>11, <1>13, <2>1, <2>2 DEF Good, IsCurrent
  <2>3. CASE t.op = k
    <3>1. /\ q # n /\ ~Settled(o) /\ t.phase = p
          /\ o.rec[p][q] = ops[k].rec[p][q]
      BY <1>9, <1>13, <2>3
    <3>2. /\ t.attempt = ops[k].rec[p][q].attempt
          /\ ops[k].rec[p][q].status = t.status
      BY <2>1, <2>3, <3>1 DEF Good, IsCurrent
    <3> HIDE DEF p
    <3>3. /\ ops'[t.op] = r /\ t.op \in OpIds' /\ r.active /\ t.phase = r.phase
          /\ t.attempt = r.rec[t.phase][q].attempt
          /\ r.rec[t.phase][q].status = t.status
      BY <1>3, <1>4, <1>11, <1>12, <1>13, <2>3, <3>1, <3>2, ZenonT(60)
    <3> QED
      BY <1>13, <3>3 DEF Good, IsCurrent
  <2> QED
    BY <2>2, <2>3
<1>14. CASE /\ tasks' = ts
            /\ \/ Settled(o)
               \/ r.rec = o.rec /\ r.phase = o.phase /\ r.active = o.active
  <2>1. ASSUME NEW q \in Node, NEW j \in BoundLiveIds(q)'
        PROVE  /\ j \in BoundLiveIds(q) /\ tasks'[q][j] = tasks[q][j]
               /\ ~(q = n /\ j = i)
    <3>1. j \in 1 .. Len(ts[q]) /\ IsLive(ts[q][j]) /\ ts[q][j].op # 0
      BY <1>14, <2>1 DEF BoundLiveIds, LiveIds, TaskIds
    <3>2. j \in TaskIds(q)
      BY <1>2, <3>1 DEF Ended, TaskIds
    <3> QED
      BY <1>8, <1>14, <3>1, <3>2
  <2>2. \A q \in Node : \A j \in BoundLiveIds(q)' : Good(q, tasks[q][j])'
    BY <1>13, <1>14, <2>1
  <2>3. OneTaskPerRecord'
    BY <2>1 DEF OneTaskPerRecord, CurrentInv
  <2> QED
    BY <2>2, <2>3, GoodTasks
<1>15. ASSUME Settled(o), r.active = o.active, r.phase \in Phases,
              NEW nodes \in SUBSET Node,
              Grown(tasks', ts, nodes, PhaseTasks(k, r), Len(ops')),
              \A m \in nodes : r.rec[r.phase][m].status = "QUEUED"
       PROVE  LiveBoundTaskIsCurrent' /\ OneTaskPerRecord'
  <2>1. ASSUME NEW q \in Node, NEW j \in BoundLiveIds(q)'
        PROVE  \/ /\ j \in BoundLiveIds(q) /\ tasks'[q][j] = tasks[q][j]
                  /\ ~(q = n /\ j = i) /\ tasks[q][j].op # k
               \/ /\ q \in nodes /\ j = Len(tasks[q]) + 1
                  /\ tasks'[q][j] = PhaseTask(k, r, q)
    <3>1. /\ Len(tasks[q]) \in Nat /\ Len(ts[q]) = Len(tasks[q])
          /\ TaskIds(q) = 1 .. Len(tasks[q])
      BY <1>1, <1>2, Tables DEF Ended
    <3>2. /\ Len(tasks'[q]) = IF q \in nodes THEN Len(ts[q]) + 1 ELSE Len(ts[q])
          /\ \A a \in 1 .. Len(ts[q]) : tasks'[q][a] = ts[q][a]
          /\ q \in nodes => tasks'[q][Len(ts[q]) + 1] = PhaseTasks(k, r)[q]
      BY <1>15 DEF Grown
    <3>3. /\ j \in 1 .. Len(tasks'[q]) /\ IsLive(tasks'[q][j])
          /\ tasks'[q][j].op # 0
      BY <2>1 DEF BoundLiveIds, LiveIds, TaskIds
    <3>4. j \in TaskIds(q) \/ (q \in nodes /\ j = Len(tasks[q]) + 1)
      BY <3>1, <3>2, <3>3
    <3>5. CASE j \in TaskIds(q)
      <4>1. tasks'[q][j] = ts[q][j]
        BY <3>1, <3>2, <3>5
      <4>2. /\ j \in BoundLiveIds(q) /\ ts[q][j] = tasks[q][j]
            /\ ~(q = n /\ j = i)
        BY <1>8, <3>3, <3>5, <4>1
      <4>3. tasks[q][j].op # k
        BY <1>9, <1>15, <4>2
      <4> QED
        BY <4>1, <4>2, <4>3
    <3>6. CASE q \in nodes /\ j = Len(tasks[q]) + 1
      BY <3>1, <3>2, <3>6 DEF PhaseTasks
    <3> QED
      BY <3>4, <3>5, <3>6
  <2>2. ASSUME NEW q \in Node, NEW j \in BoundLiveIds(q)'
        PROVE  Good(q, tasks[q][j])'
    <3>1. CASE /\ j \in BoundLiveIds(q) /\ tasks'[q][j] = tasks[q][j]
               /\ ~(q = n /\ j = i)
      BY <1>13, <1>15, <3>1
    <3>2. CASE q \in nodes /\ tasks'[q][j] = PhaseTask(k, r, q)
      <4> DEFINE t == PhaseTask(k, r, q)
      <4>1. /\ t.op = k /\ t.phase = r.phase /\ t.status = "QUEUED"
            /\ t.attempt = r.rec[r.phase][q].attempt
        BY DEF PhaseTask
      <4>2. /\ ops'[t.op] = r /\ t.op \in OpIds' /\ r.active
            /\ r.rec[t.phase][q].status = t.status
        BY <1>3, <1>4, <1>11, <1>12, <1>15, <3>2, <4>1
      <4> HIDE DEF t
      <4>3. tasks'[q][j] = t
        BY <3>2 DEF t
      <4> QED
        BY <4>1, <4>2, <4>3 DEF Good, IsCurrent
    <3> QED
      BY <2>1, <2>2, <3>1, <3>2
  <2>3. OneTaskPerRecord'
    <3> SUFFICES ASSUME NEW q \in Node, NEW a \in BoundLiveIds(q)',
                        NEW b \in BoundLiveIds(q)', tasks'[q][a].op = tasks'[q][b].op
                 PROVE  a = b
      BY DEF OneTaskPerRecord
    <3>1. PhaseTask(k, r, q).op = k
      BY DEF PhaseTask
    <3> QED
      BY <2>1, <3>1 DEF OneTaskPerRecord, CurrentInv
  <2> QED
    BY <2>2, <2>3, GoodTasks
<1> QED
  BY <1>10, <1>14, <1>15

(* A created, applied or retried operation has no live task before the step. *)
LEMMA ActivationCurrent ==
  ASSUME CurrentInv, Activates
  PROVE  LiveBoundTaskIsCurrent' /\ OneTaskPerRecord'
<1>1. TypeInv /\ TypeOK /\ RowsOK
  BY DEF CurrentInv, TypeInv
<1>2. ASSUME NEW n \in Node, NEW i \in BoundLiveIds(n)
      PROVE  Good(n, tasks[n][i])
  BY GoodTasks DEF CurrentInv
<1>3. ASSUME NEW kind \in {"APPLY", "VERIFY"}, NEW d \in Deployment,
             NEW nodes \in SUBSET Node, NEW serve \in BOOLEAN,
             CreateBulk(kind, d, nodes, serve)
      PROVE  LiveBoundTaskIsCurrent' /\ OneTaskPerRecord'
  <2> DEFINE o == NewGeneric(kind, d, nodes, serve)
             all == Append(ops, o)
             k == Len(ops) + 1
  <2>1. Starts(k, all, o, kind, nodes)
    BY <1>1, <1>3, CreateBulkStep
  <2>2. o \in Operation /\ o.active = TRUE
    BY NewGenericTyped
  <2> HIDE DEF o
  <2>3. Len(ops) \in Nat /\ Len(all) = k /\ \A j \in OpIds : all[j] = ops[j]
    BY <1>1, <2>2, OperationAppended, Tables
  <2> HIDE DEF all
  <2>4. k \in 1 .. Len(all) /\ Len(all) \in Nat /\ kind \in Phases
    BY <2>3 DEF Phases
  <2>5. \A j \in OpIds : j # k => j \in 1 .. Len(all) /\ all[j] = ops[j]
    BY <2>3 DEF OpIds
  <2>6. \A n \in Node : \A i \in BoundLiveIds(n) : tasks[n][i].op # k
    <3>1. k \notin OpIds
      BY <2>3 DEF OpIds
    <3> QED
      BY <1>2, <3>1 DEF Good
  <2> HIDE DEF k
  <2> QED
    BY <2>1, <2>2, <2>4, <2>5, <2>6, StartsCurrent
<1>4. ASSUME NEW s \in Deployment, NEW serve \in BOOLEAN,
             Previous[s] # NoDeployment, PrepareRollback(s, serve)
      PROVE  LiveBoundTaskIsCurrent' /\ OneTaskPerRecord'
  <2> DEFINE o == NewRollback(s, serve)
  <2>1. o \in Operation
    BY <1>4, NewRollbackTyped
  <2>2. ops' = Append(ops, o) /\ tasks' = tasks
    BY <1>4 DEF PrepareRollback
  <2> HIDE DEF o
  <2>3. Len(ops') = Len(ops) + 1 /\ \A j \in OpIds : ops'[j] = ops[j]
    BY <1>1, <2>1, <2>2, OperationAppended
  <2>4. OpIds \subseteq OpIds'
    BY <1>1, <2>3, Tables DEF OpIds
  <2>5. \A n \in Node : BoundLiveIds(n)' = BoundLiveIds(n)
    BY <2>2 DEF BoundLiveIds, LiveIds, TaskIds
  <2>6. ASSUME NEW n \in Node, NEW i \in BoundLiveIds(n)'
        PROVE  Good(n, tasks[n][i])'
    <3>1. Good(n, tasks[n][i])
      BY <1>2, <2>5
    <3> QED
      BY <2>2, <2>3, <2>4, <3>1 DEF Good, IsCurrent
  <2>7. OneTaskPerRecord'
    BY <2>2, <2>5 DEF OneTaskPerRecord, CurrentInv
  <2> QED
    BY <2>6, <2>7, GoodTasks
<1>5. ASSUME NEW s \in Deployment, NEW serve \in BOOLEAN,
             Previous[s] # NoDeployment, NEW k \in 1 .. Len(ops) + 1,
             ApplyRollback(s, serve, k)
      PROVE  LiveBoundTaskIsCurrent' /\ OneTaskPerRecord'
  <2> DEFINE all == RollbackRows(s, serve)
             o == Applied(all[k])
             nodes == all[k].nodes
  <2>1. k \in 1 .. Len(all) /\ Starts(k, all, o, "STOP_SOURCE", nodes)
    BY <1>1, <1>5, ApplyRollbackStep
  <2>2. /\ all \in Seq(Operation)
        /\ \A j \in OpIds : j \in 1 .. Len(all) /\ all[j] = ops[j]
    BY <1>1, <1>5, RollbackRowsTyped
  <2>3. all[k].status = "PREPARED"
    BY <1>5 DEF ApplyRollback, RollbackRows
  <2> HIDE DEF all
  <2>4. nodes \in SUBSET Node /\ Len(all) \in Nat /\ all[k] \in Operation
    BY <2>1, <2>2, ElementOfSeq, OperationFields, LenProperties
  <2>5. o.active = TRUE /\ "STOP_SOURCE" \in Phases
    BY <2>4, AppliedTyped DEF Phases
  <2>6. \A n \in Node : \A i \in BoundLiveIds(n) : tasks[n][i].op # k
    <3>1. k \in OpIds => ~ops[k].active
      BY <1>1, <2>2, <2>3 DEF RowsOK, RowOK
    <3> QED
      BY <1>2, <3>1 DEF Good
  <2> HIDE DEF o, nodes
  <2> QED
    BY <2>1, <2>2, <2>4, <2>5, <2>6, StartsCurrent
<1>6. ASSUME NEW s \in Deployment, NEW serve \in BOOLEAN, NEW k \in OpIds,
             RetryRollback(s, serve, k)
      PROVE  LiveBoundTaskIsCurrent' /\ OneTaskPerRecord'
  <2> DEFINE nodes == RetryNodes(ops[k])
             o == Applied(ops[k])
             all == ops
             p == ops[k].phase
  <2>1. p \in Phases /\ Starts(k, all, o, p, nodes)
    BY <1>1, <1>6, RetryRollbackStep
  <2>2. nodes \in SUBSET Node /\ Len(all) \in Nat /\ k \in 1 .. Len(all)
    BY <1>1, Tables DEF RetryNodes, FailedNodes, OpIds
  <2>3. o.active = TRUE
    BY <1>1, Tables, AppliedTyped
  <2>4. \A n \in Node : \A i \in BoundLiveIds(n) : tasks[n][i].op # k
    <3> SUFFICES ASSUME NEW n \in Node, NEW i \in BoundLiveIds(n), tasks[n][i].op = k
                 PROVE  FALSE
      OBVIOUS
    <3>1. Good(n, tasks[n][i]) /\ tasks[n][i].status \in LiveStatus
      BY <1>2 DEF BoundLiveIds, LiveIds, IsLive
    <3>2. ops[k].rec[ops[k].phase][n].status \in LiveStatus
      BY <3>1 DEF Good, IsCurrent
    <3> QED
      BY <1>6, <3>2 DEF RetryRollback
  <2>5. \A j \in OpIds : j # k => j \in 1 .. Len(all) /\ all[j] = ops[j]
    BY DEF OpIds
  <2> HIDE DEF o, nodes, all, p
  <2> QED
    BY <2>1, <2>2, <2>3, <2>4, <2>5, StartsCurrent
<1> QED
  BY <1>3, <1>4, <1>5, <1>6 DEF Activates

(* The current attempts, with what makes them inductive: the tables are typed  *)
(* and no record has two live tasks.                                         *)
THEOREM CurrentInvariant == Spec => []CurrentInv
<1>1. Init => LiveBoundTaskIsCurrent /\ OneTaskPerRecord
  BY EmptySeq DEF Init, LiveBoundTaskIsCurrent, OneTaskPerRecord, BoundLiveIds,
                  LiveIds, TaskIds
<1>2. Init => CurrentInv
  BY <1>1, TypeInvInit DEF CurrentInv
<1>3. CurrentInv /\ [Next]_vars => CurrentInv'
  <2> SUFFICES ASSUME CurrentInv, [Next]_vars
               PROVE  LiveBoundTaskIsCurrent' /\ OneTaskPerRecord'
    BY TypeInvNext DEF CurrentInv
  <2>1. CASE Activates
    BY <2>1, ActivationCurrent
  <2>2. CASE Claims
    BY <2>2, ClaimCurrent
  <2>3. CASE Ends
    BY <2>3, EndsCurrent DEF Ends
  <2>4. CASE Unbound
    BY <2>4, UnboundCurrent
  <2> QED
    BY <2>1, <2>2, <2>3, <2>4, StepShapes DEF CurrentInv
<1> QED
  BY <1>2, <1>3, PTL DEF Spec

(* Every live task of an operation is the current attempt of the record of its *)
(* node, in the record's state, and the operation is active: a claim, report, *)
(* cancel or revocation of it always finds the row it has to settle.         *)
THEOREM LiveTaskIsCurrent == Spec => []LiveBoundTaskIsCurrent
<1>1. CurrentInv => LiveBoundTaskIsCurrent
  BY DEF CurrentInv
<1> QED
  BY <1>1, CurrentInvariant, PTL
=============================================================================
