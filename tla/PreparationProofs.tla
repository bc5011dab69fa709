------------------------- MODULE PreparationProofs -------------------------
(* Theorems of Preparation, for every set of nodes, generations and caches,   *)
(* every plan and every bound: what records, attempts, tasks, cache rows,     *)
(* quarantine requests and the disk of a node say of each other.             *)
EXTENDS Preparation, SequenceTheorems, TLAPS

----------------------------------------------------------------------------
(* The inductive invariant *)

DeploymentStatus == {"ABSENT", "CREATED", "VERIFYING", "VERIFIED", "VERIFY_FAILED"}
Tables ==
  /\ TypeOK
  /\ status \in [Deployment -> DeploymentStatus]
  /\ queue \in [Node -> Seq(Tasks)]

(* What a task refers to never changes, and only a lease expires.             *)
TaskOK(n, t) ==
  /\ t.kind \in Stage \cup {"VERIFY"} =>
       t.dep \in Deployment /\ n \in Assigned[t.dep] /\ t.art = Identity[t.dep]
  /\ t.kind = "QUARANTINE" => t.art \in Artifact
  /\ t.expired => t.status = "RUNNING"

(* A node has one live task besides a probe, and no verification that is         *)
(* followed by another one of the same generation is live.                   *)
Busy(t) == IsLive(t) /\ t.kind # "PROBE"
OneBusy(n) ==
  \A i, j \in TaskIds(n) : Busy(queue[n][i]) /\ Busy(queue[n][j]) => i = j
LastIsLive(n) ==
  \A i, j \in TaskIds(n) :
    /\ queue[n][i].kind = "VERIFY" /\ IsLive(queue[n][i])
    /\ queue[n][j].kind = "VERIFY" /\ queue[n][j].dep = queue[n][i].dep
    => j <= i
QueueInv ==
  \A n \in Node :
    OneBusy(n) /\ LastIsLive(n) /\ \A i \in TaskIds(n) : TaskOK(n, queue[n][i])

(* Attempts and records agree, and a preparation shows what its records show.  *)
TaskIsCurrent(n) ==
  \A i \in TaskIds(n) : queue[n][i].kind \in Stage /\ IsLive(queue[n][i]) =>
    AttemptIsCurrent(n, queue[n][i])
RecordHasTask(d, n) ==
  \A s \in Stage : record[d][n][s].status \in LiveStatus =>
    \E i \in TaskIds(n) :
      IsLive(queue[n][i]) /\ queue[n][i].dep = d /\ queue[n][i].kind = s
ImageNeedsModel(d, n) ==
  record[d][n]["IMAGE"].no > 0 \/ record[d][n]["IMAGE"].status # "PREPARED"
    => record[d][n]["MODEL"].status = "SUCCEEDED"
Untouched(r) == \A s \in Stage : r[s].status = "PREPARED" /\ r[s].no = 0
RecordInv ==
  /\ \A n \in Node : TaskIsCurrent(n)
  /\ \A d \in Deployment, n \in Node :
       /\ RecordHasTask(d, n) /\ ImageNeedsModel(d, n)
       /\ n \notin Assigned[d] \/ prep[d] = "NONE" => Untouched(record[d][n])
  /\ \A d \in Deployment :
       prep[d] # "NONE" => prep[d] = Derived(record[d], Assigned[d])

(* A live verification keeps its generation VERIFYING.                          *)
VerifyInv ==
  \A n \in Node : \A i \in TaskIds(n) :
    queue[n][i].kind = "VERIFY" /\ IsLive(queue[n][i])
      => status[queue[n][i].dep] = "VERIFYING"

(* No generation uses what a live quarantine takes away.                        *)
UnusedOn(n, a) ==
  \A d \in Deployment : n \in Assigned[d] => ~Active(d) /\ ~(Referring(d) /\ Identity[d] = a)
QuarantineInv ==
  /\ \A n \in Node : \A i \in TaskIds(n) :
       queue[n][i].kind = "QUARANTINE" /\ IsLive(queue[n][i]) =>
         UnusedOn(n, queue[n][i].art) /\ cache[n][queue[n][i].art].pending = i
  /\ \A n \in Node, a \in Artifact : LET p == cache[n][a].pending IN p # 0 =>
       /\ p \in TaskIds(n) /\ IsLive(queue[n][p])
       /\ queue[n][p].kind = "QUARANTINE" /\ queue[n][p].art = a

(* What the agent works on, and what it has found out and not yet reported.     *)
JobOK(n) ==
  LET t == queue[n][job[n].id]
  IN  job[n].step # "IDLE" =>
        /\ job[n].id \in TaskIds(n)
        /\ job[n].step # "DONE" => job[n].ok = FALSE
        /\ job[n].ok = TRUE /\ t.kind = "MODEL" => disk[n][t.art] \in {"GOOD", "DAMAGED"}
        /\ t.kind = "QUARANTINE" => cache[n][t.art].status # "READY"
JobInv == \A n \in Node : JobOK(n)

(* What a READY row rests on.                                                  *)
ReadyOK(n, a) ==
  LET c == cache[n][a]
  IN  c.status = "READY" =>
        /\ c.by \in TaskIds(n) /\ queue[n][c.by].art = a /\ c.pending = 0
        /\ ReadyAttemptCurrent(n, c) /\ Validated(a)
        /\ disk[n][a] \in {"GOOD", "DAMAGED"}
ReadyInv ==
  /\ \A n \in Node, a \in Artifact : ReadyOK(n, a)
  /\ \A a \in Staged : Validated(a) => Measured(a)

PreparationInv ==
  /\ Tables /\ QueueInv /\ RecordInv /\ VerifyInv
  /\ QuarantineInv /\ JobInv /\ ReadyInv

----------------------------------------------------------------------------
(* How a step may change the queue of a node                                  *)

SameWork(u, t) == u.kind = t.kind /\ u.dep = t.dep /\ u.art = t.art /\ u.no = t.no
TaskMoves(t, u) ==
  /\ u \in Tasks /\ SameWork(u, t) /\ u.progress >= t.progress
  /\ u.expired => u.status = "RUNNING"
  /\ ~IsLive(t) => u = t

(* The task a step may add to the queue of n.                                   *)
NewId(n) == Len(queue[n]) + 1
IsAdded(n) == Len(queue'[n]) = NewId(n)
Grows(n) ==
  /\ queue'[n] \in Seq(Tasks) /\ Len(queue'[n]) \in {Len(queue[n]), NewId(n)}
  /\ \A i \in TaskIds(n) : TaskMoves(queue[n][i], queue'[n][i])
  /\ IsAdded(n) => LET t == queue'[n][NewId(n)] IN
       /\ t \in Tasks /\ TaskOK(n, t) /\ t.status = "QUEUED"
       /\ t.kind # "PROBE" => \A i \in TaskIds(n) : ~Busy(queue'[n][i])
QueuesGrow == queue' \in [Node -> Seq(Tasks)] /\ \A n \in Node : Grows(n)

(* The fields of a task row and their types. *)
LEMMA TaskFields ==
  ASSUME NEW t \in Tasks
  PROVE  /\ t.kind \in Stage \cup {"QUARANTINE", "VERIFY", "PROBE"}
         /\ t.dep \in Deployment \cup {NoDeployment} /\ t.art \in Artifact \cup {"NONE"}
         /\ t.no \in Nat /\ t.status \in AttemptStatus /\ t.expired \in BOOLEAN
         /\ t.progress \in 0 .. Chunks /\ t.progress \in Nat
  BY BoundAssumption DEF Tasks

(* A queue is a finite sequence of tasks. *)
LEMMA QueueRows ==
  ASSUME Tables, NEW n \in Node
  PROVE  /\ queue[n] \in Seq(Tasks) /\ Len(queue[n]) \in Nat
         /\ NewId(n) \in Nat \ {0} /\ NewId(n) \notin TaskIds(n)
         /\ \A i \in TaskIds(n) : i \in Nat \ {0} /\ queue[n][i] \in Tasks
<1>1. queue[n] \in Seq(Tasks) /\ Len(queue[n]) \in Nat
  BY LenProperties DEF Tables
<1>2. \A i \in TaskIds(n) : queue[n][i] \in Tasks
  BY DEF Tables, TypeOK
<1> QED
  BY <1>1, <1>2 DEF NewId, TaskIds

(* A task about a cache names one: a quarantine its target, an attempt and a *)
(* verification the artifact of their generation. *)
LEMMA ArtifactTask ==
  ASSUME QueueInv, NEW n \in Node, NEW i \in TaskIds(n),
         queue[n][i].kind \in {"MODEL", "IMAGE", "VERIFY", "QUARANTINE"}
  PROVE  /\ queue[n][i].art \in Artifact
         /\ queue[n][i].kind # "QUARANTINE" => queue[n][i].dep \in Deployment
<1>1. TaskOK(n, queue[n][i])
  BY DEF QueueInv
<1>2. CASE queue[n][i].kind = "QUARANTINE"
  BY <1>1, <1>2 DEF TaskOK
<1>3. CASE queue[n][i].kind \in Stage \cup {"VERIFY"}
  <2>1. queue[n][i].dep \in Deployment /\ queue[n][i].art = Identity[queue[n][i].dep]
    BY <1>1, <1>3 DEF TaskOK
  <2> QED
    BY <2>1, PlanAssumption
<1> QED
  BY <1>2, <1>3 DEF Stage

(* A task that does not change moves. *)
LEMMA TaskStays ==
  ASSUME Tables, QueueInv, NEW n \in Node, NEW i \in TaskIds(n)
  PROVE  TaskMoves(queue[n][i], queue[n][i])
<1>1. queue[n][i] \in Tasks
  BY QueueRows
<1>2. queue[n][i].expired => queue[n][i].status = "RUNNING"
  BY DEF QueueInv, TaskOK
<1> QED
  BY <1>1, <1>2, TaskFields DEF TaskMoves, SameWork

(* Task i of node n becomes u, and nothing else changes.                        *)
Replaced(n, i, u) ==
  /\ queue' \in [Node -> Seq(Tasks)]
  /\ \A m \in Node : Len(queue'[m]) = Len(queue[m])
  /\ \A m \in Node : \A j \in TaskIds(m) :
       queue'[m][j] = IF m = n /\ j = i THEN u ELSE queue[m][j]

(* Writing one row of one queue replaces that row and no other. *)
LEMMA TaskReplaced ==
  ASSUME Tables, NEW n \in Node, NEW i \in TaskIds(n), NEW u \in Tasks,
         queue' = [queue EXCEPT ![n][i] = u]
  PROVE  Replaced(n, i, u)
<1> DEFINE q == [queue[n] EXCEPT ![i] = u]
<1>1. queue[n] \in Seq(Tasks) /\ queue \in [Node -> Seq(Tasks)] /\ i \in 1 .. Len(queue[n])
  BY DEF Tables, TaskIds
<1>2. /\ q \in Seq(Tasks) /\ Len(q) = Len(queue[n])
      /\ \A j \in 1 .. Len(queue[n]) : q[j] = IF j = i THEN u ELSE queue[n][j]
  BY <1>1, ExceptSeq
<1>3. queue' = [queue EXCEPT ![n] = q]
  OBVIOUS
<1> HIDE DEF q
<1>4. queue' \in [Node -> Seq(Tasks)] /\ \A m \in Node : queue'[m] = IF m = n THEN q ELSE queue[m]
  BY <1>1, <1>2, <1>3
<1> QED
  BY <1>2, <1>4 DEF Replaced, TaskIds

(* Each node of ns has one more task, f[n].                                     *)
Added(ns, f) ==
  /\ queue' \in [Node -> Seq(Tasks)]
  /\ \A m \in Node : Len(queue'[m]) = IF m \in ns THEN NewId(m) ELSE Len(queue[m])
  /\ \A m \in Node : \A j \in TaskIds(m) : queue'[m][j] = queue[m][j]
  /\ \A m \in ns : queue'[m][NewId(m)] = f[m]

(* Appending one row to some queues adds these rows and changes no other. *)
LEMMA TasksAdded ==
  ASSUME Tables, NEW ns \in SUBSET Node, NEW f, \A m \in ns : f[m] \in Tasks,
         queue' = [m \in Node |-> IF m \in ns THEN Append(queue[m], f[m]) ELSE queue[m]]
  PROVE  Added(ns, f)
<1>1. ASSUME NEW m \in Node
      PROVE  /\ queue'[m] \in Seq(Tasks)
             /\ Len(queue'[m]) = IF m \in ns THEN NewId(m) ELSE Len(queue[m])
             /\ \A j \in TaskIds(m) : queue'[m][j] = queue[m][j]
             /\ m \in ns => queue'[m][NewId(m)] = f[m]
  <2>1. queue[m] \in Seq(Tasks)
    BY DEF Tables
  <2>2. queue'[m] = IF m \in ns THEN Append(queue[m], f[m]) ELSE queue[m]
    OBVIOUS
  <2>3. CASE m \in ns
    BY <2>1, <2>2, <2>3, AppendProperties DEF NewId, TaskIds
  <2>4. CASE m \notin ns
    BY <2>1, <2>2, <2>4
  <2> QED
    BY <2>3, <2>4
<1>2. queue' \in [Node -> Seq(Tasks)]
  BY <1>1
<1> QED
  BY <1>1, <1>2 DEF Added

(* Queues that are left alone grow, in the sense of QueuesGrow. *)
LEMMA GrowsUnchanged ==
  ASSUME Tables, QueueInv, queue' = queue
  PROVE  QueuesGrow
<1>1. \A n \in Node : \A i \in TaskIds(n) : TaskMoves(queue[n][i], queue[n][i])
  BY TaskStays
<1>2. \A n \in Node : ~IsAdded(n) /\ queue[n] \in Seq(Tasks)
  BY QueueRows DEF IsAdded, NewId
<1> QED
  BY <1>1, <1>2 DEF QueuesGrow, Grows, Tables

(* Replacing a row by one that TaskMoves allows grows the queues. *)
LEMMA GrowsByReplacing ==
  ASSUME Tables, QueueInv, NEW n \in Node, NEW i \in TaskIds(n), NEW u,
         TaskMoves(queue[n][i], u), Replaced(n, i, u)
  PROVE  QueuesGrow
<1>1. \A m \in Node : ~IsAdded(m) /\ Len(queue'[m]) = Len(queue[m])
  BY QueueRows DEF IsAdded, NewId, Replaced
<1>2. \A m \in Node : \A j \in TaskIds(m) : TaskMoves(queue[m][j], queue'[m][j])
  BY TaskStays DEF Replaced
<1> QED
  BY <1>1, <1>2 DEF QueuesGrow, Grows, Replaced

(* Adding well-formed rows grows the queues; a node that is given work other than a
   probe had none under way. *)
LEMMA GrowsByAdding ==
  ASSUME Tables, QueueInv, NEW ns \in SUBSET Node, NEW f, Added(ns, f),
         \A m \in ns :
           /\ f[m] \in Tasks /\ TaskOK(m, f[m]) /\ f[m].status = "QUEUED"
           /\ f[m].kind # "PROBE" => \A i \in TaskIds(m) : ~Busy(queue[m][i])
  PROVE  QueuesGrow
<1> SUFFICES ASSUME NEW m \in Node PROVE Grows(m)
  BY DEF QueuesGrow, Added
<1>1. \A j \in TaskIds(m) : queue'[m][j] = queue[m][j] /\ TaskMoves(queue[m][j], queue'[m][j])
  BY TaskStays DEF Added
<1>2. IsAdded(m) => m \in ns /\ queue'[m][NewId(m)] = f[m]
  BY QueueRows DEF IsAdded, Added, NewId
<1>3. queue'[m] \in Seq(Tasks) /\ Len(queue'[m]) \in {Len(queue[m]), NewId(m)}
  BY DEF Added
<1> QED
  BY <1>1, <1>2, <1>3 DEF Grows

(* What a task of the queue after a step was before it. *)
LEMMA OldOrNew ==
  ASSUME Tables, QueuesGrow, NEW n \in Node, NEW i \in TaskIds(n)'
  PROVE  \/ i \in TaskIds(n) /\ TaskMoves(queue[n][i], queue'[n][i])
         \/ /\ i = NewId(n) /\ IsAdded(n) /\ queue'[n][i] \in Tasks
            /\ TaskOK(n, queue'[n][i]) /\ queue'[n][i].status = "QUEUED"
            /\ queue'[n][i].kind # "PROBE" => \A j \in TaskIds(n) : ~Busy(queue'[n][j])
<1>1. Grows(n) /\ Len(queue[n]) \in Nat /\ i \in 1 .. Len(queue'[n])
  BY QueueRows DEF QueuesGrow, TaskIds
<1>2. i \in TaskIds(n) \/ (i = NewId(n) /\ IsAdded(n))
  BY <1>1 DEF Grows, TaskIds, NewId, IsAdded
<1> QED
  BY <1>1, <1>2 DEF Grows

(* A row that moves keeps its work, and comes back to life in no way. *)
LEMMA MovedWork ==
  ASSUME NEW t, NEW u, TaskMoves(t, u)
  PROVE  /\ u.kind = t.kind /\ u.dep = t.dep /\ u.art = t.art /\ u.no = t.no
         /\ IsLive(u) => IsLive(t)
         /\ Busy(u) => Busy(t)
  BY DEF TaskMoves, SameWork, Busy

(* The rules of the queue are kept by everything that moves tasks like this.    *)
LEMMA QueueKept ==
  ASSUME Tables, QueueInv, QueuesGrow
  PROVE  /\ QueueInv'
         /\ \A n \in Node : \A i \in TaskIds(n)' : queue'[n][i] \in Tasks
<1> SUFFICES ASSUME NEW n \in Node
             PROVE  /\ OneBusy(n)' /\ LastIsLive(n)'
                    /\ \A i \in TaskIds(n)' : TaskOK(n, queue'[n][i]) /\ queue'[n][i] \in Tasks
  BY DEF QueueInv
<1>1. OneBusy(n) /\ LastIsLive(n) /\ \A i \in TaskIds(n) : TaskOK(n, queue[n][i])
  BY DEF QueueInv
<1>2. ASSUME NEW i \in TaskIds(n)'
      PROVE  TaskOK(n, queue'[n][i]) /\ queue'[n][i] \in Tasks
  <2>1. CASE i \in TaskIds(n) /\ TaskMoves(queue[n][i], queue'[n][i])
    BY <1>1, <2>1 DEF TaskMoves, SameWork, TaskOK
  <2> QED
    BY <2>1, OldOrNew
<1>3. OneBusy(n)'
  <2> SUFFICES ASSUME NEW i \in TaskIds(n)', NEW j \in TaskIds(n)',
                      Busy(queue'[n][i]), Busy(queue'[n][j])
               PROVE  i = j
    BY DEF OneBusy
  <2>1. CASE i \in TaskIds(n) /\ j \in TaskIds(n)
    <3>1. Busy(queue[n][i]) /\ Busy(queue[n][j])
      BY <2>1, MovedWork DEF QueuesGrow, Grows
    <3> QED
      BY <1>1, <2>1, <3>1 DEF OneBusy
  <2>2. CASE i \notin TaskIds(n) \/ j \notin TaskIds(n)
    BY <2>2, OldOrNew DEF Busy
  <2> QED
    BY <2>1, <2>2
<1>4. LastIsLive(n)'
  <2> SUFFICES ASSUME NEW i \in TaskIds(n)', NEW j \in TaskIds(n)',
                      queue'[n][i].kind = "VERIFY", IsLive(queue'[n][i]),
                      queue'[n][j].kind = "VERIFY", queue'[n][j].dep = queue'[n][i].dep
               PROVE  j <= i
    BY DEF LastIsLive
  <2>1. CASE i \in TaskIds(n) /\ j \in TaskIds(n)
    <3>1. /\ queue[n][i].kind = "VERIFY" /\ IsLive(queue[n][i])
          /\ queue[n][j].kind = "VERIFY" /\ queue[n][j].dep = queue[n][i].dep
      BY <2>1, MovedWork DEF QueuesGrow, Grows
    <3> QED
      BY <1>1, <2>1, <3>1 DEF LastIsLive
  <2>2. CASE i \notin TaskIds(n)
    BY <2>2, OldOrNew, QueueRows DEF NewId, TaskIds, IsAdded
  <2>3. CASE i \in TaskIds(n) /\ j \notin TaskIds(n)
    BY <2>3, OldOrNew DEF Busy
  <2> QED
    BY <2>1, <2>2, <2>3
<1> QED
  BY <1>2, <1>3, <1>4

----------------------------------------------------------------------------
(* How the records follow the queues                                          *)

Works(t, d, s) == t.dep = d /\ t.kind = s
Records == [Deployment -> [Node -> [Stage -> StageRecords]]]

(* The record of stage s of d on n changes with its live task, or is queued      *)
(* again with a new one, or stays.                                           *)
Tracks(d, n, s) ==
  LET r == record[d][n][s]
      u == record'[d][n][s]
      t == queue'[n][NewId(n)]
  IN  /\ \A i \in TaskIds(n) : Works(queue[n][i], d, s) /\ IsLive(queue[n][i]) =>
           u.no = r.no /\ u.status = RecordStatus(queue'[n][i].status)
      /\ IsAdded(n) /\ Works(t, d, s) =>
           /\ r.status \in {"PREPARED", "FAILED"}
           /\ u.status = "QUEUED" /\ u.no = r.no + 1 /\ t.no = u.no
           /\ s = "IMAGE" => record'[d][n]["MODEL"].status = "SUCCEEDED"
      /\ \/ u = r
         \/ IsAdded(n) /\ Works(t, d, s)
         \/ \E i \in TaskIds(n) : Works(queue[n][i], d, s) /\ IsLive(queue[n][i])

PrepMoves(d) ==
  \/ prep'[d] = prep[d] /\ record'[d] = record[d]
  \/ prep'[d] = Derived(record'[d], Assigned[d])
  \/ prep[d] = "NONE" /\ prep'[d] = "PREPARED" /\ record'[d] = record[d]

RecordsFollow ==
  /\ record' \in Records /\ prep' \in [Deployment -> PreparationStatus]
  /\ \A d \in Deployment : PrepMoves(d)
  /\ \A d \in Deployment, n \in Node, s \in Stage : Tracks(d, n, s)

(* What Derived says: there is work exactly when some record is live.           *)
LEMMA DerivedLive ==
  ASSUME NEW rows, NEW nodes \in SUBSET Node
  PROVE  /\ Derived(rows, nodes) \in PreparationStatus \ {"NONE"}
         /\ Derived(rows, nodes) \in LiveStatus
              <=> \E n \in nodes, s \in Stage : rows[n][s].status \in LiveStatus
<1> DEFINE all == {rows[n][s].status : n \in nodes, s \in Stage}
           complete == {n \in nodes : \A s \in Stage : rows[n][s].status = "SUCCEEDED"}
<1>1. (\E n \in nodes, s \in Stage : rows[n][s].status \in LiveStatus)
        <=> ("RUNNING" \in all \/ "QUEUED" \in all)
  BY DEF LiveStatus
<1>2. Derived(rows, nodes) =
        CASE "RUNNING" \in all -> "RUNNING"
          [] "RUNNING" \notin all /\ "QUEUED" \in all -> "QUEUED"
          [] complete = nodes -> "SUCCEEDED"
          [] all = {"PREPARED"} -> "PREPARED"
          [] OTHER -> IF complete # {} THEN "PARTIAL_FAILED" ELSE "FAILED"
  BY DEF Derived
<1>3. /\ complete = nodes => "RUNNING" \notin all /\ "QUEUED" \notin all
      /\ complete = nodes => all # {"PREPARED"}
  BY DEF Stage
<1> HIDE DEF all, complete
<1>4. "RUNNING" \in all \/ "QUEUED" \in all => all # {"PREPARED"}
  OBVIOUS
<1>5. CASE "RUNNING" \in all
  <2>1. Derived(rows, nodes) = "RUNNING"
    BY <1>2, <1>3, <1>4, <1>5
  <2> QED
    BY <1>1, <1>5, <2>1 DEF LiveStatus, PreparationStatus
<1>6. CASE "RUNNING" \notin all /\ "QUEUED" \in all
  <2>1. Derived(rows, nodes) = "QUEUED"
    BY <1>2, <1>3, <1>4, <1>6
  <2> QED
    BY <1>1, <1>6, <2>1 DEF LiveStatus, PreparationStatus
<1>7. CASE "RUNNING" \notin all /\ "QUEUED" \notin all
  <2>1. CASE complete = nodes
    <3>1. Derived(rows, nodes) = "SUCCEEDED"
      BY <1>2, <1>3, <1>4, <1>7, <2>1
    <3> QED
      BY <1>1, <1>7, <3>1 DEF LiveStatus, PreparationStatus
  <2>2. CASE complete # nodes /\ all = {"PREPARED"}
    <3>1. Derived(rows, nodes) = "PREPARED"
      BY <1>2, <1>3, <1>4, <1>7, <2>2
    <3> QED
      BY <1>1, <1>7, <3>1 DEF LiveStatus, PreparationStatus
  <2>3. CASE complete # nodes /\ all # {"PREPARED"}
    <3>1. Derived(rows, nodes) \in {"PARTIAL_FAILED", "FAILED"}
      BY <1>2, <1>3, <1>4, <1>7, <2>3
    <3> QED
      BY <1>1, <1>7, <3>1 DEF LiveStatus, PreparationStatus
  <2> QED
    BY <2>1, <2>2, <2>3
<1> QED
  BY <1>5, <1>6, <1>7

(* A table of records has one of each stage of a node. *)
LEMMA RecordAt ==
  ASSUME NEW rec \in Records, NEW d \in Deployment, NEW n \in Node, NEW s \in Stage
  PROVE  rec[d][n][s] \in StageRecords
  BY DEF Records

(* A preparation whose attempts were never queued is PREPARED. *)
LEMMA DerivedUntouched ==
  ASSUME NEW rows, NEW nodes \in (SUBSET Node) \ {{}}, \A n \in nodes : Untouched(rows[n])
  PROVE  Derived(rows, nodes) = "PREPARED"
<1> DEFINE all == {rows[n][s].status : n \in nodes, s \in Stage}
           complete == {n \in nodes : \A s \in Stage : rows[n][s].status = "SUCCEEDED"}
<1>1. all = {"PREPARED"} /\ complete # nodes
  BY DEF Untouched, Stage
<1>2. Derived(rows, nodes) =
        CASE "RUNNING" \in all -> "RUNNING"
          [] "RUNNING" \notin all /\ "QUEUED" \in all -> "QUEUED"
          [] complete = nodes -> "SUCCEEDED"
          [] all = {"PREPARED"} -> "PREPARED"
          [] OTHER -> IF complete # {} THEN "PARTIAL_FAILED" ELSE "FAILED"
  BY DEF Derived
<1> HIDE DEF all, complete
<1> QED
  BY <1>1, <1>2

(* The work of a record that is not live is over. *)
LEMMA WorkIsLive ==
  ASSUME RecordInv, NEW d, NEW n \in Node, NEW s \in Stage, NEW i \in TaskIds(n),
         Works(queue[n][i], d, s), IsLive(queue[n][i])
  PROVE  /\ record[d][n][s].status \in LiveStatus
         /\ record[d][n][s].status = queue[n][i].status
         /\ record[d][n][s].no = queue[n][i].no
  BY DEF RecordInv, TaskIsCurrent, AttemptIsCurrent, Works, IsLive

(* A success of a model is never taken back. *)
LEMMA SuccessKept ==
  ASSUME RecordInv, RecordsFollow, NEW d \in Deployment, NEW n \in Node, NEW s \in Stage,
         record[d][n][s].status = "SUCCEEDED"
  PROVE  record'[d][n][s] = record[d][n][s]
<1>1. ~\E i \in TaskIds(n) : Works(queue[n][i], d, s) /\ IsLive(queue[n][i])
  BY WorkIsLive DEF LiveStatus
<1> QED
  BY <1>1 DEF RecordsFollow, Tracks

(* When the records follow the queues, the invariant about records is kept. *)
LEMMA RecordsKept ==
  ASSUME Tables, QueueInv, RecordInv, QueuesGrow, RecordsFollow
  PROVE  RecordInv'
<1>1. ASSUME NEW n \in Node
      PROVE  TaskIsCurrent(n)'
  <2> SUFFICES ASSUME NEW i \in TaskIds(n)', queue'[n][i].kind \in Stage, IsLive(queue'[n][i])
               PROVE  AttemptIsCurrent(n, queue[n][i])'
    BY DEF TaskIsCurrent
  <2> DEFINE t == queue'[n][i]
  <2>1. t.dep \in Deployment
    BY QueueKept DEF QueueInv, TaskOK
  <2>2. Tracks(t.dep, n, t.kind)
    BY <2>1 DEF RecordsFollow
  <2>3. CASE i \in TaskIds(n) /\ TaskMoves(queue[n][i], queue'[n][i])
    <3>1. /\ Works(queue[n][i], t.dep, t.kind) /\ IsLive(queue[n][i])
          /\ t.no = queue[n][i].no
      BY <2>3, MovedWork DEF Works
    <3>2. record[t.dep][n][t.kind].no = t.no
      BY <2>3, <3>1, WorkIsLive
    <3>3. /\ record'[t.dep][n][t.kind].no = record[t.dep][n][t.kind].no
          /\ record'[t.dep][n][t.kind].status = RecordStatus(t.status)
      BY <2>2, <2>3, <3>1 DEF Tracks
    <3> QED
      BY <3>2, <3>3 DEF AttemptIsCurrent, RecordStatus, IsLive, LiveStatus
  <2>4. CASE i = NewId(n) /\ IsAdded(n) /\ t.status = "QUEUED"
    BY <2>2, <2>4 DEF Tracks, Works, AttemptIsCurrent
  <2> QED
    BY <2>3, <2>4, OldOrNew
<1>2. ASSUME NEW d \in Deployment, NEW n \in Node
      PROVE  RecordHasTask(d, n)'
  <2> SUFFICES ASSUME NEW s \in Stage, record'[d][n][s].status \in LiveStatus
               PROVE  \E i \in TaskIds(n)' : /\ IsLive(queue'[n][i])
                                            /\ queue'[n][i].dep = d /\ queue'[n][i].kind = s
    BY DEF RecordHasTask
  <2>1. Tracks(d, n, s) /\ Grows(n) /\ Len(queue[n]) \in Nat
    BY QueueRows DEF RecordsFollow, QueuesGrow
  <2>2. \A i \in TaskIds(n) : i \in TaskIds(n)'
    BY <2>1 DEF Grows, TaskIds, NewId
  <2>3. CASE \E i \in TaskIds(n) : Works(queue[n][i], d, s) /\ IsLive(queue[n][i])
    <3>1. PICK i \in TaskIds(n) : Works(queue[n][i], d, s) /\ IsLive(queue[n][i])
      BY <2>3
    <3>2. record'[d][n][s].status = RecordStatus(queue'[n][i].status)
      BY <2>1, <3>1 DEF Tracks
    <3>3. IsLive(queue'[n][i])
      BY <3>2 DEF RecordStatus, LiveStatus, IsLive
    <3> QED
      BY <2>1, <2>2, <3>1, <3>3 DEF Grows, TaskMoves, SameWork, Works
  <2>4. CASE IsAdded(n) /\ Works(queue'[n][NewId(n)], d, s)
    <3>1. NewId(n) \in TaskIds(n)' /\ queue'[n][NewId(n)].status = "QUEUED"
      BY <2>1, <2>4 DEF Grows, TaskIds, NewId, IsAdded
    <3> QED
      BY <2>4, <3>1 DEF Works, IsLive, LiveStatus
  <2>5. CASE record'[d][n][s] = record[d][n][s]
    <3>1. \E i \in TaskIds(n) : IsLive(queue[n][i]) /\ queue[n][i].dep = d /\ queue[n][i].kind = s
      BY <2>5 DEF RecordInv, RecordHasTask
    <3> QED
      BY <2>3, <3>1 DEF Works
  <2> QED
    BY <2>1, <2>3, <2>4, <2>5 DEF Tracks
<1>3. ASSUME NEW d \in Deployment, NEW n \in Node
      PROVE  ImageNeedsModel(d, n)'
  <2> DEFINE r == record[d][n]["IMAGE"]
             u == record'[d][n]["IMAGE"]
  <2> SUFFICES ASSUME u.no > 0 \/ u.status # "PREPARED"
               PROVE  record'[d][n]["MODEL"].status = "SUCCEEDED"
    BY DEF ImageNeedsModel
  <2>1. Tracks(d, n, "IMAGE") /\ ImageNeedsModel(d, n)
    BY DEF RecordsFollow, Stage, RecordInv
  <2>2. CASE IsAdded(n) /\ Works(queue'[n][NewId(n)], d, "IMAGE")
    BY <2>1, <2>2 DEF Tracks
  <2>3. CASE r.no > 0 \/ r.status # "PREPARED"
    BY <2>1, <2>3, SuccessKept DEF ImageNeedsModel, Stage
  <2>4. CASE \E i \in TaskIds(n) : Works(queue[n][i], d, "IMAGE") /\ IsLive(queue[n][i])
    <3>1. r.status # "PREPARED"
      BY <2>4, WorkIsLive DEF LiveStatus, Stage
    <3> QED
      BY <2>3, <3>1
  <2> QED
    BY <2>1, <2>2, <2>3, <2>4 DEF Tracks
<1>4. ASSUME NEW d \in Deployment, NEW n \in Node, n \notin Assigned[d] \/ prep'[d] = "NONE"
      PROVE  Untouched(record'[d][n])
  <2>1. CASE prep'[d] = "NONE"
    <3>1. prep[d] = "NONE" /\ record'[d] = record[d]
      BY <2>1, DerivedLive, PlanAssumption DEF RecordsFollow, PrepMoves
    <3> QED
      BY <3>1 DEF RecordInv
  <2>2. CASE n \notin Assigned[d]
    <3>1. ASSUME NEW s \in Stage PROVE record'[d][n][s] = record[d][n][s]
      <4>1. \A i \in TaskIds(n) : ~Works(queue[n][i], d, s)
        BY <2>2 DEF QueueInv, TaskOK, Works
      <4>2. IsAdded(n) => ~Works(queue'[n][NewId(n)], d, s)
        BY <2>2 DEF QueuesGrow, Grows, TaskOK, Works
      <4> QED
        BY <4>1, <4>2 DEF RecordsFollow, Tracks
    <3> QED
      BY <2>2, <3>1 DEF RecordInv, Untouched
  <2> QED
    BY <1>4, <2>1, <2>2
<1>5. ASSUME NEW d \in Deployment, prep'[d] # "NONE"
      PROVE  prep'[d] = Derived(record'[d], Assigned[d])
  <2>1. CASE prep'[d] = prep[d] /\ record'[d] = record[d]
    BY <1>5, <2>1 DEF RecordInv
  <2>2. CASE prep[d] = "NONE" /\ prep'[d] = "PREPARED" /\ record'[d] = record[d]
    <3>1. \A n \in Assigned[d] : Untouched(record[d][n])
      BY <2>2, PlanAssumption DEF RecordInv
    <3> QED
      BY <2>2, <3>1, DerivedUntouched, PlanAssumption
  <2> QED
    BY <2>1, <2>2 DEF RecordsFollow, PrepMoves
<1> QED
  BY <1>1, <1>2, <1>3, <1>4, <1>5 DEF RecordInv

(* A step that leaves the records alone, and the status of their attempts.      *)
LEMMA RecordsStay ==
  ASSUME Tables, RecordInv, record' = record, prep' \in [Deployment -> PreparationStatus],
         \A d \in Deployment : PrepMoves(d),
         \A n \in Node : \A i \in TaskIds(n) : queue[n][i].kind \in Stage
           => queue'[n][i].status = queue[n][i].status,
         \A n \in Node : IsAdded(n) => queue'[n][NewId(n)].kind \notin Stage
  PROVE  RecordsFollow
<1>1. record' \in Records
  BY DEF Tables, TypeOK, Records
<1>2. ASSUME NEW d \in Deployment, NEW n \in Node, NEW s \in Stage
      PROVE  Tracks(d, n, s)
  <2>1. ~(IsAdded(n) /\ Works(queue'[n][NewId(n)], d, s))
    BY DEF Works
  <2>2. ASSUME NEW i \in TaskIds(n), Works(queue[n][i], d, s), IsLive(queue[n][i])
        PROVE  record[d][n][s].status = RecordStatus(queue'[n][i].status)
    <3>1. record[d][n][s].status = queue[n][i].status /\ queue'[n][i].status = queue[n][i].status
      BY <2>2, WorkIsLive DEF Works
    <3> QED
      BY <2>2, <3>1 DEF RecordStatus, IsLive, LiveStatus
  <2> QED
    BY <2>1, <2>2 DEF Tracks
<1> QED
  BY <1>1, <1>2 DEF RecordsFollow

(* rec is record with another status of one attempt.                            *)
IsRestated(rec, d, n, s, st) ==
  /\ rec \in Records
  /\ \A e \in Deployment, m \in Node, p \in Stage :
       ~(e = d /\ m = n /\ p = s) => rec[e][m][p] = record[e][m][p]
  /\ rec[d][n][s].no = record[d][n][s].no /\ rec[d][n][s].status = st
  /\ \A e \in Deployment : e \notin {d} => rec[e] = record[e]

(* What WithStatus writes: the status of one attempt. *)
LEMMA WithStatusAt ==
  ASSUME Tables, NEW d \in Deployment, NEW n \in Node, NEW s \in Stage, NEW st,
         st \in {"PREPARED", "QUEUED", "RUNNING", "SUCCEEDED", "FAILED"}
  PROVE  IsRestated(WithStatus(record, d, n, s, st), d, n, s, st)
<1> DEFINE r == [record[d][n][s] EXCEPT !.status = st]
           b == [record[d][n] EXCEPT ![s] = r]
           c == [record[d] EXCEPT ![n] = b]
           rec == [record EXCEPT ![d] = c]
<1>1. record \in Records /\ record[d][n][s] \in StageRecords
  BY DEF Tables, TypeOK, Records
<1>2. r \in StageRecords /\ r.no = record[d][n][s].no /\ r.status = st
  BY <1>1 DEF StageRecords
<1>3. WithStatus(record, d, n, s, st) = rec
  BY DEF WithStatus
<1> HIDE DEF r
<1>4. b \in [Stage -> StageRecords] /\ \A p \in Stage : b[p] = IF p = s THEN r ELSE record[d][n][p]
  BY <1>1, <1>2 DEF Records
<1> HIDE DEF b
<1>5. c \in [Node -> [Stage -> StageRecords]] /\ \A m \in Node : c[m] = IF m = n THEN b ELSE record[d][m]
  BY <1>1, <1>4 DEF Records
<1> HIDE DEF c
<1>6. rec \in Records /\ \A e \in Deployment : rec[e] = IF e = d THEN c ELSE record[e]
  BY <1>1, <1>5 DEF Records
<1> HIDE DEF rec
<1>7. \A e \in Deployment, m \in Node, p \in Stage :
        rec[e][m][p] = IF e = d /\ m = n /\ p = s THEN r ELSE record[e][m][p]
  BY <1>4, <1>5, <1>6
<1> QED
  BY <1>2, <1>3, <1>6, <1>7 DEF IsRestated

(* Recompute writes the derived status of some preparations. *)
LEMMA Recomputed ==
  ASSUME Tables, NEW ds, NEW rec, Recompute(ds, rec), rec \in Records,
         \A e \in Deployment : e \notin ds => rec[e] = record[e]
  PROVE  /\ record' = rec /\ prep' \in [Deployment -> PreparationStatus]
         /\ \A d \in Deployment : PrepMoves(d)
<1>1. record' = rec /\ prep' = [d \in Deployment |-> IF d \in ds THEN Derived(rec[d], Assigned[d])
                                                             ELSE prep[d]]
  BY DEF Recompute
<1>2. \A d \in Deployment : Derived(rec[d], Assigned[d]) \in PreparationStatus
  BY DerivedLive, PlanAssumption
<1>3. prep \in [Deployment -> PreparationStatus]
  BY DEF Tables, TypeOK
<1>4. prep' \in [Deployment -> PreparationStatus]
  BY <1>1, <1>2, <1>3
<1> QED
  BY <1>1, <1>4 DEF PrepMoves

(* A live attempt changes its status, and its record with it. *)
LEMMA AttemptFollows ==
  ASSUME Tables, QueueInv, RecordInv, NEW n \in Node, NEW i \in TaskIds(n), NEW u,
         queue[n][i].kind \in Stage, IsLive(queue[n][i]),
         TaskMoves(queue[n][i], u), Replaced(n, i, u), NEW st, st = RecordStatus(u.status),
         Recompute({queue[n][i].dep},
                   WithStatus(record, queue[n][i].dep, n, queue[n][i].kind, st))
  PROVE  RecordsFollow
<1> DEFINE t == queue[n][i]
           rec == WithStatus(record, t.dep, n, t.kind, st)
<1>1. t.dep \in Deployment
  BY DEF QueueInv, TaskOK
<1>2. st \in {"PREPARED", "QUEUED", "RUNNING", "SUCCEEDED", "FAILED"}
  BY TaskFields DEF TaskMoves, RecordStatus, AttemptStatus
<1>3. IsRestated(rec, t.dep, n, t.kind, st) /\ Recompute({t.dep}, rec)
  BY <1>1, <1>2, WithStatusAt
<1> HIDE DEF rec
<1>4. /\ record' = rec /\ prep' \in [Deployment -> PreparationStatus]
      /\ \A d \in Deployment : PrepMoves(d)
  <2> HIDE DEF t
  <2> QED
    BY <1>3, Recomputed DEF IsRestated
<1>5. ASSUME NEW d \in Deployment, NEW m \in Node, NEW s \in Stage
      PROVE  Tracks(d, m, s)
  <2>1. ~IsAdded(m)
    BY QueueRows DEF Replaced, IsAdded, NewId
  <2>2. CASE d = t.dep /\ m = n /\ s = t.kind
    <3>1. Works(t, d, s)
      BY <2>2 DEF Works
    <3>2. ASSUME NEW j \in TaskIds(m), Works(queue[m][j], d, s), IsLive(queue[m][j])
          PROVE  j = i
      BY <2>2, <3>2 DEF QueueInv, OneBusy, Busy, Works, Stage
    <3>3. queue'[n][i] = u
      BY DEF Replaced
    <3> QED
      BY <1>3, <1>4, <2>1, <2>2, <3>1, <3>2, <3>3 DEF Tracks, IsRestated
  <2>3. CASE ~(d = t.dep /\ m = n /\ s = t.kind)
    <3>1. record'[d][m][s] = record[d][m][s]
      BY <1>3, <1>4, <2>3 DEF IsRestated
    <3>2. ASSUME NEW j \in TaskIds(m), Works(queue[m][j], d, s), IsLive(queue[m][j])
          PROVE  record[d][m][s].status = RecordStatus(queue'[m][j].status)
      <4>1. queue'[m][j] = queue[m][j]
        BY <2>3, <3>2 DEF Replaced, Works
      <4>2. record[d][m][s].status = queue[m][j].status
        BY <3>2, WorkIsLive
      <4> QED
        BY <3>2, <4>1, <4>2 DEF RecordStatus, IsLive, LiveStatus
    <3> QED
      BY <2>1, <3>1, <3>2 DEF Tracks
  <2> QED
    BY <2>2, <2>3
<1> QED
  BY <1>3, <1>4, <1>5 DEF RecordsFollow, IsRestated

----------------------------------------------------------------------------
(* Records and queues through the transactions that start and end attempts    *)

Work == QueuesGrow /\ RecordsFollow

(* A function on 1 .. m is a sequence of length m. *)
LEMMA FunctionIsSeq ==
  ASSUME NEW S, NEW m \in Nat, NEW f \in [1 .. m -> S]
  PROVE  f \in Seq(S) /\ Len(f) = m
  OBVIOUS

(* Every task of every node moves, and none is added. *)
LEMMA GrowsPointwise ==
  ASSUME Tables, NEW q, queue' = [n \in Node |-> q[n]],
         \A n \in Node : q[n] = [i \in TaskIds(n) |-> q[n][i]]
                         /\ \A i \in TaskIds(n) : TaskMoves(queue[n][i], q[n][i])
  PROVE  QueuesGrow /\ \A n \in Node : ~IsAdded(n)
<1>1. ASSUME NEW n \in Node
      PROVE  queue'[n] \in Seq(Tasks) /\ Len(queue'[n]) = Len(queue[n])
  <2>1. Len(queue[n]) \in Nat
    BY QueueRows
  <2>2. \A i \in 1 .. Len(queue[n]) : q[n][i] \in Tasks
    BY DEF TaskMoves, TaskIds
  <2>3. q[n] = [i \in 1 .. Len(queue[n]) |-> q[n][i]]
    BY DEF TaskIds
  <2>4. q[n] \in [1 .. Len(queue[n]) -> Tasks]
    BY <2>2, <2>3
  <2> QED
    BY <2>1, <2>4, FunctionIsSeq
<1>2. \A n \in Node : ~IsAdded(n)
  BY <1>1, QueueRows DEF IsAdded, NewId
<1>3. queue' \in [Node -> Seq(Tasks)] /\ \A n \in Node : queue'[n] = q[n]
  BY <1>1
<1> QED
  BY <1>1, <1>2, <1>3 DEF QueuesGrow, Grows

(* Nothing changes in queues, records and preparations. *)
LEMMA WorkUnchanged ==
  ASSUME Tables, QueueInv, RecordInv, UNCHANGED <<prep, record, queue>>
  PROVE  Work
<1>1. \A n \in Node : ~IsAdded(n)
  BY QueueRows DEF IsAdded, NewId
<1>2. prep' \in [Deployment -> PreparationStatus] /\ \A d \in Deployment : PrepMoves(d)
  BY DEF Tables, TypeOK, PrepMoves
<1> QED
  BY <1>1, <1>2, GrowsUnchanged, RecordsStay DEF Work

(* One task changes that is no attempt, or whose status stays. *)
LEMMA WorkOfOther ==
  ASSUME Tables, QueueInv, RecordInv, UNCHANGED <<prep, record>>,
         NEW n \in Node, NEW i \in TaskIds(n), NEW u, TaskMoves(queue[n][i], u),
         queue[n][i].kind \in Stage => u.status = queue[n][i].status,
         queue' = [queue EXCEPT ![n][i] = u]
  PROVE  Work /\ Replaced(n, i, u)
<1>1. Replaced(n, i, u)
  BY TaskReplaced DEF TaskMoves
<1>2. \A m \in Node : ~IsAdded(m)
  BY <1>1, QueueRows DEF IsAdded, NewId, Replaced
<1>3. prep' \in [Deployment -> PreparationStatus] /\ \A d \in Deployment : PrepMoves(d)
  BY DEF Tables, TypeOK, PrepMoves
<1>4. \A m \in Node : \A j \in TaskIds(m) : queue[m][j].kind \in Stage
        => queue'[m][j].status = queue[m][j].status
  BY <1>1 DEF Replaced
<1> QED
  BY <1>1, <1>2, <1>3, <1>4, GrowsByReplacing, RecordsStay DEF Work

(* One live attempt changes its status. *)
LEMMA WorkOfAttempt ==
  ASSUME Tables, QueueInv, RecordInv,
         NEW n \in Node, NEW i \in TaskIds(n), NEW u, TaskMoves(queue[n][i], u),
         queue[n][i].kind \in Stage, IsLive(queue[n][i]),
         queue' = [queue EXCEPT ![n][i] = u], NEW st, st = RecordStatus(u.status),
         Recompute({queue[n][i].dep},
                   WithStatus(record, queue[n][i].dep, n, queue[n][i].kind, st))
  PROVE  Work /\ Replaced(n, i, u)
<1>1. Replaced(n, i, u)
  BY TaskReplaced DEF TaskMoves
<1> QED
  BY <1>1, GrowsByReplacing, AttemptFollows DEF Work

(* A task ends. *)
LEMMA EndedMoves ==
  ASSUME Tables, NEW n \in Node, NEW i \in TaskIds(n), IsLive(queue[n][i]),
         NEW st \in AttemptStatus
  PROVE  /\ TaskMoves(queue[n][i], Ended(n, i, st))
         /\ Ended(n, i, st).status = st /\ Ended(n, i, st).expired = FALSE
<1> DEFINE t == queue[n][i]
<1>1. t \in Tasks
  BY QueueRows
<1>2. /\ Ended(n, i, st) \in Tasks /\ Ended(n, i, st).status = st
      /\ Ended(n, i, st).expired = FALSE /\ Ended(n, i, st).kind = t.kind
      /\ Ended(n, i, st).dep = t.dep /\ Ended(n, i, st).art = t.art
      /\ Ended(n, i, st).no = t.no /\ Ended(n, i, st).progress = t.progress
  BY <1>1 DEF Ended, Tasks
<1> QED
  BY <1>1, <1>2, TaskFields DEF TaskMoves, SameWork

(* Ending an attempt (a report, an expiry, a cancellation) ends its task, its record
   and nothing else. *)
LEMMA EndAttemptWork ==
  ASSUME Tables, QueueInv, RecordInv, NEW n \in Node, NEW i \in TaskIds(n),
         queue[n][i].kind \in Stage, IsLive(queue[n][i]),
         NEW st \in AttemptStatus, EndAttempt(n, i, st)
  PROVE  Work /\ Replaced(n, i, Ended(n, i, st))
<1>1. TaskMoves(queue[n][i], Ended(n, i, st)) /\ Ended(n, i, st).status = st
  BY EndedMoves
<1> QED
  BY <1>1, WorkOfAttempt DEF EndAttempt

(* A fresh attempt and its task. *)
IsAttempt(t, rec, d, n, s) ==
  /\ t \in Tasks /\ t.kind = s /\ t.dep = d /\ t.art = Identity[d]
  /\ t.no = rec[d][n][s].no /\ t.status = "QUEUED" /\ t.expired = FALSE
  /\ TaskOK(n, t)

(* The task row that is queued for an attempt names that attempt. *)
LEMMA AttemptTaskFields ==
  ASSUME NEW rec \in Records, NEW d \in Deployment, NEW n \in Assigned[d], NEW s \in Stage
  PROVE  IsAttempt(AttemptTask(rec, d, n, s), rec, d, n, s)
<1>1. n \in Node /\ Identity[d] \in Artifact /\ rec[d][n][s].no \in Nat /\ 0 \in 0 .. Chunks
  BY PlanAssumption, BoundAssumption DEF Records, StageRecords
<1> DEFINE t == AttemptTask(rec, d, n, s)
<1>2. /\ t \in Tasks /\ t.kind = s /\ t.dep = d /\ t.art = Identity[d]
      /\ t.no = rec[d][n][s].no /\ t.status = "QUEUED" /\ t.expired = FALSE
  BY <1>1 DEF AttemptTask, NewTask, Tasks, AttemptStatus
<1> QED
  BY <1>2 DEF TaskOK, Stage, IsAttempt

(* rr is rec with new attempts of stage s on the nodes ns.                      *)
IsRequeued(rr, rec, d, ns, s) ==
  /\ rr \in Records
  /\ \A e \in Deployment : e # d => rr[e] = rec[e]
  /\ \A e \in Deployment, m \in Node, p \in Stage :
       ~(e = d /\ m \in ns /\ p = s) => rr[e][m][p] = rec[e][m][p]
  /\ \A m \in ns : rr[d][m][s].status = "QUEUED" /\ rr[d][m][s].no = rec[d][m][s].no + 1

(* What Requeued writes: the next attempt of one stage on each of the nodes. *)
LEMMA RequeuedAt ==
  ASSUME NEW rec \in Records, NEW d \in Deployment, NEW ns \in SUBSET Node, NEW s \in Stage
  PROVE  IsRequeued(Requeued(rec, d, ns, s), rec, d, ns, s)
<1> DEFINE new(n) == [status |-> "QUEUED", no |-> rec[d][n][s].no + 1]
           row == [n \in Node |-> [rec[d][n] EXCEPT ![s] = new(n)]]
           c == [n \in Node |-> IF n \in ns THEN row[n] ELSE rec[d][n]]
           rr == [rec EXCEPT ![d] = c]
<1>1. ASSUME NEW n \in Node
      PROVE  /\ row[n] \in [Stage -> StageRecords]
             /\ row[n][s].status = "QUEUED" /\ row[n][s].no = rec[d][n][s].no + 1
             /\ \A p \in Stage : p # s => row[n][p] = rec[d][n][p]
  <2>1. rec[d][n] \in [Stage -> StageRecords] /\ new(n) \in StageRecords
    BY DEF Records, StageRecords
  <2> HIDE DEF new
  <2>2. row[n] = [rec[d][n] EXCEPT ![s] = new(n)]
    OBVIOUS
  <2>3. row[n][s] = new(n)
    BY <2>1, <2>2
  <2>4. new(n).status = "QUEUED" /\ new(n).no = rec[d][n][s].no + 1
    BY DEF new
  <2> QED
    BY <2>1, <2>2, <2>3, <2>4
<1>2. Requeued(rec, d, ns, s) = rr
  BY DEF Requeued
<1> HIDE DEF row
<1>3. c \in [Node -> [Stage -> StageRecords]]
  BY <1>1 DEF Records
<1>4. \A n \in Node : c[n] = IF n \in ns THEN row[n] ELSE rec[d][n]
  OBVIOUS
<1> HIDE DEF c
<1>5. rr \in Records /\ \A e \in Deployment : rr[e] = IF e = d THEN c ELSE rec[e]
  BY <1>3 DEF Records
<1> HIDE DEF rr
<1>6. ASSUME NEW m \in ns
      PROVE  rr[d][m][s].status = "QUEUED" /\ rr[d][m][s].no = rec[d][m][s].no + 1
  BY <1>1, <1>4, <1>5
<1>7. ASSUME NEW e \in Deployment, NEW m \in Node, NEW p \in Stage, ~(e = d /\ m \in ns /\ p = s)
      PROVE  rr[e][m][p] = rec[e][m][p]
  BY <1>1, <1>4, <1>5, <1>7
<1> QED
  BY <1>2, <1>5, <1>6, <1>7 DEF IsRequeued

(* prepare, apply or retry: the nodes have nothing else to do.                  *)
LEMMA ApplyWork ==
  ASSUME Tables, QueueInv, RecordInv, NEW d \in Deployment, QueueForApply(d),
         \A n \in Assigned[d] : \A i \in TaskIds(n) : ~IsLive(queue[n][i])
  PROVE  /\ Work
         /\ \A n \in Node : \A i \in TaskIds(n) : queue'[n][i] = queue[n][i]
         /\ \A n \in Node : IsAdded(n) => n \in Assigned[d] /\ queue'[n][NewId(n)].kind \in Stage
<1> DEFINE todo(p, sts) == {n \in Assigned[d] : record[d][n][p].status \in sts}
           models == todo("MODEL", {"PREPARED", "FAILED"})
           s == IF models # {} THEN "MODEL" ELSE "IMAGE"
           ns == IF models # {} THEN models ELSE todo("IMAGE", {"FAILED"})
           rec == Requeued(record, d, ns, s)
           f == [n \in Node |-> AttemptTask(rec, d, n, s)]
<1>1. record \in Records /\ Assigned[d] \in SUBSET Node
  BY PlanAssumption DEF Tables, TypeOK, Records
<1>2. /\ record' = rec /\ prep' = [prep EXCEPT ![d] = Derived(rec[d], Assigned[d])]
      /\ queue' = [n \in Node |-> IF n \in ns THEN Append(queue[n], AttemptTask(rec, d, n, s))
                                            ELSE queue[n]]
  BY DEF QueueForApply
<1>3. /\ s \in Stage /\ ns \subseteq Assigned[d]
      /\ \A n \in ns : record[d][n][s].status \in {"PREPARED", "FAILED"}
      /\ s = "IMAGE" => \A n \in ns : record[d][n]["MODEL"].status \notin {"PREPARED", "FAILED"}
  BY DEF Stage
<1> HIDE DEF models, s, ns
<1>4. IsRequeued(rec, record, d, ns, s)
  BY <1>1, <1>3, RequeuedAt
<1> HIDE DEF rec
<1>5. \A n \in ns : /\ f[n] \in Tasks /\ f[n].kind = s /\ f[n].dep = d /\ f[n].status = "QUEUED"
                    /\ f[n].no = rec[d][n][s].no /\ TaskOK(n, f[n])
  <2>1. rec \in Records
    BY <1>4 DEF IsRequeued
  <2>2. \A n \in ns : n \in Assigned[d] /\ f[n] = AttemptTask(rec, d, n, s)
    BY <1>1, <1>3
  <2> HIDE DEF f
  <2>3. ASSUME NEW n \in ns PROVE IsAttempt(f[n], rec, d, n, s)
    <3>1. n \in Assigned[d] /\ f[n] = AttemptTask(rec, d, n, s) /\ s \in Stage
      BY <1>3, <2>2
    <3> QED
      BY <2>1, <3>1, AttemptTaskFields
  <2> QED
    BY <2>3 DEF IsAttempt
<1>6. queue' = [n \in Node |-> IF n \in ns THEN Append(queue[n], f[n]) ELSE queue[n]]
  BY <1>2
<1> HIDE DEF f
<1>7. Added(ns, f) /\ ns \in SUBSET Node
  BY <1>1, <1>3, <1>5, <1>6, TasksAdded
<1>8. QueuesGrow
  <2>1. \A m \in ns : \A i \in TaskIds(m) : ~Busy(queue[m][i])
    BY <1>3 DEF Busy
  <2> QED
    BY <1>5, <1>7, <2>1, GrowsByAdding
<1>9. prep' \in [Deployment -> PreparationStatus] /\ \A e \in Deployment : PrepMoves(e)
  <2>1. Derived(rec[d], Assigned[d]) \in PreparationStatus /\ prep \in [Deployment -> PreparationStatus]
    BY <1>1, DerivedLive DEF Tables, TypeOK
  <2> QED
    BY <1>2, <1>4, <2>1 DEF PrepMoves, IsRequeued
<1>10. \A n \in Node : IsAdded(n) => n \in ns /\ queue'[n][NewId(n)] = f[n]
  BY <1>7, QueueRows DEF IsAdded, Added, NewId
<1>11. ASSUME NEW e \in Deployment, NEW m \in Node, NEW p \in Stage
       PROVE  Tracks(e, m, p)
  <2>1. \A i \in TaskIds(m) : queue'[m][i] = queue[m][i]
    BY <1>7 DEF Added
  <2>2. CASE e = d /\ m \in ns /\ p = s
    <3>1. \A i \in TaskIds(m) : ~IsLive(queue[m][i])
      BY <1>3, <2>2
    <3>2. IsAdded(m) /\ Works(queue'[m][NewId(m)], e, p) /\ queue'[m][NewId(m)] = f[m]
      BY <1>5, <1>7, <2>2 DEF IsAdded, Added, Works
    <3>3. p = "IMAGE" => record'[e][m]["MODEL"].status = "SUCCEEDED"
      <4> SUFFICES ASSUME p = "IMAGE" PROVE record[d][m]["MODEL"].status = "SUCCEEDED"
        BY <1>2, <1>4, <2>2 DEF IsRequeued, Stage
      <4>1. record[d][m]["MODEL"].status \notin LiveStatus
        BY <3>1 DEF RecordInv, RecordHasTask, Stage
      <4>2. record[d][m]["MODEL"] \in StageRecords
        BY <1>1 DEF Records, Stage
      <4> QED
        BY <1>3, <2>2, <4>1, <4>2 DEF StageRecords, LiveStatus
    <3> QED
      BY <1>2, <1>3, <1>4, <1>5, <2>2, <3>1, <3>2, <3>3, ZenonT(60) DEF Tracks, IsRequeued
  <2>3. CASE ~(e = d /\ m \in ns /\ p = s)
    <3>1. record'[e][m][p] = record[e][m][p]
      BY <1>2, <1>4, <2>3 DEF IsRequeued
    <3>2. ~(IsAdded(m) /\ Works(queue'[m][NewId(m)], e, p))
      BY <1>5, <1>10, <2>3 DEF Works
    <3>3. ASSUME NEW i \in TaskIds(m), Works(queue[m][i], e, p), IsLive(queue[m][i])
          PROVE  record[e][m][p].status = RecordStatus(queue'[m][i].status)
      BY <2>1, <3>3, WorkIsLive DEF RecordStatus, LiveStatus
    <3> QED
      BY <3>1, <3>2, <3>3 DEF Tracks
  <2> QED
    BY <2>2, <2>3
<1>12. Work
  BY <1>2, <1>4, <1>8, <1>9, <1>11 DEF Work, RecordsFollow, IsRequeued
<1>13. \A n \in Node : \A i \in TaskIds(n) : queue'[n][i] = queue[n][i]
  BY <1>7 DEF Added
<1>14. \A n \in Node : IsAdded(n) => n \in Assigned[d] /\ queue'[n][NewId(n)].kind \in Stage
  BY <1>3, <1>5, <1>10
<1> QED
  BY <1>12, <1>13, <1>14

(* Several attempts are closed at once, and their records with them. *)
Closes(d, n, s) ==
  \E i \in TaskIds(n) : /\ IsLive(queue[n][i]) /\ Works(queue[n][i], d, s)
                        /\ queue'[n][i] # queue[n][i]

(* A step that queues no attempt, and ends only what it closes, lets the records follow. *)
LEMMA ClosedFollow ==
  ASSUME Tables, QueueInv, RecordInv, QueuesGrow, \A n \in Node : ~IsAdded(n),
         record' \in Records, prep' \in [Deployment -> PreparationStatus],
         \A d \in Deployment : PrepMoves(d),
         \A n \in Node : \A i \in TaskIds(n) :
           queue[n][i].kind \in Stage /\ queue'[n][i] # queue[n][i]
             => queue'[n][i].status \in {"FAILED", "CANCELED"},
         \A d \in Deployment, n \in Node, s \in Stage :
           /\ Closes(d, n, s) => record'[d][n][s].status = "FAILED"
                                 /\ record'[d][n][s].no = record[d][n][s].no
           /\ ~Closes(d, n, s) => record'[d][n][s] = record[d][n][s]
  PROVE  RecordsFollow
<1> SUFFICES ASSUME NEW d \in Deployment, NEW n \in Node, NEW s \in Stage PROVE Tracks(d, n, s)
  BY DEF RecordsFollow
<1>1. ASSUME NEW i \in TaskIds(n), Works(queue[n][i], d, s), IsLive(queue[n][i])
      PROVE  /\ record'[d][n][s].no = record[d][n][s].no
             /\ record'[d][n][s].status = RecordStatus(queue'[n][i].status)
  <2>1. CASE queue'[n][i] # queue[n][i]
    BY <1>1, <2>1 DEF Closes, Works, RecordStatus
  <2>2. CASE queue'[n][i] = queue[n][i]
    <3>1. \A j \in TaskIds(n) : Works(queue[n][j], d, s) /\ IsLive(queue[n][j]) => i = j
      BY <1>1 DEF QueueInv, OneBusy, Busy, Works, Stage
    <3>2. record'[d][n][s] = record[d][n][s]
      BY <2>2, <3>1 DEF Closes
    <3> QED
      BY <1>1, <2>2, <3>2, WorkIsLive DEF RecordStatus, LiveStatus
  <2> QED
    BY <2>1, <2>2
<1> QED
  BY <1>1 DEF Tracks, Closes

(* The first transaction of a retry fences the attempts whose leases ran out.    *)
LEMMA FenceWork ==
  ASSUME Tables, QueueInv, RecordInv, NEW d \in Deployment, FenceExpired(d)
  PROVE  /\ Work
         /\ \A n \in Node : ~IsAdded(n)
         /\ \A n \in Node : \A i \in TaskIds(n) :
              queue'[n][i] = queue[n][i] \/ queue[n][i].kind \in Stage
<1> DEFINE Fenced(n, t) == t.dep = d /\ t.kind \in Stage /\ t.expired /\ IsLive(t)
           Hit(n, s) == \E i \in Live(n) : Fenced(n, queue[n][i]) /\ queue[n][i].kind = s
           c == [n \in Node |-> [s \in Stage |->
                   IF Hit(n, s) THEN [record[d][n][s] EXCEPT !.status = "FAILED"]
                                ELSE record[d][n][s]]]
           rec == [record EXCEPT ![d] = c]
           q == [n \in Node |-> [i \in TaskIds(n) |->
                   IF Fenced(n, queue[n][i]) THEN Ended(n, i, "FAILED") ELSE queue[n][i]]]
<1>1. queue' = q /\ Recompute({d}, rec)
  BY DEF FenceExpired, Ended
<1>2. record \in Records /\ prep \in [Deployment -> PreparationStatus]
  BY DEF Tables, TypeOK, Records
<1>3. ASSUME NEW n \in Node, NEW i \in TaskIds(n)
      PROVE  /\ q[n][i] = IF Fenced(n, queue[n][i]) THEN Ended(n, i, "FAILED") ELSE queue[n][i]
             /\ TaskMoves(queue[n][i], q[n][i])
             /\ q[n][i] # queue[n][i] <=> Fenced(n, queue[n][i])
             /\ Fenced(n, queue[n][i]) => q[n][i].status = "FAILED"
  <2>1. q[n][i] = IF Fenced(n, queue[n][i]) THEN Ended(n, i, "FAILED") ELSE queue[n][i]
    OBVIOUS
  <2>2. CASE ~Fenced(n, queue[n][i])
    BY <2>1, <2>2, TaskStays
  <2>3. CASE Fenced(n, queue[n][i])
    <3>1. /\ TaskMoves(queue[n][i], Ended(n, i, "FAILED"))
          /\ Ended(n, i, "FAILED").status = "FAILED"
      BY <2>3, EndedMoves DEF AttemptStatus
    <3>2. Ended(n, i, "FAILED") # queue[n][i]
      BY <2>3, <3>1 DEF IsLive, LiveStatus
    <3> HIDE DEF Fenced, q
    <3> QED
      BY <2>1, <2>3, <3>1, <3>2
  <2> HIDE DEF Fenced, q
  <2> QED
    BY <2>1, <2>2, <2>3
<1>4. queue' = [n \in Node |-> q[n]] /\ \A n \in Node : q[n] = [i \in TaskIds(n) |-> q[n][i]]
  BY <1>1
<1>5. ASSUME NEW n \in Node, NEW s \in Stage
      PROVE  /\ c[n] \in [Stage -> StageRecords]
             /\ Hit(n, s) => c[n][s].status = "FAILED" /\ c[n][s].no = record[d][n][s].no
             /\ ~Hit(n, s) => c[n][s] = record[d][n][s]
  <2> HIDE DEF Hit
  <2>1. \A p \in Stage : c[n][p] = IF Hit(n, p) THEN [record[d][n][p] EXCEPT !.status = "FAILED"]
                                             ELSE record[d][n][p]
    OBVIOUS
  <2>2. c[n] = [p \in Stage |-> c[n][p]]
    OBVIOUS
  <2> HIDE DEF c
  <2>3. ASSUME NEW p \in Stage
        PROVE  /\ c[n][p] \in StageRecords /\ c[n][p].no = record[d][n][p].no
               /\ Hit(n, p) => c[n][p].status = "FAILED"
               /\ ~Hit(n, p) => c[n][p] = record[d][n][p]
    <3>1. record[d][n][p] \in StageRecords
      BY <1>2 DEF Records
    <3>2. CASE Hit(n, p)
      BY <2>1, <3>1, <3>2 DEF StageRecords
    <3>3. CASE ~Hit(n, p)
      BY <2>1, <3>1, <3>3
    <3> QED
      BY <3>2, <3>3
  <2> QED
    BY <2>2, <2>3
<1>6. \A n \in Node, s \in Stage : Hit(n, s) <=>
        \E i \in TaskIds(n) : Fenced(n, queue[n][i]) /\ queue[n][i].kind = s
  BY DEF Live
<1>7. \A n \in Node : \A i \in TaskIds(n) : Fenced(n, queue[n][i]) =>
        queue[n][i].dep = d /\ queue[n][i].kind \in Stage /\ IsLive(queue[n][i])
  OBVIOUS
<1>8. c = [n \in Node |-> c[n]]
  OBVIOUS
<1> HIDE DEF q, c, Hit, Fenced
<1>9. rec \in Records /\ \A e \in Deployment : rec[e] = IF e = d THEN c ELSE record[e]
  BY <1>2, <1>5, <1>8 DEF Records, Stage
<1> HIDE DEF rec
<1>10. QueuesGrow /\ \A n \in Node : ~IsAdded(n)
  BY <1>3, <1>4, GrowsPointwise
<1>11. \A n \in Node : queue'[n] = q[n]
  BY <1>4
<1>12. ASSUME NEW e \in Deployment, NEW n \in Node, NEW s \in Stage
       PROVE  /\ Closes(e, n, s) => record'[e][n][s].status = "FAILED"
                                    /\ record'[e][n][s].no = record[e][n][s].no
              /\ ~Closes(e, n, s) => record'[e][n][s] = record[e][n][s]
  <2>1. Closes(e, n, s) <=> e = d /\ Hit(n, s)
    BY <1>3, <1>6, <1>7, <1>11 DEF Closes, Works
  <2>2. record' = rec
    BY <1>1 DEF Recompute
  <2> QED
    BY <1>5, <1>9, <2>1, <2>2
<1>13. /\ record' = rec /\ prep' \in [Deployment -> PreparationStatus]
       /\ \A e \in Deployment : PrepMoves(e)
  BY <1>1, <1>9, Recomputed
<1>14. RecordsFollow
  BY <1>3, <1>9, <1>10, <1>11, <1>12, <1>13, ClosedFollow
<1> QED
  BY <1>3, <1>7, <1>10, <1>11, <1>14 DEF Work

(* A fresh task of an operation, a quarantine or a probe. *)
IsFresh(t, k, d, a) ==
  /\ t \in Tasks /\ t.kind = k /\ t.dep = d /\ t.art = a
  /\ t.status = "QUEUED" /\ t.expired = FALSE

(* A task that belongs to no attempt is a fresh row. *)
LEMMA NewTaskFields ==
  ASSUME NEW k \in {"VERIFY", "QUARANTINE", "PROBE"}, NEW d \in Deployment \cup {NoDeployment},
         NEW a \in Artifact \cup {"NONE"}
  PROVE  IsFresh(NewTask(k, d, a, 0), k, d, a)
<1>1. 0 \in 0 .. Chunks
  BY BoundAssumption
<1> QED
  BY <1>1 DEF IsFresh, NewTask, Tasks, AttemptStatus

(* Some nodes have such a task more. *)
Adds(ns, t) ==
  /\ \A n \in Node : IsAdded(n) <=> n \in ns
  /\ \A n \in ns : queue'[n][NewId(n)] = t
  /\ \A n \in Node : \A i \in TaskIds(n) : queue'[n][i] = queue[n][i]

(* Queueing VERIFY, QUARANTINE or PROBE tasks changes no record of an attempt. *)
LEMMA AddingWork ==
  ASSUME Tables, QueueInv, RecordInv, UNCHANGED <<prep, record>>,
         NEW ns \in SUBSET Node, NEW t \in Tasks, t.status = "QUEUED", t.kind \notin Stage,
         \A n \in ns : TaskOK(n, t),
         t.kind # "PROBE" => \A n \in ns : \A i \in TaskIds(n) : ~Busy(queue[n][i]),
         queue' = [n \in Node |-> IF n \in ns THEN Append(queue[n], t) ELSE queue[n]]
  PROVE  Work /\ Adds(ns, t)
<1> DEFINE f == [n \in Node |-> t]
<1>1. \A n \in ns : f[n] = t
  OBVIOUS
<1>2. queue' = [n \in Node |-> IF n \in ns THEN Append(queue[n], f[n]) ELSE queue[n]]
  OBVIOUS
<1> HIDE DEF f
<1>3. Added(ns, f)
  BY <1>1, <1>2, TasksAdded
<1>4. QueuesGrow
  BY <1>1, <1>3, GrowsByAdding
<1>5. ASSUME NEW n \in Node
      PROVE  /\ IsAdded(n) <=> n \in ns
             /\ n \in ns => queue'[n][NewId(n)] = t
             /\ \A i \in TaskIds(n) : queue'[n][i] = queue[n][i]
  <2>1. Len(queue'[n]) = IF n \in ns THEN NewId(n) ELSE Len(queue[n])
    BY <1>3 DEF Added
  <2>2. Len(queue[n]) # NewId(n)
    BY QueueRows DEF NewId
  <2>3. IsAdded(n) <=> n \in ns
    BY <2>1, <2>2 DEF IsAdded
  <2>4. n \in ns => queue'[n][NewId(n)] = t
    BY <1>1, <1>3 DEF Added
  <2>5. \A i \in TaskIds(n) : queue'[n][i] = queue[n][i]
    BY <1>3 DEF Added
  <2> QED
    BY <2>3, <2>4, <2>5
<1>6. Adds(ns, t)
  BY <1>5 DEF Adds
<1>7. prep' \in [Deployment -> PreparationStatus] /\ \A d \in Deployment : PrepMoves(d)
  BY DEF Tables, TypeOK, PrepMoves
<1>8. \A n \in Node : IsAdded(n) => queue'[n][NewId(n)].kind \notin Stage
  BY <1>6 DEF Adds
<1>9. \A n \in Node : \A i \in TaskIds(n) : queue[n][i].kind \in Stage
        => queue'[n][i].status = queue[n][i].status
  BY <1>5
<1>10. RecordsFollow
  BY <1>7, <1>8, <1>9, RecordsStay
<1> QED
  BY <1>4, <1>6, <1>10 DEF Work

(* The agent's claim leases a task. *)
LEMMA LeaseWork ==
  ASSUME Tables, QueueInv, RecordInv, NEW n \in Node, NEW i \in TaskIds(n), Lease(n, i)
  PROVE  /\ Work /\ IsLive(queue[n][i])
         /\ Replaced(n, i, [queue[n][i] EXCEPT !.status = "RUNNING", !.expired = FALSE])
<1> DEFINE t == queue[n][i]
           u == [t EXCEPT !.status = "RUNNING", !.expired = FALSE]
<1>1. t \in Tasks /\ (t.expired => t.status = "RUNNING")
  BY QueueRows DEF QueueInv, TaskOK
<1>2. IsLive(t)
  BY <1>1 DEF Lease, Next1, Claimable, IsLive, LiveStatus
<1>3. /\ u \in Tasks /\ u.status = "RUNNING" /\ u.expired = FALSE /\ u.kind = t.kind
      /\ u.dep = t.dep /\ u.art = t.art /\ u.no = t.no /\ u.progress = t.progress
  BY <1>1 DEF Tasks, AttemptStatus
<1>4. queue' = [queue EXCEPT ![n][i] = u]
  BY DEF Lease
<1>5. t.kind \in Stage => Recompute({t.dep}, WithStatus(record, t.dep, n, t.kind, "RUNNING"))
  BY DEF Lease
<1>6. t.kind \notin Stage => UNCHANGED <<prep, record>>
  BY DEF Lease
<1> HIDE DEF u
<1>7. TaskMoves(t, u)
  BY <1>1, <1>2, <1>3, TaskFields DEF TaskMoves, SameWork
<1>8. CASE t.kind \in Stage
  <2>1. "RUNNING" = RecordStatus(u.status)
    BY <1>3 DEF RecordStatus
  <2>2. Work /\ Replaced(n, i, u)
    BY <1>2, <1>4, <1>5, <1>7, <1>8, <2>1, WorkOfAttempt
  <2> QED
    BY <1>2, <2>2 DEF u
<1>9. CASE t.kind \notin Stage
  <2>1. Work /\ Replaced(n, i, u)
    BY <1>4, <1>6, <1>7, <1>9, WorkOfOther
  <2> QED
    BY <1>2, <2>1 DEF u
<1> QED
  BY <1>8, <1>9

(* The lease of a task runs out; progress is reported. *)
LEMMA LeaseExpiresWork ==
  ASSUME Tables, QueueInv, RecordInv, NEW n \in Node, NEW i \in TaskIds(n), LeaseExpires(n, i)
  PROVE  /\ Work
         /\ Replaced(n, i, [queue[n][i] EXCEPT !.expired = TRUE])
<1> DEFINE t == queue[n][i]
           u == [t EXCEPT !.expired = TRUE]
<1>1. t \in Tasks /\ t.status = "RUNNING"
  BY QueueRows DEF LeaseExpires
<1>2. /\ u \in Tasks /\ u.status = t.status /\ u.kind = t.kind
      /\ u.dep = t.dep /\ u.art = t.art /\ u.no = t.no /\ u.progress = t.progress
  BY <1>1 DEF Tasks
<1>3. queue' = [queue EXCEPT ![n][i] = u] /\ UNCHANGED <<prep, record>>
  BY DEF LeaseExpires
<1> HIDE DEF u
<1>4. TaskMoves(t, u)
  BY <1>1, <1>2, TaskFields DEF TaskMoves, SameWork, IsLive, LiveStatus
<1>5. Work /\ Replaced(n, i, u)
  BY <1>2, <1>3, <1>4, WorkOfOther
<1> QED
  BY <1>5 DEF u

(* A heartbeat renews the lease of the job's task, moves its watermark and starts its
   attempt, if that attempt is still current. *)
LEMMA ExtendWork ==
  ASSUME Tables, QueueInv, RecordInv, NEW n \in Node, job[n].id \in TaskIds(n),
         NEW p \in 0 .. Chunks, Extend(n, p)
  PROVE  /\ Work
         /\ Replaced(n, job[n].id,
              [queue[n][job[n].id] EXCEPT !.progress = Watermark(queue[n][job[n].id], p)])
<1> DEFINE i == job[n].id
           t == queue[n][i]
           w == Watermark(t, p)
           u == [t EXCEPT !.progress = w]
<1>1. t \in Tasks /\ t.status = "RUNNING" /\ t.progress \in 0 .. Chunks
      /\ (t.expired => t.status = "RUNNING")
  BY QueueRows, TaskFields DEF Extend, Served
<1>2. w \in 0 .. Chunks /\ w >= t.progress
  BY <1>1, BoundAssumption DEF Watermark
<1> HIDE DEF w
<1>3. /\ u \in Tasks /\ u.status = t.status /\ u.kind = t.kind /\ u.expired = t.expired
      /\ u.dep = t.dep /\ u.art = t.art /\ u.no = t.no /\ u.progress = w
  BY <1>1, <1>2 DEF Tasks
<1>4. queue' = [queue EXCEPT ![n][i] = u] /\ UNCHANGED <<prep, record>>
  BY DEF Extend, w
<1> HIDE DEF u
<1>5. TaskMoves(t, u)
  BY <1>1, <1>2, <1>3 DEF TaskMoves, SameWork, IsLive, LiveStatus
<1>6. Work /\ Replaced(n, i, u)
  BY <1>3, <1>4, <1>5, WorkOfOther
<1> QED
  BY <1>6 DEF u, w

(* A revocation closes every live attempt of the node. *)
LEMMA RevokedMoves ==
  ASSUME Tables, QueueInv, NEW n \in Node, NEW i \in TaskIds(n)
  PROVE  LET t == queue[n][i] IN
           /\ TaskMoves(t, RevokedTask(t))
           /\ t.kind \in Stage \cup {"VERIFY"} /\ IsLive(t)
                => RevokedTask(t).status \in {"FAILED", "CANCELED"}
           /\ t.kind \notin Stage \cup {"VERIFY"} \/ ~IsLive(t) => RevokedTask(t) = t
<1> DEFINE t == queue[n][i]
           ended == t.kind \in Stage \cup {"VERIFY"}
<1>1. t \in Tasks /\ (t.expired => t.status = "RUNNING") /\ TaskMoves(t, t)
  BY QueueRows, TaskStays DEF QueueInv, TaskOK
<1>2. t.status = "QUEUED" => t.expired = FALSE
  BY <1>1, TaskFields
<1>3. CASE ended /\ t.status = "RUNNING"
  <2> DEFINE u == [t EXCEPT !.status = "FAILED", !.expired = FALSE]
  <2>1. RevokedTask(t) = u
    BY <1>3 DEF RevokedTask
  <2>2. /\ u \in Tasks /\ u.status = "FAILED" /\ u.kind = t.kind /\ u.expired = FALSE
        /\ u.dep = t.dep /\ u.art = t.art /\ u.no = t.no /\ u.progress = t.progress
    BY <1>1 DEF Tasks, AttemptStatus
  <2> HIDE DEF u
  <2>3. TaskMoves(t, u)
    BY <1>1, <1>3, <2>2, TaskFields DEF TaskMoves, SameWork, IsLive, LiveStatus
  <2> QED
    BY <1>3, <2>1, <2>2, <2>3 DEF IsLive, LiveStatus
<1>4. CASE ended /\ t.status = "QUEUED"
  <2> DEFINE u == [t EXCEPT !.status = "CANCELED"]
  <2>1. RevokedTask(t) = u
    BY <1>4 DEF RevokedTask
  <2>2. /\ u \in Tasks /\ u.status = "CANCELED" /\ u.kind = t.kind /\ u.expired = FALSE
        /\ u.dep = t.dep /\ u.art = t.art /\ u.no = t.no /\ u.progress = t.progress
    BY <1>1, <1>2, <1>4 DEF Tasks, AttemptStatus
  <2> HIDE DEF u
  <2>3. TaskMoves(t, u)
    BY <1>1, <1>4, <2>2, TaskFields DEF TaskMoves, SameWork, IsLive, LiveStatus
  <2> QED
    BY <1>4, <2>1, <2>2, <2>3 DEF IsLive, LiveStatus
<1>5. CASE ~ended \/ ~IsLive(t)
  <2>1. RevokedTask(t) = t
    BY <1>5 DEF RevokedTask, IsLive, LiveStatus
  <2> QED
    BY <1>1, <1>5, <2>1
<1> QED
  BY <1>3, <1>4, <1>5 DEF IsLive, LiveStatus

(* A revocation ends every task of the node, with the attempts these tasks carry out. *)
LEMMA RevokeWork ==
  ASSUME Tables, QueueInv, RecordInv, NEW n \in Node, Revoke(n)
  PROVE  /\ Work
         /\ \A m \in Node : ~IsAdded(m)
         /\ \A m \in Node : \A i \in TaskIds(m) :
              queue'[m][i] = IF m = n THEN RevokedTask(queue[m][i]) ELSE queue[m][i]
<1> DEFINE row == [i \in TaskIds(n) |-> RevokedTask(queue[n][i])]
           Hit(d, s) == \E i \in Live(n) : queue[n][i].dep = d /\ queue[n][i].kind = s
           c == [d \in Deployment |-> [s \in Stage |->
                   IF Hit(d, s) THEN [record[d][n][s] EXCEPT !.status = "FAILED"]
                                ELSE record[d][n][s]]]
           rec == [d \in Deployment |-> [record[d] EXCEPT ![n] = c[d]]]
           ds == {d \in Deployment : \E s \in Stage : Hit(d, s)}
           q == [m \in Node |-> IF m = n THEN row ELSE queue[m]]
<1>1. record \in Records /\ prep \in [Deployment -> PreparationStatus]
      /\ queue \in [Node -> Seq(Tasks)]
  BY DEF Tables, TypeOK, Records
<1>2. queue' = [queue EXCEPT ![n] = row] /\ Recompute(ds, rec)
  BY DEF Revoke
<1>3. \A i \in TaskIds(n) : TaskMoves(queue[n][i], row[i])
  BY RevokedMoves
<1>4. queue' = [m \in Node |-> q[m]]
  BY <1>1, <1>2
<1>5. \A m \in Node : q[m] = [i \in TaskIds(m) |-> q[m][i]]
  <2>1. \A m \in Node : queue[m] = [i \in TaskIds(m) |-> queue[m][i]]
    BY <1>1 DEF TaskIds
  <2>2. row = [i \in TaskIds(n) |-> row[i]]
    OBVIOUS
  <2> QED
    BY <2>1, <2>2
<1>6. ASSUME NEW m \in Node, NEW i \in TaskIds(m)
      PROVE  /\ TaskMoves(queue[m][i], q[m][i])
             /\ q[m][i] = IF m = n THEN RevokedTask(queue[m][i]) ELSE queue[m][i]
  <2>1. CASE m = n
    BY <1>3, <2>1
  <2>2. CASE m # n
    BY <2>2, TaskStays
  <2> QED
    BY <2>1, <2>2
<1>7. \A m \in Node : queue'[m] = q[m]
  BY <1>4
<1>8. \A d \in Deployment, s \in Stage :
        Hit(d, s) <=> \E i \in TaskIds(n) : IsLive(queue[n][i]) /\ Works(queue[n][i], d, s)
  BY DEF Live, Works
<1>9. ASSUME NEW d \in Deployment
      PROVE  /\ c[d] \in [Stage -> StageRecords]
             /\ \A s \in Stage : Hit(d, s) => c[d][s].status = "FAILED" /\ c[d][s].no = record[d][n][s].no
             /\ \A s \in Stage : ~Hit(d, s) => c[d][s] = record[d][n][s]
             /\ d \notin ds => c[d] = record[d][n]
  <2> HIDE DEF Hit
  <2>1. \A p \in Stage : c[d][p] = IF Hit(d, p) THEN [record[d][n][p] EXCEPT !.status = "FAILED"]
                                             ELSE record[d][n][p]
    OBVIOUS
  <2>2. c[d] = [p \in Stage |-> c[d][p]]
    OBVIOUS
  <2>3. d \notin ds => \A p \in Stage : ~Hit(d, p)
    OBVIOUS
  <2> HIDE DEF c, ds
  <2>4. ASSUME NEW p \in Stage
        PROVE  /\ c[d][p] \in StageRecords /\ c[d][p].no = record[d][n][p].no
               /\ Hit(d, p) => c[d][p].status = "FAILED"
               /\ ~Hit(d, p) => c[d][p] = record[d][n][p]
    <3>1. record[d][n][p] \in StageRecords
      BY <1>1 DEF Records
    <3>2. CASE Hit(d, p)
      BY <2>1, <3>1, <3>2 DEF StageRecords
    <3>3. CASE ~Hit(d, p)
      BY <2>1, <3>1, <3>3
    <3> QED
      BY <3>2, <3>3
  <2>5. record[d][n] = [p \in Stage |-> record[d][n][p]]
    BY <1>1 DEF Records
  <2> QED
    BY <2>2, <2>3, <2>4, <2>5
<1> HIDE DEF c, Hit, ds, row, q
<1>10. ASSUME NEW d \in Deployment
       PROVE  /\ rec[d] \in [Node -> [Stage -> StageRecords]]
              /\ \A m \in Node : rec[d][m] = IF m = n THEN c[d] ELSE record[d][m]
              /\ d \notin ds => rec[d] = record[d]
  <2>1. record[d] \in [Node -> [Stage -> StageRecords]] /\ rec[d] = [record[d] EXCEPT ![n] = c[d]]
    BY <1>1 DEF Records
  <2> HIDE DEF rec
  <2> QED
    BY <1>9, <2>1
<1>11. rec \in Records
  <2>1. rec = [d \in Deployment |-> rec[d]]
    OBVIOUS
  <2> HIDE DEF rec
  <2> QED
    BY <1>10, <2>1 DEF Records
<1> HIDE DEF rec
<1>12. QueuesGrow /\ \A m \in Node : ~IsAdded(m)
  BY <1>4, <1>5, <1>6, GrowsPointwise
<1>13. /\ record' = rec /\ prep' \in [Deployment -> PreparationStatus]
       /\ \A d \in Deployment : PrepMoves(d)
  BY <1>2, <1>10, <1>11, Recomputed
<1>14. ASSUME NEW d \in Deployment, NEW m \in Node, NEW s \in Stage
       PROVE  /\ Closes(d, m, s) => record'[d][m][s].status = "FAILED"
                                    /\ record'[d][m][s].no = record[d][m][s].no
              /\ ~Closes(d, m, s) => record'[d][m][s] = record[d][m][s]
  <2>1. CASE m = n
    <3>1. ASSUME NEW i \in TaskIds(n), IsLive(queue[n][i]), Works(queue[n][i], d, s)
          PROVE  queue'[n][i] # queue[n][i]
      <4>1. queue'[n][i] = RevokedTask(queue[n][i])
        BY <1>6, <1>7
      <4>2. RevokedTask(queue[n][i]).status \in {"FAILED", "CANCELED"}
        BY <3>1, RevokedMoves DEF Works
      <4> QED
        BY <3>1, <4>1, <4>2 DEF IsLive, LiveStatus
    <3>2. Closes(d, m, s) <=> Hit(d, s)
      BY <1>8, <2>1, <3>1 DEF Closes
    <3> QED
      BY <1>9, <1>10, <1>13, <2>1, <3>2
  <2>2. CASE m # n
    <3>1. ~Closes(d, m, s)
      BY <1>6, <1>7, <2>2 DEF Closes
    <3> QED
      BY <1>10, <1>13, <2>2, <3>1
  <2> QED
    BY <2>1, <2>2
<1>15. ASSUME NEW m \in Node, NEW i \in TaskIds(m), queue[m][i].kind \in Stage,
              queue'[m][i] # queue[m][i]
       PROVE  queue'[m][i].status \in {"FAILED", "CANCELED"}
  <2>1. m = n /\ queue'[m][i] = RevokedTask(queue[m][i])
    BY <1>6, <1>7, <1>15
  <2> QED
    BY <1>15, <2>1, RevokedMoves
<1>16. RecordsFollow
  BY <1>11, <1>12, <1>13, <1>14, <1>15, ClosedFollow
<1> QED
  BY <1>6, <1>7, <1>12, <1>16 DEF Work

(* A model success ends the MODEL attempt and queues the IMAGE attempt.         *)
ModelRow(n, i) == [Ended(n, i, "SUCCEEDED") EXCEPT !.progress = Chunks]

(* A model task that succeeds moves to SUCCEEDED. *)
LEMMA ModelRowMoves ==
  ASSUME Tables, NEW n \in Node, NEW i \in TaskIds(n), IsLive(queue[n][i])
  PROVE  /\ TaskMoves(queue[n][i], ModelRow(n, i)) /\ ModelRow(n, i).status = "SUCCEEDED"
<1> DEFINE t == queue[n][i]
           e == Ended(n, i, "SUCCEEDED")
<1>1. TaskMoves(t, e) /\ e.status = "SUCCEEDED" /\ e.expired = FALSE
  BY EndedMoves DEF AttemptStatus
<1>2. e \in Tasks /\ SameWork(e, t) /\ Chunks \in 0 .. Chunks
  BY <1>1, BoundAssumption DEF TaskMoves
<1>3. ModelRow(n, i) = [e EXCEPT !.progress = Chunks]
  BY DEF ModelRow
<1> HIDE DEF e
<1>4. /\ ModelRow(n, i) \in Tasks /\ ModelRow(n, i).status = "SUCCEEDED"
      /\ ModelRow(n, i).expired = FALSE /\ ModelRow(n, i).progress = Chunks
      /\ SameWork(ModelRow(n, i), t)
  BY <1>1, <1>2, <1>3 DEF Tasks, SameWork
<1>5. t.progress \in 0 .. Chunks
  BY QueueRows, TaskFields
<1>6. Chunks >= t.progress
  BY <1>5, BoundAssumption
<1> QED
  BY <1>4, <1>6 DEF TaskMoves

(* Task i of node n becomes u, and a task v is added. *)
ReplacedAndAdded(n, i, u, v) ==
  /\ queue' \in [Node -> Seq(Tasks)]
  /\ \A m \in Node : IsAdded(m) <=> m = n
  /\ \A m \in Node : m # n => Len(queue'[m]) = Len(queue[m])
  /\ queue'[n][NewId(n)] = v
  /\ \A m \in Node : \A j \in TaskIds(m) :
       queue'[m][j] = IF m = n /\ j = i THEN u ELSE queue[m][j]

(* Ending a row and appending another to the same queue does just that. *)
LEMMA TaskReplacedAndAdded ==
  ASSUME Tables, NEW n \in Node, NEW i \in TaskIds(n), NEW u \in Tasks, NEW v \in Tasks,
         queue' = [queue EXCEPT ![n] = Append([queue[n] EXCEPT ![i] = u], v)]
  PROVE  ReplacedAndAdded(n, i, u, v)
<1> DEFINE q == [queue[n] EXCEPT ![i] = u]
           r == Append(q, v)
<1>1. queue[n] \in Seq(Tasks) /\ queue \in [Node -> Seq(Tasks)] /\ i \in 1 .. Len(queue[n])
  BY DEF Tables, TaskIds
<1>2. /\ q \in Seq(Tasks) /\ Len(q) = Len(queue[n])
      /\ \A j \in 1 .. Len(queue[n]) : q[j] = IF j = i THEN u ELSE queue[n][j]
  BY <1>1, ExceptSeq
<1> HIDE DEF q
<1>3. /\ r \in Seq(Tasks) /\ Len(r) = Len(q) + 1 /\ r[Len(q) + 1] = v
      /\ \A j \in 1 .. Len(q) : r[j] = q[j]
  BY <1>2, AppendProperties
<1>4. queue' = [queue EXCEPT ![n] = r]
  BY DEF q
<1> HIDE DEF r
<1>5. queue' \in [Node -> Seq(Tasks)] /\ \A m \in Node : queue'[m] = IF m = n THEN r ELSE queue[m]
  BY <1>1, <1>3, <1>4
<1>6. \A m \in Node : Len(queue[m]) # NewId(m)
  BY QueueRows DEF NewId
<1>7. \A m \in Node : IsAdded(m) <=> m = n
  BY <1>2, <1>3, <1>5, <1>6 DEF IsAdded, NewId
<1>8. queue'[n][NewId(n)] = v
  BY <1>2, <1>3, <1>5 DEF NewId
<1>9. ASSUME NEW m \in Node, NEW j \in TaskIds(m)
      PROVE  queue'[m][j] = IF m = n /\ j = i THEN u ELSE queue[m][j]
  BY <1>2, <1>3, <1>5 DEF TaskIds
<1>10. \A m \in Node : m # n => Len(queue'[m]) = Len(queue[m])
  BY <1>5
<1> QED
  BY <1>5, <1>7, <1>8, <1>9, <1>10 DEF ReplacedAndAdded

(* When the model is there its attempt has succeeded and the image attempt is queued,
   in one transaction. *)
LEMMA ModelWork ==
  ASSUME Tables, QueueInv, RecordInv, NEW n \in Node, NEW i \in TaskIds(n),
         queue[n][i].kind = "MODEL", IsLive(queue[n][i]), ModelDone(n, i)
  PROVE  /\ Work
         /\ \E v \in Tasks : v.kind = "IMAGE" /\ ReplacedAndAdded(n, i, ModelRow(n, i), v)
         /\ queue[n][i].dep \in Deployment
         /\ record'[queue[n][i].dep][n]["MODEL"].status = "SUCCEEDED"
         /\ record'[queue[n][i].dep][n]["MODEL"].no = queue[n][i].no
<1> DEFINE t == queue[n][i]
           d == t.dep
           done == WithStatus(record, d, n, "MODEL", "SUCCEEDED")
           rec == Requeued(done, d, {n}, "IMAGE")
           u == ModelRow(n, i)
           v == AttemptTask(rec, d, n, "IMAGE")
<1>1. d \in Deployment /\ n \in Assigned[d] /\ t.kind \in Stage
  BY DEF QueueInv, TaskOK, Stage
<1>2. /\ queue' = [queue EXCEPT ![n] = Append([queue[n] EXCEPT ![i] = u], v)]
      /\ Recompute({d}, rec)
  BY DEF ModelDone, ModelRow
<1>3. IsRestated(done, d, n, "MODEL", "SUCCEEDED")
  BY <1>1, WithStatusAt DEF Stage
<1> HIDE DEF done
<1>4. IsRequeued(rec, done, d, {n}, "IMAGE")
  BY <1>1, <1>3, RequeuedAt DEF IsRestated, Stage
<1> HIDE DEF rec
<1>5. IsAttempt(v, rec, d, n, "IMAGE")
  BY <1>1, <1>4, AttemptTaskFields DEF IsRequeued, Stage
<1>6. TaskMoves(t, u) /\ u.status = "SUCCEEDED" /\ u \in Tasks
  BY ModelRowMoves DEF TaskMoves
<1> HIDE DEF u, v
<1>7. ReplacedAndAdded(n, i, u, v) /\ v \in Tasks /\ v.kind = "IMAGE"
  BY <1>2, <1>5, <1>6, TaskReplacedAndAdded DEF IsAttempt
<1>8. Works(t, d, "MODEL")
  BY DEF Works
<1>9. /\ record[d][n]["MODEL"].status \in LiveStatus
      /\ record[d][n]["MODEL"].no = t.no
  BY <1>8, WorkIsLive DEF Stage
<1>10. record[d][n]["IMAGE"].status = "PREPARED"
  BY <1>1, <1>9 DEF RecordInv, ImageNeedsModel, LiveStatus
<1>11. \A j \in TaskIds(n) : queue[n][j].kind \in Stage /\ IsLive(queue[n][j]) => j = i
  BY <1>1 DEF QueueInv, OneBusy, Busy, Stage
<1>12. QueuesGrow
  <2> SUFFICES ASSUME NEW m \in Node PROVE Grows(m)
    BY <1>7 DEF QueuesGrow, ReplacedAndAdded
  <2>1. \A j \in TaskIds(m) : TaskMoves(queue[m][j], queue'[m][j])
    BY <1>6, <1>7, TaskStays DEF ReplacedAndAdded
  <2>2. queue'[m] \in Seq(Tasks) /\ Len(queue'[m]) \in {Len(queue[m]), NewId(m)}
    BY <1>7 DEF ReplacedAndAdded, IsAdded
  <2>3. ASSUME IsAdded(m)
        PROVE  LET x == queue'[m][NewId(m)] IN
                 /\ x \in Tasks /\ TaskOK(m, x) /\ x.status = "QUEUED"
                 /\ \A j \in TaskIds(m) : ~Busy(queue'[m][j])
    <3>1. m = n /\ queue'[m][NewId(m)] = v
      BY <1>7, <2>3 DEF ReplacedAndAdded
    <3>2. v \in Tasks /\ TaskOK(n, v) /\ v.status = "QUEUED"
      BY <1>5 DEF IsAttempt
    <3>3. ASSUME NEW j \in TaskIds(n) PROVE ~Busy(queue'[n][j])
      <4>1. CASE j = i
        BY <1>6, <1>7, <4>1 DEF ReplacedAndAdded, Busy, IsLive, LiveStatus
      <4>2. CASE j # i
        <5>1. ~Busy(queue[n][j])
          BY <1>1, <4>2 DEF QueueInv, OneBusy, Busy, Stage
        <5> QED
          BY <1>7, <4>2, <5>1 DEF ReplacedAndAdded
      <4> QED
        BY <4>1, <4>2
    <3> QED
      BY <3>1, <3>2, <3>3
  <2> QED
    BY <2>1, <2>2, <2>3 DEF Grows
<1>13. rec \in Records /\ \A e \in Deployment : e \notin {d} => rec[e] = record[e]
  BY <1>3, <1>4 DEF IsRequeued, IsRestated
<1>14. /\ record' = rec /\ prep' \in [Deployment -> PreparationStatus]
       /\ \A e \in Deployment : PrepMoves(e)
  BY <1>2, <1>13, Recomputed
<1>15. /\ rec[d][n]["MODEL"].no = record[d][n]["MODEL"].no
       /\ rec[d][n]["MODEL"].status = "SUCCEEDED"
  BY <1>1, <1>3, <1>4 DEF IsRequeued, IsRestated, Stage
<1>16. /\ rec[d][n]["IMAGE"].no = record[d][n]["IMAGE"].no + 1
       /\ rec[d][n]["IMAGE"].status = "QUEUED"
  BY <1>1, <1>3, <1>4 DEF IsRequeued, IsRestated, Stage
<1>17. ASSUME NEW e \in Deployment, NEW m \in Node, NEW s \in Stage, ~(e = d /\ m = n)
       PROVE  rec[e][m][s] = record[e][m][s]
  <2>1. rec[e][m][s] = done[e][m][s]
    BY <1>4, <1>17 DEF IsRequeued
  <2>2. done[e][m][s] = record[e][m][s]
    BY <1>3, <1>17 DEF IsRestated
  <2> QED
    BY <2>1, <2>2
<1>18. ASSUME NEW e \in Deployment, NEW m \in Node, NEW s \in Stage
       PROVE  Tracks(e, m, s)
  <2>1. CASE e = d /\ m = n /\ s = "MODEL"
    <3>1. ~Works(queue'[m][NewId(m)], e, s)
      BY <1>7, <2>1 DEF ReplacedAndAdded, Works
    <3>2. queue'[n][i] = u /\ RecordStatus(u.status) = "SUCCEEDED"
      BY <1>6, <1>7 DEF ReplacedAndAdded, RecordStatus
    <3>3. \A j \in TaskIds(n) : Works(queue[n][j], e, s) /\ IsLive(queue[n][j]) => j = i
      BY <1>11 DEF Works
    <3> QED
      BY <1>8, <1>14, <1>15, <2>1, <3>1, <3>2, <3>3 DEF Tracks
  <2>2. CASE e = d /\ m = n /\ s = "IMAGE"
    <3>1. \A j \in TaskIds(n) : ~(Works(queue[n][j], e, s) /\ IsLive(queue[n][j]))
      BY <1>11, <2>2 DEF Works
    <3>2. IsAdded(m) /\ Works(queue'[m][NewId(m)], e, s) /\ queue'[m][NewId(m)] = v
      BY <1>5, <1>7, <2>2 DEF ReplacedAndAdded, Works, IsAttempt
    <3>3. v.no = rec[d][n]["IMAGE"].no
      BY <1>5 DEF IsAttempt
    <3> QED
      BY <1>10, <1>14, <1>15, <1>16, <2>2, <3>1, <3>2, <3>3 DEF Tracks
  <2>3. CASE ~(e = d /\ m = n)
    <3>1. record'[e][m][s] = record[e][m][s]
      BY <1>14, <1>17, <2>3
    <3>2. ~(IsAdded(m) /\ Works(queue'[m][NewId(m)], e, s))
      BY <1>5, <1>7, <2>3 DEF ReplacedAndAdded, Works, IsAttempt
    <3>3. ASSUME NEW j \in TaskIds(m), Works(queue[m][j], e, s), IsLive(queue[m][j])
          PROVE  record[e][m][s].status = RecordStatus(queue'[m][j].status)
      <4>1. queue'[m][j] = queue[m][j]
        BY <1>7, <2>3, <3>3 DEF ReplacedAndAdded, Works
      <4>2. record[e][m][s].status = queue[m][j].status
        BY <3>3, WorkIsLive
      <4> QED
        BY <3>3, <4>1, <4>2 DEF RecordStatus, IsLive, LiveStatus
    <3> QED
      BY <3>1, <3>2, <3>3 DEF Tracks
  <2> QED
    BY <2>1, <2>2, <2>3 DEF Stage
<1>19. RecordsFollow
  BY <1>13, <1>14, <1>18 DEF RecordsFollow
<1> QED
  BY <1>1, <1>7, <1>9, <1>12, <1>14, <1>15, <1>19 DEF Work, u

----------------------------------------------------------------------------
(* How a step may change generations, cache rows, disks and jobs              *)

Adds1(n, k) == IsAdded(n) /\ queue'[n][NewId(n)].kind = k
AddsVerify(d) == \E n \in Node : Adds1(n, "VERIFY") /\ queue'[n][NewId(n)].dep = d
AddsQuarantine(n, a) == Adds1(n, "QUARANTINE") /\ queue'[n][NewId(n)].art = a

(* A generation stays, is accepted, is verified, or its verification goes on.   *)
StatusMoves(d) ==
  \/ status'[d] = status[d] /\ ~AddsVerify(d)
  \/ /\ status[d] = "ABSENT" /\ status'[d] = "CREATED" /\ ~AddsVerify(d)
     /\ NoLiveQuarantine(Assigned[d])
     /\ Previous[d] # NoDeployment => IsLatest(Previous[d])
  \/ /\ status[d] # "ABSENT" /\ status'[d] = "VERIFYING"
     /\ \A n \in Assigned[d] : \A i \in Live(n) : queue[n][i].kind = "PROBE"
  \/ /\ status[d] = "VERIFYING" /\ status'[d] = OperationStatus(queue', d)
     /\ ~AddsVerify(d)
StatusesMove ==
  status' \in [Deployment -> DeploymentStatus] /\ \A d \in Deployment : StatusMoves(d)

(* The quarantine that a row names goes on, is over, or is requested.           *)
PendingMoves(n, a) ==
  LET p == cache[n][a].pending
      u == cache'[n][a].pending
  IN  \/ u = p /\ ~AddsQuarantine(n, a) /\ (p # 0 => IsLive(queue'[n][p]))
      \/ /\ u = 0 /\ ~AddsQuarantine(n, a)
         /\ \A i \in TaskIds(n) : queue[n][i].kind = "QUARANTINE" /\ queue[n][i].art = a
              => ~IsLive(queue'[n][i])
      \/ u = NewId(n) /\ AddsQuarantine(n, a) /\ UnusedOn(n, a) /\ status' = status

(* A row that is READY was READY, or is made so now by the report of a success. *)
Usable(v) == v \in {"GOOD", "DAMAGED"}
Reported(n, a) ==
  LET t == queue[n][job[n].id]
  IN  /\ job[n].step = "DONE" /\ job[n].ok = TRUE /\ t.kind = "MODEL" /\ t.art = a
      /\ Served(n, t) /\ Validated(a) /\ Usable(disk[n][a])
ReadyMoves(n, a) ==
  cache'[n][a].status = "READY" =>
    \/ /\ cache[n][a].status = "READY"
       /\ cache'[n][a].by = cache[n][a].by /\ cache'[n][a].pending = cache[n][a].pending
       /\ Validated(a) => Validated(a)'
       /\ Usable(disk[n][a]) => Usable(disk'[n][a])
    \/ ReadyOK(n, a)' /\ job'[n] = Idle /\ Reported(n, a)
CachesMove ==
  /\ cache' \in [Node -> [Artifact -> Caches]]
  /\ \A n \in Node, a \in Artifact : PendingMoves(n, a) /\ ReadyMoves(n, a)

VariantsMove ==
  /\ variant' \in [Staged -> Variants]
  /\ \A a \in Staged : Validated(a)' => Measured(a)'

(* A job is dropped, kept, or moves on.                                         *)
JobMoves(n) ==
  \/ job'[n] = Idle
  \/ /\ job'[n] = job[n]
     /\ \A a \in Artifact :
          /\ Usable(disk[n][a]) => Usable(disk'[n][a])
          /\ cache'[n][a].status = "READY" => cache[n][a].status = "READY"
  \/ JobOK(n)'
JobsMove ==
  job' \in [Node -> Jobs] /\ disk' \in [Node -> [Artifact -> Disk]]
  /\ \A n \in Node : JobMoves(n)

Moves ==
  /\ Work /\ approved' \subseteq Node
  /\ StatusesMove /\ CachesMove /\ VariantsMove /\ JobsMove

(* The last verification of a node, when it is live, keeps the operation going. *)
LEMMA OperationIs ==
  ASSUME NEW q, NEW d
  PROVE  /\ OperationStatus(q, d) \in DeploymentStatus \ {"ABSENT"}
         /\ (\E n \in Assigned[d] : LastVerify(q, d, n).status \in LiveStatus)
              => OperationStatus(q, d) = "VERIFYING"
<1> DEFINE outcome == {LastVerify(q, d, n).status : n \in Assigned[d]}
<1>1. OperationStatus(q, d) =
        CASE outcome \cap LiveStatus # {} -> "VERIFYING"
          [] outcome = {"SUCCEEDED"} -> "VERIFIED"
          [] OTHER -> "VERIFY_FAILED"
  BY DEF OperationStatus
<1>2. outcome = {"SUCCEEDED"} => outcome \cap LiveStatus = {}
  BY DEF LiveStatus
<1>3. (\E n \in Assigned[d] : LastVerify(q, d, n).status \in LiveStatus)
        => outcome \cap LiveStatus # {}
  OBVIOUS
<1> HIDE DEF outcome
<1>4. CASE outcome \cap LiveStatus # {}
  <2>1. OperationStatus(q, d) = "VERIFYING"
    BY <1>1, <1>2, <1>4
  <2> QED
    BY <2>1 DEF DeploymentStatus
<1>5. CASE outcome \cap LiveStatus = {} /\ outcome = {"SUCCEEDED"}
  <2>1. OperationStatus(q, d) = "VERIFIED"
    BY <1>1, <1>2, <1>5
  <2> QED
    BY <1>3, <1>5, <2>1 DEF DeploymentStatus
<1>6. CASE outcome \cap LiveStatus = {} /\ outcome # {"SUCCEEDED"}
  <2>1. OperationStatus(q, d) = "VERIFY_FAILED"
    BY <1>1, <1>2, <1>6
  <2> QED
    BY <1>3, <1>6, <2>1 DEF DeploymentStatus
<1> QED
  BY <1>4, <1>5, <1>6

(* A live verification that no later one follows is the latest of its deployment. *)
LEMMA LiveVerifyDecides ==
  ASSUME NEW q, NEW d, NEW n \in Assigned[d], DOMAIN q[n] \subseteq Nat, NEW i \in DOMAIN q[n],
         q[n][i].kind = "VERIFY", q[n][i].dep = d, IsLive(q[n][i]),
         \A j \in DOMAIN q[n] : q[n][j].kind = "VERIFY" /\ q[n][j].dep = d => j <= i
  PROVE  OperationStatus(q, d) = "VERIFYING"
<1> DEFINE P(k) == /\ q[n][k].kind = "VERIFY" /\ q[n][k].dep = d
                   /\ \A j \in DOMAIN q[n] : q[n][j].kind = "VERIFY" /\ q[n][j].dep = d => j <= k
           k == CHOOSE k \in DOMAIN q[n] : P(k)
<1>1. P(i)
  OBVIOUS
<1>2. k \in DOMAIN q[n] /\ P(k)
  BY <1>1
<1>3. LastVerify(q, d, n) = q[n][k]
  BY DEF LastVerify
<1> HIDE DEF k
<1>4. k <= i /\ i <= k
  BY <1>1, <1>2
<1>5. k = i
  BY <1>2, <1>4
<1> QED
  BY <1>3, <1>5, OperationIs DEF IsLive

(* When the statuses move as StatusMoves says, a live VERIFY task stays the latest of
   a deployment that is VERIFYING. *)
LEMMA VerifyKept ==
  ASSUME Tables, QueueInv, VerifyInv, QueuesGrow, StatusesMove
  PROVE  VerifyInv'
<1> SUFFICES ASSUME NEW n \in Node, NEW i \in TaskIds(n)', queue'[n][i].kind = "VERIFY",
                    IsLive(queue'[n][i])
             PROVE  status'[queue'[n][i].dep] = "VERIFYING"
  BY DEF VerifyInv
<1> DEFINE d == queue'[n][i].dep
<1>1. /\ d \in Deployment /\ n \in Assigned[d] /\ LastIsLive(n)'
  BY QueueKept DEF QueueInv, TaskOK
<1>2. StatusMoves(d)
  BY <1>1 DEF StatusesMove
<1>3. CASE i \in TaskIds(n) /\ TaskMoves(queue[n][i], queue'[n][i])
  <2>1. queue[n][i].kind = "VERIFY" /\ IsLive(queue[n][i]) /\ queue[n][i].dep = d
    BY <1>3, MovedWork
  <2>2. status[d] = "VERIFYING"
    BY <1>3, <2>1 DEF VerifyInv
  <2>3. CASE status'[d] = OperationStatus(queue', d)
    <3>1. /\ DOMAIN queue'[n] = TaskIds(n)' /\ TaskIds(n)' \subseteq Nat
      BY LenProperties DEF QueuesGrow, TaskIds
    <3>2. \A j \in DOMAIN queue'[n] : queue'[n][j].kind = "VERIFY" /\ queue'[n][j].dep = d => j <= i
      BY <1>1, <3>1 DEF LastIsLive
    <3>3. OperationStatus(queue', d) = "VERIFYING"
      BY <1>1, <3>1, <3>2, LiveVerifyDecides
    <3> QED
      BY <2>3, <3>3
  <2> QED
    BY <1>2, <2>2, <2>3 DEF StatusMoves
<1>4. CASE i = NewId(n) /\ IsAdded(n)
  BY <1>2, <1>4 DEF StatusMoves, AddsVerify, Adds1
<1> QED
  BY <1>3, <1>4, OldOrNew

(* What no generation uses stays unused while a quarantine of it is live.       *)
LEMMA UnusedKept ==
  ASSUME Tables, StatusesMove, NEW n \in Node, NEW a, UnusedOn(n, a),
         NEW i \in Live(n), queue[n][i].kind = "QUARANTINE"
  PROVE  UnusedOn(n, a)'
<1> SUFFICES ASSUME NEW d \in Deployment, n \in Assigned[d]
             PROVE  ~Active(d)' /\ ~(Referring(d)' /\ Identity[d] = a)
  BY DEF UnusedOn
<1>1. ~Active(d) /\ ~(Referring(d) /\ Identity[d] = a)
  BY DEF UnusedOn
<1>2. ~NoLiveQuarantine(Assigned[d])
      /\ ~\A m \in Assigned[d] : \A j \in Live(m) : queue[m][j].kind = "PROBE"
  BY DEF NoLiveQuarantine
<1>3. status'[d] = status[d]
  BY <1>1, <1>2 DEF StatusesMove, StatusMoves, Active
<1>4. ~Active(d)'
  BY <1>1, <1>3 DEF Active
<1>5. \A e, f \in Deployment : f \in SuccessorOf(e) => f \in SuccessorOf(e)'
  <2>1. \A f \in Deployment : status[f] # "ABSENT" => status'[f] # "ABSENT"
    <3> SUFFICES ASSUME NEW f \in Deployment, status[f] # "ABSENT" PROVE status'[f] # "ABSENT"
      OBVIOUS
    <3>1. CASE status'[f] = OperationStatus(queue', f) /\ status[f] = "VERIFYING"
      <4>1. OperationStatus(queue', f) # "ABSENT"
        BY OperationIs
      <4> QED
        BY <3>1, <4>1
    <3> QED
      BY <3>1 DEF StatusesMove, StatusMoves
  <2> QED
    BY <2>1 DEF SuccessorOf
<1>6. \A e \in Deployment : IsLatest(e)' => IsLatest(e)
  BY <1>5 DEF IsLatest, SuccessorOf
<1>7. ASSUME Referring(d)'
      PROVE  Referring(d)
  <2>1. CASE IsLatest(d)'
    BY <1>3, <1>6, <1>7, <2>1 DEF Referring
  <2>2. CASE status'[d] = "VERIFIED" /\ \E e \in SuccessorOf(d)' : IsLatest(e)'
    <3>1. PICK e \in Deployment : Previous[e] = d /\ status'[e] # "ABSENT" /\ IsLatest(e)'
      BY <2>2 DEF SuccessorOf
    <3>2. CASE status[e] # "ABSENT"
      BY <1>3, <1>6, <2>2, <3>1, <3>2 DEF Referring, SuccessorOf
    <3>3. CASE status[e] = "ABSENT"
      <4>1. IsLatest(d)
        BY <3>1, <3>3, PlanAssumption DEF StatusesMove, StatusMoves
      <4> QED
        BY <1>3, <2>2, <4>1 DEF Referring
    <3> QED
      BY <3>2, <3>3
  <2> QED
    BY <1>7, <2>1, <2>2 DEF Referring
<1> QED
  BY <1>1, <1>4, <1>7

(* The row and the artifact of a live QUARANTINE task stay as it expects them. *)
LEMMA QuarantineKept ==
  ASSUME Tables, QueueInv, QuarantineInv, QueuesGrow, StatusesMove, CachesMove
  PROVE  QuarantineInv'
<1>1. ASSUME NEW n \in Node, NEW i \in TaskIds(n)', queue'[n][i].kind = "QUARANTINE",
             IsLive(queue'[n][i]), NEW a \in Artifact, a = queue'[n][i].art
      PROVE  UnusedOn(n, a)' /\ cache'[n][a].pending = i
  <2>2. PendingMoves(n, a)
    BY <1>1 DEF CachesMove
  <2>3. CASE i \in TaskIds(n) /\ TaskMoves(queue[n][i], queue'[n][i])
    <3>1. /\ queue[n][i].kind = "QUARANTINE" /\ IsLive(queue[n][i]) /\ queue[n][i].art = a
          /\ Busy(queue'[n][i])
      BY <1>1, <2>3, MovedWork DEF Busy
    <3>2. UnusedOn(n, a) /\ cache[n][a].pending = i
      BY <2>3, <3>1 DEF QuarantineInv
    <3>3. ~AddsQuarantine(n, a)
      BY <2>3, <3>1 DEF QueuesGrow, Grows, AddsQuarantine, Adds1
    <3>4. UnusedOn(n, a)'
      BY <2>3, <3>1, <3>2, UnusedKept DEF Live
    <3> QED
      BY <1>1, <2>2, <2>3, <3>1, <3>2, <3>3, <3>4 DEF PendingMoves
  <2>4. CASE i = NewId(n) /\ IsAdded(n)
    <3>1. AddsQuarantine(n, a)
      BY <1>1, <2>4 DEF AddsQuarantine, Adds1
    <3>2. cache'[n][a].pending = i /\ UnusedOn(n, a) /\ status' = status
      BY <2>2, <2>4, <3>1 DEF PendingMoves
    <3>3. UnusedOn(n, a)'
      BY <3>2 DEF UnusedOn, Active, Referring, IsLatest, SuccessorOf
    <3> QED
      BY <3>2, <3>3
  <2> QED
    BY <2>3, <2>4, OldOrNew
<1>2. ASSUME NEW n \in Node, NEW a \in Artifact, cache'[n][a].pending # 0
      PROVE  LET p == cache'[n][a].pending IN
               /\ p \in TaskIds(n)' /\ IsLive(queue'[n][p])
               /\ queue'[n][p].kind = "QUARANTINE" /\ queue'[n][p].art = a
  <2> DEFINE p == cache'[n][a].pending
  <2>1. PendingMoves(n, a) /\ Grows(n) /\ Len(queue[n]) \in Nat
    BY QueueRows DEF CachesMove, QueuesGrow
  <2>2. \A j \in TaskIds(n) : j \in TaskIds(n)' /\ SameWork(queue'[n][j], queue[n][j])
    BY <2>1 DEF Grows, TaskIds, NewId, TaskMoves
  <2>3. CASE p = cache[n][a].pending /\ IsLive(queue'[n][p])
    <3>1. cache[n][a].pending # 0
      BY <1>2, <2>3
    <3>2. LET q == cache[n][a].pending IN
            q \in TaskIds(n) /\ queue[n][q].kind = "QUARANTINE" /\ queue[n][q].art = a
      <4> HIDE DEF p
      <4> QED
        BY <3>1 DEF QuarantineInv
    <3>3. p \in TaskIds(n) /\ queue[n][p].kind = "QUARANTINE" /\ queue[n][p].art = a
      BY <2>3, <3>2
    <3> QED
      BY <2>2, <2>3, <3>3 DEF SameWork
  <2>4. CASE p = NewId(n) /\ AddsQuarantine(n, a)
    <3>1. p \in TaskIds(n)' /\ queue'[n][p].status = "QUEUED"
      BY <2>1, <2>4 DEF AddsQuarantine, Adds1, Grows, IsAdded, TaskIds, NewId
    <3> QED
      BY <2>4, <3>1 DEF AddsQuarantine, Adds1, IsLive, LiveStatus
  <2> QED
    BY <1>2, <2>1, <2>3, <2>4 DEF PendingMoves
<1>3. ASSUME NEW n \in Node, NEW i \in TaskIds(n)', queue'[n][i].kind = "QUARANTINE"
      PROVE  queue'[n][i].art \in Artifact
  BY <1>3, QueueKept DEF QueueInv, TaskOK
<1> QED
  BY <1>1, <1>2, <1>3 DEF QuarantineInv

(* Tasks keep what they are about. *)
LEMMA TasksStay ==
  ASSUME Tables, QueuesGrow, NEW n \in Node, NEW i \in TaskIds(n)
  PROVE  /\ i \in TaskIds(n)' /\ SameWork(queue'[n][i], queue[n][i])
         /\ ~IsLive(queue[n][i]) => queue'[n][i] = queue[n][i]
<1>1. Grows(n) /\ Len(queue[n]) \in Nat
  BY QueueRows DEF QueuesGrow
<1> QED
  BY <1>1 DEF Grows, TaskIds, NewId, TaskMoves

(* What an agent holds stays backed by its disk and its cache rows. *)
LEMMA JobKept ==
  ASSUME Tables, QueueInv, JobInv, QueuesGrow, JobsMove
  PROVE  JobInv'
<1> SUFFICES ASSUME NEW n \in Node PROVE JobOK(n)'
  BY DEF JobInv
<1>1. CASE job'[n] = Idle
  BY <1>1 DEF JobOK, Idle
<1>2. CASE /\ job'[n] = job[n]
           /\ \A a \in Artifact :
                /\ Usable(disk[n][a]) => Usable(disk'[n][a])
                /\ cache'[n][a].status = "READY" => cache[n][a].status = "READY"
  <2> DEFINE i == job[n].id
  <2> SUFFICES ASSUME job[n].step # "IDLE" PROVE JobOK(n)'
    BY <1>2 DEF JobOK
  <2>1. /\ i \in TaskIds(n) /\ (job[n].step # "DONE" => job[n].ok = FALSE)
        /\ job[n].ok = TRUE /\ queue[n][i].kind = "MODEL" => Usable(disk[n][queue[n][i].art])
        /\ queue[n][i].kind = "QUARANTINE" => cache[n][queue[n][i].art].status # "READY"
    BY DEF JobInv, JobOK, Usable
  <2>2. i \in TaskIds(n)' /\ SameWork(queue'[n][i], queue[n][i])
    BY <2>1, TasksStay
  <2>3. queue[n][i].kind \in {"MODEL", "QUARANTINE"} => queue[n][i].art \in Artifact
    BY <2>1, ArtifactTask
  <2> QED
    BY <1>2, <2>1, <2>2, <2>3 DEF JobOK, SameWork, Usable
<1> QED
  BY <1>1, <1>2 DEF JobsMove, JobMoves

(* A READY row stays backed by a successful attempt and a validated variant. *)
LEMMA ReadyKept ==
  ASSUME Tables, QueueInv, RecordInv, ReadyInv, Work, CachesMove, VariantsMove
  PROVE  ReadyInv'
<1> SUFFICES ASSUME NEW n \in Node, NEW a \in Artifact PROVE ReadyOK(n, a)'
  BY DEF ReadyInv, VariantsMove
<1>1. CASE /\ cache'[n][a].status = "READY" /\ cache[n][a].status = "READY"
           /\ cache'[n][a].by = cache[n][a].by /\ cache'[n][a].pending = cache[n][a].pending
           /\ Validated(a) => Validated(a)'
           /\ Usable(disk[n][a]) => Usable(disk'[n][a])
  <2> DEFINE c == cache[n][a]
             t == queue[n][c.by]
  <2>1. /\ c.by \in TaskIds(n) /\ t.art = a /\ c.pending = 0
        /\ t.kind = "MODEL" /\ t.status = "SUCCEEDED"
        /\ record[t.dep][n]["MODEL"] = [status |-> "SUCCEEDED", no |-> t.no]
        /\ Validated(a) /\ Usable(disk[n][a])
    <3>1. ReadyOK(n, a)
      BY DEF ReadyInv
    <3>2. /\ c.by \in TaskIds(n) /\ t.art = a /\ c.pending = 0 /\ Usable(disk[n][a])
          /\ ReadyAttemptCurrent(n, c) /\ Validated(a)
      BY <1>1, <3>1 DEF ReadyOK, Usable
    <3> QED
      BY <3>2 DEF ReadyAttemptCurrent
  <2>2. c.by \in TaskIds(n)' /\ queue'[n][c.by] = t
    BY <2>1, TasksStay DEF Work, IsLive, LiveStatus
  <2>3. t.dep \in Deployment
    BY <2>1 DEF QueueInv, TaskOK, Stage
  <2>4. record[t.dep][n]["MODEL"].status = "SUCCEEDED"
    <3>1. record[t.dep][n]["MODEL"] = [status |-> "SUCCEEDED", no |-> t.no]
      BY <2>1
    <3> HIDE DEF t
    <3> QED
      BY <3>1
  <2>5. record'[t.dep][n]["MODEL"] = record[t.dep][n]["MODEL"]
    BY <2>3, <2>4, SuccessKept DEF Work, Stage
  <2> QED
    BY <1>1, <2>1, <2>2, <2>5 DEF ReadyOK, ReadyAttemptCurrent, Usable
<1>2. CASE cache'[n][a].status # "READY"
  BY <1>2 DEF ReadyOK
<1> QED
  BY <1>1, <1>2 DEF CachesMove, ReadyMoves

(* Every step that moves the tables like this keeps the invariant.              *)
LEMMA MovesKeep ==
  ASSUME PreparationInv, Moves
  PROVE  PreparationInv'
<1>1. /\ Tables /\ QueueInv /\ RecordInv /\ VerifyInv /\ QuarantineInv /\ JobInv /\ ReadyInv
      /\ QueuesGrow /\ RecordsFollow /\ Work /\ StatusesMove /\ CachesMove /\ VariantsMove
      /\ JobsMove /\ approved' \subseteq Node
  BY DEF PreparationInv, Moves, Work
<1>2. QueueInv' /\ RecordInv' /\ VerifyInv' /\ QuarantineInv' /\ JobInv' /\ ReadyInv'
  BY <1>1, QueueKept, RecordsKept, VerifyKept, QuarantineKept, JobKept, ReadyKept
<1>3. TypeOK'
  BY <1>1, QueueKept DEF TypeOK, RecordsFollow, Records, CachesMove, VariantsMove, JobsMove
<1>4. Tables'
  BY <1>1, <1>3 DEF Tables, StatusesMove, QueuesGrow
<1> QED
  BY <1>2, <1>4 DEF PreparationInv

----------------------------------------------------------------------------
(* What most steps leave alone                                                *)

(* No quarantine begins or ends. *)
QuarantinesStay ==
  \A n \in Node :
    /\ ~Adds1(n, "QUARANTINE")
    /\ \A i \in TaskIds(n) : queue[n][i].kind = "QUARANTINE" /\ IsLive(queue[n][i])
         => IsLive(queue'[n][i])
NoVerifyAdded == \A n \in Node : ~Adds1(n, "VERIFY")

(* Rows are demoted at most. *)
RowKept(n, a) ==
  /\ cache'[n][a].by = cache[n][a].by /\ cache'[n][a].pending = cache[n][a].pending
  /\ cache'[n][a].status = "READY" => cache[n][a].status = "READY"
RowsKept ==
  cache' \in [Node -> [Artifact -> Caches]] /\ \A n \in Node, a \in Artifact : RowKept(n, a)

(* A step that leaves the statuses alone and queues no verification is a StatusesMove. *)
LEMMA StatusFrame ==
  ASSUME Tables, status' = status, NoVerifyAdded
  PROVE  StatusesMove
  BY DEF Tables, NoVerifyAdded, StatusesMove, StatusMoves, AddsVerify

(* A step that leaves the cache rows alone keeps them. *)
LEMMA RowsFrame ==
  ASSUME Tables, cache' = cache
  PROVE  RowsKept
  BY DEF Tables, TypeOK, RowsKept, RowKept

(* A step that keeps the cache rows, the disks and the live quarantines moves no row. *)
LEMMA CacheFrame ==
  ASSUME QuarantineInv, QuarantinesStay, RowsKept,
         \A n \in Node, a \in Artifact : cache'[n][a].status = "READY" =>
           /\ Validated(a) => Validated(a)'
           /\ Usable(disk[n][a]) => Usable(disk'[n][a])
  PROVE  CachesMove
<1>1. ASSUME NEW n \in Node, NEW a \in Artifact
      PROVE  PendingMoves(n, a) /\ ReadyMoves(n, a)
  <2>1. RowKept(n, a) /\ ~AddsQuarantine(n, a)
    BY DEF RowsKept, QuarantinesStay, AddsQuarantine
  <2>2. cache[n][a].pending # 0 => IsLive(queue'[n][cache[n][a].pending])
    BY DEF QuarantineInv, QuarantinesStay
  <2> QED
    BY <2>1, <2>2 DEF RowKept, PendingMoves, ReadyMoves
<1> QED
  BY <1>1 DEF CachesMove, RowsKept

(* A step that leaves the variants alone keeps what is validated. *)
LEMMA VariantFrame ==
  ASSUME Tables, ReadyInv, variant' = variant
  PROVE  VariantsMove /\ \A a : Validated(a)' <=> Validated(a)
  BY DEF Tables, TypeOK, ReadyInv, VariantsMove, Validated, Measured

(* A step that leaves the jobs and the disks alone lets no job move. *)
LEMMA JobFrame ==
  ASSUME Tables, RowsKept, UNCHANGED <<disk, job>>
  PROVE  JobsMove
  BY DEF Tables, TypeOK, RowsKept, RowKept, JobsMove, JobMoves

(* Only queues, records and preparations change. *)
LEMMA WorkOnly ==
  ASSUME PreparationInv, Work, QuarantinesStay, NoVerifyAdded,
         UNCHANGED <<approved, status, cache, variant, disk, job>>
  PROVE  Moves
<1>1. Tables /\ QuarantineInv /\ ReadyInv /\ approved \subseteq Node
  BY DEF PreparationInv, Tables, TypeOK
<1>2. RowsKept /\ StatusesMove /\ VariantsMove /\ JobsMove
  BY <1>1, StatusFrame, RowsFrame, VariantFrame, JobFrame
<1>3. CachesMove
  BY <1>1, <1>2, VariantFrame, CacheFrame
<1> QED
  BY <1>1, <1>2, <1>3 DEF Moves

(* Replacing a row keeps the quarantines, unless it ends one. *)
LEMMA ReplacedStays ==
  ASSUME Tables, NEW n \in Node, NEW i \in TaskIds(n), NEW u, Replaced(n, i, u),
         queue[n][i].kind = "QUARANTINE" => IsLive(u)
  PROVE  QuarantinesStay /\ NoVerifyAdded /\ \A m \in Node : ~IsAdded(m)
<1>1. \A m \in Node : ~IsAdded(m)
  BY QueueRows DEF Replaced, IsAdded, NewId
<1> QED
  BY <1>1 DEF QuarantinesStay, NoVerifyAdded, Adds1, Replaced

(* Nothing is added to queues that are left alone. *)
LEMMA NothingAdded ==
  ASSUME Tables, queue' = queue
  PROVE  QuarantinesStay /\ NoVerifyAdded /\ \A m \in Node : ~IsAdded(m)
<1>1. \A m \in Node : ~IsAdded(m)
  BY QueueRows DEF IsAdded, NewId
<1> QED
  BY <1>1 DEF QuarantinesStay, NoVerifyAdded, Adds1

(* Evidence never makes a row READY. *)
LEMMA DemotedRow ==
  ASSUME NEW c \in Caches, c.status # "NONE", NEW st \in CacheStatus \ {"READY"}
  PROVE  /\ Demoted(c, st) \in Caches /\ Demoted(c, st).status # "READY"
         /\ Demoted(c, st).by = c.by /\ Demoted(c, st).pending = c.pending
<1> DEFINE e == [c EXCEPT !.status = st]
<1>1. CacheStatus = {"READY", "STALE", "MISSING", "CORRUPT", "QUARANTINED"}
  BY DEF CacheStatus, Priority
<1>2. /\ Priority["READY"] = 1 /\ Priority["STALE"] = 2 /\ Priority["MISSING"] = 3
      /\ Priority["CORRUPT"] = 4 /\ Priority["QUARANTINED"] = 5
  BY DEF Priority
<1>3. ~(Priority[st] < Priority["READY"])
  BY <1>1, <1>2
<1>4. Demoted(c, st) = IF Priority[st] < Priority[c.status] THEN c ELSE e
  BY DEF Demoted
<1>5. /\ e \in Caches /\ e.status = st /\ e.by = c.by /\ e.pending = c.pending
  BY DEF Caches
<1> HIDE DEF e
<1> QED
  BY <1>3, <1>4, <1>5

(* What a failed verification writes: the rows of the artifact on that node. *)
LEMMA FailedRows ==
  ASSUME Tables, NEW n \in Node, NEW a \in Artifact
  PROVE  /\ VerificationFailed(n, a) \in [Node -> [Artifact -> Caches]]
         /\ \A m \in Node, b \in Artifact :
              LET c == VerificationFailed(n, a)[m][b] IN
                /\ c \in Caches
                /\ c.by = cache[m][b].by /\ c.pending = cache[m][b].pending
                /\ c.status = "READY" => cache[m][b].status = "READY"
<1> DEFINE d == Demoted(cache[n][a], "CORRUPT")
           row == [cache[n] EXCEPT ![a] = d]
<1>1. cache \in [Node -> [Artifact -> Caches]]
  BY DEF Tables, TypeOK
<1>2. CASE cache[n][a].status = "NONE"
  BY <1>1, <1>2 DEF VerificationFailed
<1>3. CASE cache[n][a].status # "NONE"
  <2>1. "CORRUPT" \in CacheStatus \ {"READY"}
    BY DEF CacheStatus, Priority
  <2>2. d \in Caches /\ d.status # "READY" /\ d.by = cache[n][a].by /\ d.pending = cache[n][a].pending
    BY <1>1, <1>3, <2>1, DemotedRow
  <2>3. VerificationFailed(n, a) = [cache EXCEPT ![n] = row]
    BY <1>3 DEF VerificationFailed
  <2> HIDE DEF d
  <2>4. row \in [Artifact -> Caches] /\ \A b \in Artifact : row[b] = IF b = a THEN d ELSE cache[n][b]
    BY <1>1, <2>2
  <2> HIDE DEF row
  <2>5. /\ VerificationFailed(n, a) \in [Node -> [Artifact -> Caches]]
        /\ \A m \in Node : VerificationFailed(n, a)[m] = IF m = n THEN row ELSE cache[m]
    BY <1>1, <2>3, <2>4
  <2>6. \A m \in Node, b \in Artifact :
          VerificationFailed(n, a)[m][b] = IF m = n /\ b = a THEN d ELSE cache[m][b]
    BY <2>4, <2>5
  <2> QED
    BY <1>1, <2>2, <2>5, <2>6
<1> QED
  BY <1>2, <1>3

(* A probe's observation demotes cache rows and promotes none. *)
LEMMA ReconciledRows ==
  ASSUME Tables, NEW n \in Node, NEW seen, cache' = Reconciled(n, seen)
  PROVE  RowsKept
<1> DEFINE old(a) == cache[n][a]
           f == [a \in Artifact |->
                   CASE cache[n][a].status = "NONE" \/ seen[a] = "GOOD" -> cache[n][a]
                     [] cache[n][a].status # "NONE" /\ seen[a] \in {"EMPTY", "MOVED"}
                          -> Demoted(cache[n][a], "MISSING")
                     [] OTHER -> Demoted(cache[n][a], "CORRUPT")]
<1>1. cache \in [Node -> [Artifact -> Caches]]
  BY DEF Tables, TypeOK
<1>2. cache' = [cache EXCEPT ![n] = f]
  BY DEF Reconciled
<1>3. ASSUME NEW a \in Artifact
      PROVE  /\ f[a] \in Caches /\ f[a].by = cache[n][a].by /\ f[a].pending = cache[n][a].pending
             /\ f[a].status = "READY" => cache[n][a].status = "READY"
  <2>1. f[a] = CASE cache[n][a].status = "NONE" \/ seen[a] = "GOOD" -> cache[n][a]
                 [] cache[n][a].status # "NONE" /\ seen[a] \in {"EMPTY", "MOVED"}
                      -> Demoted(cache[n][a], "MISSING")
                 [] OTHER -> Demoted(cache[n][a], "CORRUPT")
    OBVIOUS
  <2> HIDE DEF f
  <2>2. cache[n][a] \in Caches
    BY <1>1
  <2>3. seen[a] = "GOOD" => seen[a] \notin {"EMPTY", "MOVED"}
    OBVIOUS
  <2>4. CASE cache[n][a].status = "NONE" \/ seen[a] = "GOOD"
    <3>1. f[a] = cache[n][a]
      BY <2>1, <2>3, <2>4
    <3> QED
      BY <2>2, <3>1
  <2>5. CASE cache[n][a].status # "NONE" /\ seen[a] # "GOOD" /\ seen[a] \in {"EMPTY", "MOVED"}
    <3>1. f[a] = Demoted(cache[n][a], "MISSING")
      BY <2>1, <2>3, <2>5
    <3>2. "MISSING" \in CacheStatus \ {"READY"}
      BY DEF CacheStatus, Priority
    <3> QED
      BY <2>2, <2>5, <3>1, <3>2, DemotedRow
  <2>6. CASE cache[n][a].status # "NONE" /\ seen[a] # "GOOD" /\ seen[a] \notin {"EMPTY", "MOVED"}
    <3>1. f[a] = Demoted(cache[n][a], "CORRUPT")
      BY <2>1, <2>3, <2>6
    <3>2. "CORRUPT" \in CacheStatus \ {"READY"}
      BY DEF CacheStatus, Priority
    <3> QED
      BY <2>2, <2>6, <3>1, <3>2, DemotedRow
  <2> QED
    BY <2>4, <2>5, <2>6
<1>4. f = [a \in Artifact |-> f[a]]
  OBVIOUS
<1> HIDE DEF f
<1>5. f \in [Artifact -> Caches]
  BY <1>3, <1>4
<1>6. /\ cache' \in [Node -> [Artifact -> Caches]]
      /\ \A m \in Node : cache'[m] = IF m = n THEN f ELSE cache[m]
  BY <1>1, <1>2, <1>5
<1> QED
  BY <1>3, <1>6 DEF RowsKept, RowKept

----------------------------------------------------------------------------
(* The registry, generations, and the disk                                    *)

(* The invariant by its parts. *)
LEMMA InvParts ==
  ASSUME PreparationInv
  PROVE  /\ Tables /\ QueueInv /\ RecordInv /\ VerifyInv /\ QuarantineInv /\ JobInv /\ ReadyInv
         /\ approved \subseteq Node /\ variant \in [Staged -> Variants]
         /\ disk \in [Node -> [Artifact -> Disk]] /\ job \in [Node -> Jobs]
         /\ cache \in [Node -> [Artifact -> Caches]]
         /\ status \in [Deployment -> DeploymentStatus]
         /\ record \in Records
  BY DEF PreparationInv, Tables, TypeOK, Records

(* Queues, records and preparations stay. *)
LEMMA NoWork ==
  ASSUME PreparationInv, UNCHANGED <<prep, record, queue>>
  PROVE  Work /\ QuarantinesStay /\ NoVerifyAdded
  BY InvParts, WorkUnchanged, NothingAdded

(* A variant that is not validated may be given a new status. *)
LEMMA SetVariantMoves ==
  ASSUME PreparationInv, NEW a \in Staged, NEW v \in Variants, SetVariant(a, v),
         variant[a].status # "VALIDATED", v.status = "VALIDATED" => v.gpu = "PASSED"
  PROVE  Moves
<1>1. variant' = [variant EXCEPT ![a] = v]
      /\ UNCHANGED <<approved, status, prep, record, queue, cache, disk, job>>
  BY DEF SetVariant
<1>2. Work /\ QuarantinesStay /\ NoVerifyAdded
  BY <1>1, NoWork
<1>3. RowsKept /\ StatusesMove /\ JobsMove
  BY <1>1, <1>2, InvParts, StatusFrame, RowsFrame, JobFrame
<1>4. VariantsMove
  BY <1>1, InvParts DEF VariantsMove, Validated, Measured, ReadyInv
<1>5. \A b : Validated(b) => Validated(b)'
  BY <1>1, InvParts DEF Validated
<1>6. CachesMove
  BY <1>1, <1>2, <1>3, <1>5, InvParts, CacheFrame
<1> QED
  BY <1>1, <1>2, <1>3, <1>4, <1>6, InvParts DEF Moves

(* Registering a variant, its evidence and its validation. *)
LEMMA RegistryMoves ==
  ASSUME PreparationInv, NEW a \in Staged,
         RegisterVariant(a) \/ ValidateVariant(a)
           \/ (\E st \in {"PASSED", "FAILED"} : RegisterEvidence(a, st))
  PROVE  Moves
<1> DEFINE v == variant[a]
<1>1. v \in Variants
  BY InvParts
<1>2. CASE RegisterVariant(a)
  <2>1. [v EXCEPT !.status = "DRAFT"] \in Variants /\ [v EXCEPT !.status = "DRAFT"].status = "DRAFT"
    BY <1>1 DEF Variants
  <2>2. v.status # "VALIDATED" /\ SetVariant(a, [v EXCEPT !.status = "DRAFT"])
    BY <1>2 DEF RegisterVariant
  <2> QED
    BY <2>1, <2>2, SetVariantMoves
<1>3. CASE ValidateVariant(a)
  <2> DEFINE w == [v EXCEPT !.status = "VALIDATED"]
  <2>1. w \in Variants /\ w.gpu = v.gpu
    BY <1>1 DEF Variants
  <2>2. v.status # "VALIDATED" /\ v.gpu = "PASSED" /\ SetVariant(a, w)
    BY <1>3 DEF ValidateVariant
  <2> HIDE DEF w
  <2> QED
    BY <2>1, <2>2, SetVariantMoves
<1>4. CASE \E st \in {"PASSED", "FAILED"} : RegisterEvidence(a, st)
  <2> PICK st \in {"PASSED", "FAILED"} : RegisterEvidence(a, st)
    BY <1>4
  <2> DEFINE w == [v EXCEPT !.gpu = st]
  <2>1. w \in Variants /\ w.status = v.status
    BY <1>1 DEF Variants, GpuEvidence
  <2>2. v.status = "DRAFT" /\ SetVariant(a, w)
    BY DEF RegisterEvidence, TakesEvidence
  <2> HIDE DEF w
  <2> QED
    BY <2>1, <2>2, SetVariantMoves
<1> QED
  BY <1>2, <1>3, <1>4

(* Revoking a variant makes every row of the artifact STALE. *)
LEMMA RevokeVariantMoves ==
  ASSUME PreparationInv, NEW a \in Staged, RevokeVariant(a)
  PROVE  Moves
<1> DEFINE f(n) == IF cache[n][a].status = "NONE" THEN cache[n][a]
                                                ELSE Demoted(cache[n][a], "STALE")
           row == [n \in Node |-> [cache[n] EXCEPT ![a] = f(n)]]
<1>1. /\ variant' = [variant EXCEPT ![a].status = "REVOKED"] /\ cache' = row
      /\ UNCHANGED <<approved, status, prep, record, queue, disk, job>>
  BY DEF RevokeVariant
<1>2. ASSUME NEW n \in Node
      PROVE  /\ f(n) \in Caches /\ f(n).by = cache[n][a].by /\ f(n).pending = cache[n][a].pending
             /\ f(n).status # "READY"
  <2>1. cache[n][a] \in Caches /\ "STALE" \in CacheStatus \ {"READY"}
    BY InvParts, PlanAssumption DEF CacheStatus, Priority
  <2> QED
    BY <2>1, DemotedRow
<1> HIDE DEF f
<1>3. ASSUME NEW n \in Node
      PROVE  /\ row[n] \in [Artifact -> Caches]
             /\ \A b \in Artifact : row[n][b] = IF b = a THEN f(n) ELSE cache[n][b]
  BY <1>2, InvParts
<1>4. cache' = [n \in Node |-> row[n]]
  BY <1>1
<1> HIDE DEF row
<1>5. RowsKept
  <2>1. cache' \in [Node -> [Artifact -> Caches]] /\ \A n \in Node : cache'[n] = row[n]
    BY <1>3, <1>4
  <2> QED
    BY <1>2, <1>3, <2>1 DEF RowsKept, RowKept
<1>6. Work /\ QuarantinesStay /\ NoVerifyAdded
  BY <1>1, NoWork
<1>7. StatusesMove /\ JobsMove
  BY <1>1, <1>5, <1>6, InvParts, StatusFrame, JobFrame
<1>8. variant' \in [Staged -> Variants]
      /\ \A b \in Staged : IF b = a THEN variant'[b].status = "REVOKED" ELSE variant'[b] = variant[b]
  BY <1>1, InvParts DEF Variants
<1>9. VariantsMove
  BY <1>8, InvParts DEF VariantsMove, Validated, Measured, ReadyInv
<1>10. ASSUME NEW n \in Node, NEW b \in Artifact, cache'[n][b].status = "READY", Validated(b)
       PROVE  Validated(b)'
  <2>1. b # a
    BY <1>2, <1>3, <1>4, <1>10
  <2> QED
    BY <1>8, <1>10, <2>1 DEF Validated
<1>11. CachesMove
  BY <1>1, <1>5, <1>6, <1>10, InvParts, CacheFrame
<1> QED
  BY <1>1, <1>6, <1>7, <1>9, <1>11, InvParts DEF Moves

(* A deployment is accepted only where no quarantine is under way. *)
LEMMA AcceptMoves ==
  ASSUME PreparationInv, NEW d \in Deployment, Accept(d)
  PROVE  Moves
<1>1. /\ status[d] = "ABSENT" /\ status' = [status EXCEPT ![d] = "CREATED"]
      /\ NoLiveQuarantine(Assigned[d]) /\ (Previous[d] # NoDeployment => IsLatest(Previous[d]))
      /\ UNCHANGED <<approved, prep, record, queue, cache, variant, disk, job>>
  BY DEF Accept
<1>2. Work /\ QuarantinesStay /\ NoVerifyAdded
  BY <1>1, NoWork
<1>3. RowsKept /\ JobsMove /\ VariantsMove
  BY <1>1, InvParts, RowsFrame, JobFrame, VariantFrame
<1>4. CachesMove
  BY <1>1, <1>2, <1>3, InvParts, VariantFrame, CacheFrame
<1>5. StatusesMove
  <2>1. \A e \in Deployment : ~AddsVerify(e)
    BY <1>2 DEF NoVerifyAdded, AddsVerify
  <2>2. status' \in [Deployment -> DeploymentStatus]
        /\ status'[d] = "CREATED" /\ \A e \in Deployment : e # d => status'[e] = status[e]
    BY <1>1, InvParts DEF DeploymentStatus
  <2> QED
    BY <1>1, <2>1, <2>2 DEF StatusesMove, StatusMoves
<1> QED
  BY <1>1, <1>2, <1>3, <1>4, <1>5, InvParts DEF Moves

(* A node whose credential is rotated keeps its rows. *)
LEMMA RotateMoves ==
  ASSUME PreparationInv, NEW n \in Node, Rotate(n)
  PROVE  Moves
<1>1. /\ approved' \subseteq Node
      /\ UNCHANGED <<status, prep, record, queue, cache, variant, disk, job>>
  BY InvParts DEF Rotate
<1>2. Work /\ QuarantinesStay /\ NoVerifyAdded
  BY <1>1, NoWork
<1>3. RowsKept /\ JobsMove /\ VariantsMove /\ StatusesMove
  BY <1>1, <1>2, InvParts, RowsFrame, JobFrame, VariantFrame, StatusFrame
<1>4. CachesMove
  BY <1>1, <1>2, <1>3, InvParts, VariantFrame, CacheFrame
<1> QED
  BY <1>1, <1>2, <1>3, <1>4 DEF Moves

(* The control plane stays, a disk changes in place, and jobs move. *)
LEMMA AgentOnly ==
  ASSUME PreparationInv, UNCHANGED control, JobsMove,
         \A n \in Node, a \in Artifact : cache[n][a].status = "READY" /\ Usable(disk[n][a])
           => Usable(disk'[n][a])
  PROVE  Moves
<1>1. UNCHANGED <<approved, status, prep, record, queue, cache, variant>>
  BY DEF control
<1>2. Work /\ QuarantinesStay /\ NoVerifyAdded
  BY <1>1, NoWork
<1>3. RowsKept /\ VariantsMove /\ StatusesMove
  BY <1>1, <1>2, InvParts, RowsFrame, VariantFrame, StatusFrame
<1>4. CachesMove
  BY <1>1, <1>2, <1>3, InvParts, VariantFrame, CacheFrame
<1> QED
  BY <1>1, <1>2, <1>3, <1>4, InvParts DEF Moves

(* An idle agent holds no task and has observed nothing. *)
LEMMA IdleJob == Idle \in Jobs /\ Nothing \in [Artifact -> Disk]
  BY DEF Idle, Jobs, Nothing, Disk

(* An agent that crashes forgets its job. *)
LEMMA CrashMoves ==
  ASSUME PreparationInv, NEW n \in Node, Crash(n)
  PROVE  Moves
<1>1. job' = [job EXCEPT ![n] = Idle] /\ UNCHANGED <<control, disk>>
  BY DEF Crash
<1>2. job' \in [Node -> Jobs] /\ job'[n] = Idle /\ \A m \in Node : m # n => job'[m] = job[m]
  BY <1>1, InvParts, IdleJob
<1>3. JobsMove
  BY <1>1, <1>2, InvParts DEF JobsMove, JobMoves, control
<1> QED
  BY <1>1, <1>3, AgentOnly

(* A damaged artifact is noticed by nobody yet. *)
LEMMA DamageMoves ==
  ASSUME PreparationInv, NEW n \in Node, NEW a \in Artifact, Damage(n, a)
  PROVE  Moves
<1>1. disk' = [disk EXCEPT ![n][a] = "DAMAGED"] /\ UNCHANGED <<control, job>>
  BY DEF Damage
<1>2. /\ disk' \in [Node -> [Artifact -> Disk]]
      /\ \A m \in Node, b \in Artifact : disk'[m][b] = IF m = n /\ b = a THEN "DAMAGED" ELSE disk[m][b]
  BY <1>1, InvParts DEF Disk
<1>3. \A m \in Node, b \in Artifact : Usable(disk[m][b]) => Usable(disk'[m][b])
  BY <1>2 DEF Usable
<1>4. JobsMove
  BY <1>1, <1>2, <1>3, InvParts DEF JobsMove, JobMoves, control
<1> QED
  BY <1>1, <1>3, <1>4, AgentOnly

(* An agent asks for the artifact of its task. *)
LEMMA FetchMoves ==
  ASSUME PreparationInv, NEW n \in Node, Fetch(n)
  PROVE  Moves
<1> DEFINE st == IF Served(n, queue[n][job[n].id]) THEN "FETCHED" ELSE "DONE"
           j == [job[n] EXCEPT !.step = st]
<1>1. job' = [job EXCEPT ![n] = j] /\ UNCHANGED <<control, disk>> /\ job[n].step = "CLAIMED"
      /\ queue[n][job[n].id].kind = "MODEL"
  BY DEF Fetch
<1>2. st \in {"FETCHED", "DONE"} /\ job[n] \in Jobs
  BY InvParts
<1> HIDE DEF st
<1>3. j \in Jobs /\ j.id = job[n].id /\ j.ok = job[n].ok /\ j.step = st
  BY <1>2 DEF Jobs
<1> HIDE DEF j
<1>4. job' \in [Node -> Jobs] /\ job'[n] = j /\ \A m \in Node : m # n => job'[m] = job[m]
  BY <1>1, <1>3, InvParts
<1>5. job[n].id \in TaskIds(n) /\ job[n].ok = FALSE
  BY <1>1, InvParts DEF JobInv, JobOK
<1>6. JobOK(n)'
  BY <1>1, <1>3, <1>4, <1>5 DEF JobOK, control, TaskIds
<1>7. JobsMove
  BY <1>1, <1>4, <1>6, InvParts DEF JobsMove, JobMoves, control
<1> QED
  BY <1>1, <1>7, AgentOnly

(* What the agent does to the disk. *)
LEMMA CarriedDisk ==
  ASSUME NEW n, NEW t, NEW ok \in BOOLEAN, Carried(n, t, ok)
  PROVE  /\ t.kind = "MODEL" /\ ok = TRUE => disk' = [disk EXCEPT ![n][t.art] = "GOOD"]
         /\ t.kind = "QUARANTINE" /\ ok = TRUE => disk' = [disk EXCEPT ![n][t.art] = "MOVED"]
         /\ t.kind \notin {"MODEL", "QUARANTINE"} \/ ok = FALSE => disk' = disk
<1> DEFINE here == disk[n][t.art]
           A == here # "DAMAGED" /\ disk' = [disk EXCEPT ![n][t.art] = "GOOD"]
           B == here # "EMPTY" /\ disk' = [disk EXCEPT ![n][t.art] = "MOVED"]
           C == here \in {"GOOD", "DAMAGED"} /\ disk' = disk
           D == disk' = disk
<1>1. (CASE t.kind = "MODEL" /\ ok -> A
         [] t.kind = "QUARANTINE" /\ ok -> B
         [] t.kind = "VERIFY" /\ ok -> C
         [] OTHER -> D)
  BY DEF Carried
<1> HIDE DEF A, B, C, D
<1>2. /\ t.kind = "MODEL" => t.kind # "QUARANTINE" /\ t.kind # "VERIFY"
      /\ t.kind = "QUARANTINE" => t.kind # "VERIFY"
  OBVIOUS
<1>3. CASE t.kind = "MODEL" /\ ok
  <2>1. A
    BY <1>1, <1>2, <1>3, Zenon
  <2> QED
    BY <1>3, <2>1 DEF A
<1>4. CASE t.kind = "QUARANTINE" /\ ok
  <2>1. B
    BY <1>1, <1>2, <1>4, Zenon
  <2> QED
    BY <1>4, <2>1 DEF B
<1>5. CASE t.kind = "VERIFY" /\ ok
  <2>1. C
    BY <1>1, <1>2, <1>5, Zenon
  <2> QED
    BY <1>5, <2>1 DEF C
<1>6. CASE ~ok \/ t.kind \notin {"MODEL", "QUARANTINE", "VERIFY"}
  <2>1. D
    BY <1>1, <1>6, Zenon
  <2> QED
    BY <1>6, <2>1 DEF D
<1> QED
  BY <1>3, <1>4, <1>5, <1>6

(* An agent carries its task out on its disk. *)
LEMMA CarryOutMoves ==
  ASSUME PreparationInv, NEW n \in Node, NEW ok \in BOOLEAN, CarryOut(n, ok)
  PROVE  Moves
<1> DEFINE t == queue[n][job[n].id]
           seen == IF t.kind = "PROBE" THEN disk[n] ELSE Nothing
           j == [job[n] EXCEPT !.step = "DONE", !.ok = ok, !.seen = seen]
<1>1. /\ job' = [job EXCEPT ![n] = j] /\ UNCHANGED control /\ Carried(n, t, ok)
      /\ job[n].step # "IDLE"
  BY DEF CarryOut
<1>2. seen \in [Artifact -> Disk] /\ job[n] \in Jobs
  BY InvParts, IdleJob
<1> HIDE DEF seen
<1>3. j \in Jobs /\ j.id = job[n].id /\ j.ok = ok /\ j.step = "DONE"
  BY <1>2 DEF Jobs
<1> HIDE DEF j
<1>4. job' \in [Node -> Jobs] /\ job'[n] = j /\ \A m \in Node : m # n => job'[m] = job[m]
  BY <1>1, <1>3, InvParts
<1>5. /\ job[n].id \in TaskIds(n)
      /\ t.kind = "QUARANTINE" => cache[n][t.art].status # "READY"
  BY <1>1, InvParts DEF JobInv, JobOK
<1>6. t.kind \in {"MODEL", "QUARANTINE"} => t.art \in Artifact
  BY <1>5, InvParts, ArtifactTask
<1>7. /\ disk' \in [Node -> [Artifact -> Disk]]
      /\ \A m \in Node : m # n => disk'[m] = disk[m]
      /\ t.kind = "MODEL" /\ ok = TRUE => disk'[n][t.art] = "GOOD"
      /\ t.kind # "QUARANTINE" => \A a \in Artifact : Usable(disk[n][a]) => Usable(disk'[n][a])
      /\ \A a \in Artifact : a # t.art => disk'[n][a] = disk[n][a]
  <2>1. CASE t.kind = "MODEL" /\ ok = TRUE
    <3>1. disk' = [disk EXCEPT ![n][t.art] = "GOOD"]
      BY <1>1, <2>1, CarriedDisk
    <3> QED
      BY <1>6, <2>1, <3>1, InvParts DEF Disk, Usable
  <2>2. CASE t.kind = "QUARANTINE" /\ ok = TRUE
    <3>1. disk' = [disk EXCEPT ![n][t.art] = "MOVED"]
      BY <1>1, <2>2, CarriedDisk
    <3> QED
      BY <1>6, <2>2, <3>1, InvParts DEF Disk
  <2>3. CASE t.kind \notin {"MODEL", "QUARANTINE"} \/ ok = FALSE
    <3>1. disk' = disk
      BY <1>1, <2>3, CarriedDisk
    <3> QED
      BY <2>3, <3>1, InvParts
  <2> QED
    BY <2>1, <2>2, <2>3
<1>8. JobOK(n)'
  BY <1>1, <1>3, <1>4, <1>5, <1>7 DEF JobOK, control, TaskIds
<1>9. JobsMove
  BY <1>1, <1>4, <1>7, <1>8, InvParts DEF JobsMove, JobMoves, control
<1>10. ASSUME NEW m \in Node, NEW a \in Artifact, cache[m][a].status = "READY", Usable(disk[m][a])
       PROVE  Usable(disk'[m][a])
  BY <1>5, <1>7, <1>10
<1> QED
  BY <1>1, <1>9, <1>10, AgentOnly

----------------------------------------------------------------------------
(* Requests                                                                   *)

(* A preparation is created, and applied at once if asked to. *)
LEMMA CreateMoves ==
  ASSUME PreparationInv, NEW d \in Deployment, NEW apply \in BOOLEAN, Create(d, apply)
  PROVE  Moves
<1>1. /\ prep[d] = "NONE" /\ NodesFree(d)
      /\ UNCHANGED <<approved, status, cache, variant, disk, job>>
  BY DEF Create, SelectedContext
<1>2. CASE apply = TRUE
  <2>1. QueueForApply(d)
    BY <1>2 DEF Create
  <2>2. ASSUME NEW n \in Assigned[d], NEW i \in TaskIds(n), IsLive(queue[n][i])
        PROVE  FALSE
    <3>1. n \in Node
      BY PlanAssumption
    <3>2. queue[n][i].kind \in Stage /\ queue[n][i].dep = d
      BY <1>1, <2>2 DEF NodesFree, Live
    <3>3. record[d][n][queue[n][i].kind].status \in LiveStatus
      BY <2>2, <3>1, <3>2, InvParts, WorkIsLive DEF Works
    <3> QED
      BY <1>1, <3>1, <3>2, <3>3, InvParts DEF RecordInv, Untouched, LiveStatus
  <2>3. /\ Work
        /\ \A n \in Node : \A i \in TaskIds(n) : queue'[n][i] = queue[n][i]
        /\ \A n \in Node : IsAdded(n) => queue'[n][NewId(n)].kind \in Stage
    BY <2>1, <2>2, InvParts, ApplyWork
  <2>4. QuarantinesStay /\ NoVerifyAdded
    BY <2>3 DEF QuarantinesStay, NoVerifyAdded, Adds1, Stage
  <2> QED
    BY <1>1, <2>3, <2>4, WorkOnly
<1>3. CASE apply = FALSE
  <2>1. prep' = [prep EXCEPT ![d] = "PREPARED"] /\ UNCHANGED <<record, queue>>
    BY <1>3 DEF Create
  <2>2. QuarantinesStay /\ NoVerifyAdded /\ \A n \in Node : ~IsAdded(n)
    BY <2>1, InvParts, NothingAdded
  <2>3. prep \in [Deployment -> PreparationStatus]
    BY InvParts DEF Tables, TypeOK
  <2>4. prep' \in [Deployment -> PreparationStatus] /\ \A e \in Deployment : PrepMoves(e)
    BY <1>1, <2>1, <2>3 DEF PreparationStatus, PrepMoves
  <2>5. QueuesGrow
    BY <2>1, InvParts, GrowsUnchanged
  <2>6. RecordsFollow
    BY <2>1, <2>2, <2>4, InvParts, RecordsStay
  <2> QED
    BY <1>1, <2>2, <2>5, <2>6, WorkOnly DEF Work
<1> QED
  BY <1>2, <1>3

(* A preparation at rest is applied (again): its missing attempts are queued. *)
LEMMA ApplyMoves ==
  ASSUME PreparationInv, NEW d \in Deployment, Apply(d)
  PROVE  Moves
<1>1. /\ AtRest(d) /\ NodesFree(d) /\ QueueForApply(d)
      /\ UNCHANGED <<approved, status, cache, variant, disk, job>>
  BY DEF Apply, SelectedContext
<1>2. ASSUME NEW n \in Assigned[d], NEW i \in TaskIds(n), IsLive(queue[n][i])
      PROVE  FALSE
  <2>1. queue[n][i].kind \in Stage /\ queue[n][i].dep = d /\ i \in Live(n)
    BY <1>1, <1>2 DEF NodesFree, Live
  <2>2. n \in Node
    BY PlanAssumption
  <2>3. <<n, i>> \in LiveOf(d, Stage)
    BY <2>1, <2>2 DEF LiveOf
  <2> QED
    BY <1>1, <2>3 DEF AtRest
<1>3. /\ Work
      /\ \A n \in Node : \A i \in TaskIds(n) : queue'[n][i] = queue[n][i]
      /\ \A n \in Node : IsAdded(n) => queue'[n][NewId(n)].kind \in Stage
  BY <1>1, <1>2, InvParts, ApplyWork
<1>4. QuarantinesStay /\ NoVerifyAdded
  BY <1>3 DEF QuarantinesStay, NoVerifyAdded, Adds1, Stage
<1> QED
  BY <1>1, <1>3, <1>4, WorkOnly

(* Attempts whose leases expired are ended when the preparation is looked at. *)
LEMMA FenceMoves ==
  ASSUME PreparationInv, NEW d \in Deployment, FenceExpired(d)
  PROVE  Moves
<1>1. /\ Work
      /\ \A n \in Node : ~IsAdded(n)
      /\ \A n \in Node : \A i \in TaskIds(n) :
           queue'[n][i] = queue[n][i] \/ queue[n][i].kind \in Stage
  BY InvParts, FenceWork
<1>2. QuarantinesStay /\ NoVerifyAdded
  BY <1>1 DEF QuarantinesStay, NoVerifyAdded, Adds1, Stage
<1>3. UNCHANGED <<approved, status, cache, variant, disk, job>>
  BY DEF FenceExpired
<1> QED
  BY <1>1, <1>2, <1>3, WorkOnly

(* An attempt that expires, or whose task is cancelled, ends. *)
LEMMA EndAttemptMoves ==
  ASSUME PreparationInv, NEW n \in Node, NEW i \in TaskIds(n),
         ExpireAttempt(n, i) \/ CancelAttempt(n, i)
  PROVE  Moves
<1>1. PICK st \in AttemptStatus : EndAttempt(n, i, st)
  BY DEF ExpireAttempt, CancelAttempt, AttemptStatus
<1>2. queue[n][i].kind \in Stage /\ UNCHANGED <<approved, status, cache, variant, disk, job>>
  BY DEF ExpireAttempt, CancelAttempt
<1>3. IsLive(queue[n][i])
  BY InvParts DEF ExpireAttempt, CancelAttempt, Live, QueueInv, TaskOK, IsLive, LiveStatus
<1>4. Work /\ Replaced(n, i, Ended(n, i, st))
  BY <1>1, <1>2, <1>3, InvParts, EndAttemptWork
<1>5. QuarantinesStay /\ NoVerifyAdded
  BY <1>2, <1>4, InvParts, ReplacedStays DEF Stage
<1> QED
  BY <1>2, <1>4, <1>5, WorkOnly

(* A fresh task at the end of one queue. *)
LEMMA OneAdded ==
  ASSUME Tables, NEW n \in Node, NEW t, queue' = [queue EXCEPT ![n] = Append(@, t)]
  PROVE  queue' = [m \in Node |-> IF m \in {n} THEN Append(queue[m], t) ELSE queue[m]]
  BY DEF Tables

(* A probe is requested of a node. *)
LEMMA RequestProbeMoves ==
  ASSUME PreparationInv, NEW n \in Node, RequestProbe(n)
  PROVE  Moves
<1> DEFINE t == NewTask("PROBE", NoDeployment, "NONE", 0)
<1>1. /\ queue' = [queue EXCEPT ![n] = Append(@, t)]
      /\ UNCHANGED <<approved, status, prep, record, cache, variant, disk, job>>
  BY DEF RequestProbe
<1>2. t \in Tasks /\ t.kind = "PROBE" /\ t.status = "QUEUED" /\ t.expired = FALSE
  <2>1. "PROBE" \in {"VERIFY", "QUARANTINE", "PROBE"} /\ NoDeployment \in Deployment \cup {NoDeployment}
        /\ "NONE" \in Artifact \cup {"NONE"}
    OBVIOUS
  <2>2. IsFresh(t, "PROBE", NoDeployment, "NONE")
    BY <2>1, NewTaskFields
  <2> HIDE DEF t
  <2> QED
    BY <2>2 DEF IsFresh
<1> HIDE DEF t
<1>3. TaskOK(n, t) /\ t.kind \notin Stage /\ {n} \in SUBSET Node
  BY <1>2 DEF TaskOK, Stage
<1>4. queue' = [m \in Node |-> IF m \in {n} THEN Append(queue[m], t) ELSE queue[m]]
  BY <1>1, InvParts, OneAdded
<1>5. Work /\ Adds({n}, t)
  BY <1>1, <1>2, <1>3, <1>4, InvParts, AddingWork
<1>6. QuarantinesStay /\ NoVerifyAdded
  BY <1>2, <1>5 DEF QuarantinesStay, NoVerifyAdded, Adds1, Adds
<1> QED
  BY <1>1, <1>5, <1>6, WorkOnly

(* A verification is queued on every node of the deployment. *)
LEMMA VerifyMoves ==
  ASSUME PreparationInv, NEW d \in Deployment, Verify(d)
  PROVE  Moves
<1> DEFINE t == NewTask("VERIFY", d, Identity[d], 0)
<1>1. /\ status[d] # "ABSENT" /\ status' = [status EXCEPT ![d] = "VERIFYING"]
      /\ \A n \in Assigned[d] : \A i \in Live(n) : queue[n][i].kind = "PROBE"
      /\ queue' = [n \in Node |-> IF n \in Assigned[d] THEN Append(queue[n], t) ELSE queue[n]]
      /\ UNCHANGED <<approved, prep, record, cache, variant, disk, job>>
  BY DEF Verify
<1>2. Identity[d] \in Artifact /\ Assigned[d] \in SUBSET Node
  BY PlanAssumption
<1>3. /\ t \in Tasks /\ t.kind = "VERIFY" /\ t.status = "QUEUED" /\ t.expired = FALSE
      /\ t.dep = d /\ t.art = Identity[d]
  <2>1. "VERIFY" \in {"VERIFY", "QUARANTINE", "PROBE"} /\ d \in Deployment \cup {NoDeployment}
        /\ Identity[d] \in Artifact \cup {"NONE"}
    BY <1>2
  <2>2. IsFresh(t, "VERIFY", d, Identity[d])
    BY <2>1, NewTaskFields
  <2> HIDE DEF t
  <2> QED
    BY <2>2 DEF IsFresh
<1> HIDE DEF t
<1>4. t.kind \notin Stage /\ \A n \in Assigned[d] : TaskOK(n, t)
  BY <1>3 DEF TaskOK, Stage
<1>5. \A n \in Assigned[d] : \A i \in TaskIds(n) : ~Busy(queue[n][i])
  BY <1>1 DEF Live, Busy
<1>6. Work /\ Adds(Assigned[d], t)
  BY <1>1, <1>2, <1>3, <1>4, <1>5, InvParts, AddingWork
<1>7. QuarantinesStay
  BY <1>3, <1>6 DEF QuarantinesStay, Adds1, Adds
<1>8. RowsKept /\ JobsMove /\ VariantsMove
  BY <1>1, InvParts, RowsFrame, JobFrame, VariantFrame
<1>9. CachesMove
  BY <1>1, <1>7, <1>8, InvParts, VariantFrame, CacheFrame
<1>10. StatusesMove
  <2>1. status' \in [Deployment -> DeploymentStatus]
        /\ status'[d] = "VERIFYING" /\ \A e \in Deployment : e # d => status'[e] = status[e]
    BY <1>1, InvParts DEF DeploymentStatus
  <2>2. \A e \in Deployment : e # d => ~AddsVerify(e)
    BY <1>2, <1>3, <1>6 DEF AddsVerify, Adds1, Adds
  <2> QED
    BY <1>1, <2>1, <2>2 DEF StatusesMove, StatusMoves
<1> QED
  BY <1>1, <1>6, <1>8, <1>9, <1>10, InvParts DEF Moves

(* A quarantine demotes the row to STALE and queues its task. *)
LEMMA RequestQuarantineMoves ==
  ASSUME PreparationInv, NEW n \in Node, NEW a \in Artifact, RequestQuarantine(n, a)
  PROVE  Moves
<1> DEFINE t == NewTask("QUARANTINE", NoDeployment, a, 0)
           dm == Demoted(cache[n][a], "STALE")
           c == [dm EXCEPT !.pending = Len(queue[n]) + 1]
           row == [cache[n] EXCEPT ![a] = c]
<1>1. /\ queue' = [queue EXCEPT ![n] = Append(@, t)]
      /\ cache' = [cache EXCEPT ![n] = row]
      /\ cache[n][a].status # "NONE" /\ ~Referenced(n, a) /\ Live(n) = {}
      /\ UNCHANGED <<approved, status, prep, record, variant, disk, job>>
  BY DEF RequestQuarantine, Withdrawn
<1>2. /\ t \in Tasks /\ t.kind = "QUARANTINE" /\ t.status = "QUEUED" /\ t.expired = FALSE
      /\ t.art = a
  <2>1. "QUARANTINE" \in {"VERIFY", "QUARANTINE", "PROBE"} /\ NoDeployment \in Deployment \cup {NoDeployment}
        /\ a \in Artifact \cup {"NONE"}
    OBVIOUS
  <2>2. IsFresh(t, "QUARANTINE", NoDeployment, a)
    BY <2>1, NewTaskFields
  <2> HIDE DEF t
  <2> QED
    BY <2>2 DEF IsFresh
<1> HIDE DEF t
<1>3. TaskOK(n, t) /\ t.kind \notin Stage /\ {n} \in SUBSET Node
      /\ \A i \in TaskIds(n) : ~Busy(queue[n][i])
  BY <1>1, <1>2 DEF TaskOK, Stage, Live, Busy
<1>4. queue' = [m \in Node |-> IF m \in {n} THEN Append(queue[m], t) ELSE queue[m]]
  BY <1>1, InvParts, OneAdded
<1>5. Work /\ Adds({n}, t)
  BY <1>1, <1>2, <1>3, <1>4, InvParts, AddingWork
<1>6. NoVerifyAdded
  BY <1>2, <1>5 DEF NoVerifyAdded, Adds1, Adds
<1>7. /\ dm \in Caches /\ dm.status # "READY"
  <2>1. cache[n][a] \in Caches /\ "STALE" \in CacheStatus \ {"READY"}
    BY InvParts DEF CacheStatus, Priority
  <2> QED
    BY <1>1, <2>1, DemotedRow
<1> HIDE DEF dm
<1>8. c \in Caches /\ c.status # "READY" /\ c.pending = NewId(n)
  BY <1>7, InvParts, QueueRows DEF Caches, NewId
<1> HIDE DEF c
<1>9. row \in [Artifact -> Caches] /\ \A b \in Artifact : row[b] = IF b = a THEN c ELSE cache[n][b]
  BY <1>8, InvParts
<1> HIDE DEF row
<1>10. /\ cache' \in [Node -> [Artifact -> Caches]]
       /\ \A m \in Node : cache'[m] = IF m = n THEN row ELSE cache[m]
  BY <1>1, <1>9, InvParts
<1>11. \A m \in Node, b \in Artifact : cache'[m][b] = IF m = n /\ b = a THEN c ELSE cache[m][b]
  BY <1>9, <1>10
<1>12. UnusedOn(n, a)
  BY <1>1 DEF Referenced, UnusedOn
<1>13. VariantsMove /\ StatusesMove
  BY <1>1, <1>6, InvParts, VariantFrame, StatusFrame
<1>14. ASSUME NEW m \in Node, NEW b \in Artifact
       PROVE  PendingMoves(m, b) /\ ReadyMoves(m, b)
  <2>1. CASE m = n /\ b = a
    <3>1. AddsQuarantine(n, a)
      BY <1>2, <1>5 DEF AddsQuarantine, Adds1, Adds
    <3> QED
      BY <1>1, <1>8, <1>11, <1>12, <2>1, <3>1 DEF PendingMoves, ReadyMoves
  <2>2. CASE ~(m = n /\ b = a)
    <3>1. ~AddsQuarantine(m, b)
      BY <1>2, <1>5, <2>2 DEF AddsQuarantine, Adds1, Adds
    <3>2. cache[m][b].pending # 0 => IsLive(queue'[m][cache[m][b].pending])
      BY <1>5, InvParts DEF QuarantineInv, Adds
    <3>3. cache'[m][b] = cache[m][b] /\ (Validated(b) => Validated(b)')
      BY <1>1, <1>11, <2>2, InvParts, VariantFrame
    <3> QED
      BY <1>1, <3>1, <3>2, <3>3 DEF PendingMoves, ReadyMoves
  <2> QED
    BY <2>1, <2>2
<1>15. CachesMove
  BY <1>10, <1>14 DEF CachesMove
<1>16. JobsMove
  <2>1. \A m \in Node, b \in Artifact : cache'[m][b].status = "READY" => cache[m][b].status = "READY"
    BY <1>8, <1>11
  <2> QED
    BY <1>1, <2>1, InvParts DEF JobsMove, JobMoves
<1> QED
  BY <1>1, <1>5, <1>13, <1>15, <1>16, InvParts DEF Moves

----------------------------------------------------------------------------
(* Tasks end                                                                  *)

(* The disk stays; the agent of n may have dropped its job. *)
JobDropped(n) == disk' = disk /\ (job' = job \/ job' = [job EXCEPT ![n] = Idle])

(* An agent that drops its job leaves the other jobs alone. *)
LEMMA JobDroppedFrame ==
  ASSUME PreparationInv, NEW n \in Node, JobDropped(n), RowsKept
  PROVE  JobsMove
<1>1. CASE job' = job
  BY <1>1, InvParts, JobFrame DEF JobDropped
<1>2. CASE job' = [job EXCEPT ![n] = Idle]
  <2>1. job' \in [Node -> Jobs] /\ job'[n] = Idle /\ \A m \in Node : m # n => job'[m] = job[m]
    BY <1>2, InvParts, IdleJob
  <2> QED
    BY <2>1, InvParts DEF JobsMove, JobMoves, JobDropped, RowsKept, RowKept
<1> QED
  BY <1>1, <1>2 DEF JobDropped

(* A verification that ends without success takes its deployment out of VERIFYING. *)
LEMMA EndVerifyMoves ==
  ASSUME PreparationInv, NEW n \in Node, NEW i \in TaskIds(n), NEW st \in AttemptStatus,
         queue[n][i].kind = "VERIFY", IsLive(queue[n][i]), EndVerify(n, i, st),
         UNCHANGED <<approved, variant>>, JobDropped(n)
  PROVE  Moves
<1> DEFINE t == queue[n][i]
           e == Ended(n, i, st)
           q == [queue EXCEPT ![n][i] = e]
<1>1. /\ queue' = q /\ UNCHANGED <<prep, record>>
      /\ status' = [status EXCEPT ![t.dep] = OperationStatus(q, t.dep)]
      /\ cache' = IF st = "FAILED" THEN VerificationFailed(n, t.art) ELSE cache
  BY DEF EndVerify
<1>2. t.dep \in Deployment /\ t.art \in Artifact
  BY InvParts, PlanAssumption DEF QueueInv, TaskOK
<1>3. TaskMoves(t, e)
  BY InvParts, EndedMoves
<1>4. t.kind \notin Stage
  BY DEF Stage
<1> HIDE DEF e
<1>5. Work /\ Replaced(n, i, e)
  BY <1>1, <1>3, <1>4, InvParts, WorkOfOther
<1>6. QuarantinesStay /\ NoVerifyAdded
  BY <1>5, InvParts, ReplacedStays
<1>7. RowsKept
  <2>1. CASE st = "FAILED"
    BY <1>1, <1>2, <2>1, InvParts, FailedRows, SMTT(30) DEF RowsKept, RowKept
  <2>2. CASE st # "FAILED"
    BY <1>1, <2>2, InvParts, RowsFrame
  <2> QED
    BY <2>1, <2>2
<1>8. VariantsMove /\ JobsMove
  BY <1>7, InvParts, VariantFrame, JobDroppedFrame
<1>9. CachesMove
  BY <1>6, <1>7, InvParts, VariantFrame, CacheFrame DEF JobDropped
<1>10. StatusesMove
  <2>1. status[t.dep] = "VERIFYING"
    BY InvParts DEF VerifyInv
  <2>2. OperationStatus(queue', t.dep) \in DeploymentStatus
    BY OperationIs
  <2>3. status' = [status EXCEPT ![t.dep] = OperationStatus(queue', t.dep)]
    BY <1>1
  <2>4. /\ status' \in [Deployment -> DeploymentStatus]
        /\ status'[t.dep] = OperationStatus(queue', t.dep)
        /\ \A d \in Deployment : d # t.dep => status'[d] = status[d]
    BY <1>2, <2>2, <2>3, InvParts
  <2>5. \A d : ~AddsVerify(d)
    BY <1>6 DEF NoVerifyAdded, AddsVerify
  <2> QED
    BY <2>1, <2>4, <2>5 DEF StatusesMove, StatusMoves
<1> QED
  BY <1>5, <1>8, <1>9, <1>10, InvParts DEF Moves

(* A verification that expires or is cancelled. *)
LEMMA ExpireVerifyMoves ==
  ASSUME PreparationInv, NEW n \in Node, NEW i \in TaskIds(n),
         ExpireVerify(n, i) \/ CancelVerify(n, i)
  PROVE  Moves
<1>1. PICK st \in AttemptStatus : EndVerify(n, i, st)
  BY DEF ExpireVerify, CancelVerify, AttemptStatus
<1>2. queue[n][i].kind = "VERIFY" /\ UNCHANGED <<approved, variant, disk, job>>
  BY DEF ExpireVerify, CancelVerify
<1>3. IsLive(queue[n][i])
  BY InvParts DEF ExpireVerify, CancelVerify, Live, QueueInv, TaskOK, IsLive, LiveStatus
<1> QED
  BY <1>1, <1>2, <1>3, EndVerifyMoves DEF JobDropped

(* A quarantine ends, and the row forgets the request. *)
LEMMA EndQuarantineMoves ==
  ASSUME PreparationInv, NEW n \in Node, NEW i \in TaskIds(n), NEW st \in AttemptStatus,
         NEW done \in BOOLEAN, queue[n][i].kind = "QUARANTINE", IsLive(queue[n][i]),
         st \notin LiveStatus, queue' = [queue EXCEPT ![n][i] = Ended(n, i, st)],
         cache' = Completed(n, queue[n][i].art, i, done),
         UNCHANGED <<approved, status, prep, record, variant>>, JobDropped(n)
  PROVE  Moves
<1> DEFINE a == queue[n][i].art
           e == Ended(n, i, st)
           s == IF done THEN "QUARANTINED" ELSE cache[n][a].status
           c == [cache[n][a] EXCEPT !.status = s, !.pending = 0]
           row == [cache[n] EXCEPT ![a] = c]
<1>1. a \in Artifact /\ i # 0
  BY InvParts, QueueRows DEF QueueInv, TaskOK
<1>2. cache[n][a].pending = i
  BY InvParts DEF QuarantineInv
<1>3. cache[n][a].status # "READY"
  BY <1>1, <1>2, InvParts DEF ReadyInv, ReadyOK
<1>4. s \in CacheStatus \cup {"NONE"} /\ s # "READY" /\ cache[n][a] \in Caches
  BY <1>1, <1>3, InvParts DEF Caches, CacheStatus, Priority
<1>5. cache' = [cache EXCEPT ![n] = row]
  BY DEF Completed
<1> HIDE DEF s
<1>6. c \in Caches /\ c.status # "READY" /\ c.pending = 0
  BY <1>4 DEF Caches
<1> HIDE DEF c
<1>7. row \in [Artifact -> Caches] /\ \A b \in Artifact : row[b] = IF b = a THEN c ELSE cache[n][b]
  BY <1>1, <1>6, InvParts
<1> HIDE DEF row
<1>8. /\ cache' \in [Node -> [Artifact -> Caches]]
      /\ \A m \in Node : cache'[m] = IF m = n THEN row ELSE cache[m]
  BY <1>5, <1>7, InvParts
<1>9. \A m \in Node, b \in Artifact : cache'[m][b] = IF m = n /\ b = a THEN c ELSE cache[m][b]
  BY <1>7, <1>8
<1>10. TaskMoves(queue[n][i], e) /\ e.status = st
  BY InvParts, EndedMoves
<1>11. queue[n][i].kind \notin Stage /\ queue' = [queue EXCEPT ![n][i] = e]
  BY DEF Stage
<1> HIDE DEF e
<1>12. Work /\ Replaced(n, i, e)
  BY <1>10, <1>11, InvParts, WorkOfOther
<1>13. \A m \in Node : ~IsAdded(m)
  BY <1>12, InvParts, QueueRows DEF Replaced, IsAdded, NewId
<1>14. NoVerifyAdded /\ \A m \in Node, b \in Artifact : ~AddsQuarantine(m, b)
  BY <1>13 DEF NoVerifyAdded, AddsQuarantine, Adds1
<1>15. VariantsMove /\ StatusesMove
  BY <1>14, InvParts, VariantFrame, StatusFrame
<1>16. ASSUME NEW m \in Node, NEW b \in Artifact
       PROVE  PendingMoves(m, b) /\ ReadyMoves(m, b)
  <2>1. CASE m = n /\ b = a
    <3>1. \A j \in TaskIds(n) : queue[n][j].kind = "QUARANTINE" /\ queue[n][j].art = a
            => ~IsLive(queue'[n][j])
      <4> SUFFICES ASSUME NEW j \in TaskIds(n), queue[n][j].kind = "QUARANTINE",
                          queue[n][j].art = a, IsLive(queue'[n][j])
                   PROVE  FALSE
        OBVIOUS
      <4>1. CASE j = i
        BY <1>10, <1>12, <4>1 DEF Replaced, IsLive
      <4>2. CASE j # i
        <5>1. IsLive(queue[n][j])
          BY <1>12, <4>2 DEF Replaced
        <5> QED
          BY <1>2, <4>2, <5>1, InvParts DEF QuarantineInv
      <4> QED
        BY <4>1, <4>2
    <3>2. cache'[n][a] = c
      BY <1>1, <1>9
    <3> QED
      BY <1>6, <1>14, <2>1, <3>1, <3>2 DEF PendingMoves, ReadyMoves
  <2>2. CASE ~(m = n /\ b = a)
    <3>1. ASSUME cache[m][b].pending # 0
          PROVE  IsLive(queue'[m][cache[m][b].pending])
      <4> DEFINE p == cache[m][b].pending
      <4>1. /\ p \in TaskIds(m) /\ IsLive(queue[m][p]) /\ queue[m][p].art = b
        BY <3>1, InvParts DEF QuarantineInv
      <4>2. queue'[m][p] = queue[m][p]
        BY <1>12, <2>2, <4>1 DEF Replaced
      <4> QED
        BY <4>1, <4>2
    <3>2. cache'[m][b] = cache[m][b] /\ (Validated(b) => Validated(b)') /\ disk' = disk
      BY <1>9, <2>2, InvParts, VariantFrame DEF JobDropped
    <3> QED
      BY <1>14, <3>1, <3>2 DEF PendingMoves, ReadyMoves
  <2> QED
    BY <2>1, <2>2
<1>17. CachesMove
  BY <1>8, <1>16 DEF CachesMove
<1>18. JobsMove
  <2>1. \A m \in Node, b \in Artifact : cache'[m][b].status = "READY" => cache[m][b].status = "READY"
    BY <1>6, <1>9
  <2>2. CASE job' = job
    BY <2>1, <2>2, InvParts DEF JobsMove, JobMoves, JobDropped
  <2>3. CASE job' = [job EXCEPT ![n] = Idle]
    <3>1. job' \in [Node -> Jobs] /\ job'[n] = Idle /\ \A m \in Node : m # n => job'[m] = job[m]
      BY <2>3, InvParts, IdleJob
    <3> QED
      BY <2>1, <3>1, InvParts DEF JobsMove, JobMoves, JobDropped
  <2> QED
    BY <2>2, <2>3 DEF JobDropped
<1> QED
  BY <1>12, <1>15, <1>17, <1>18, InvParts DEF Moves

(* A cancelled quarantine leaves the row STALE and unclaimed. *)
LEMMA CancelQuarantineMoves ==
  ASSUME PreparationInv, NEW n \in Node, NEW i \in TaskIds(n), CancelQuarantine(n, i)
  PROVE  Moves
<1>1. /\ queue[n][i].kind = "QUARANTINE" /\ IsLive(queue[n][i])
      /\ queue' = [queue EXCEPT ![n][i] = Ended(n, i, "CANCELED")]
      /\ cache' = Completed(n, queue[n][i].art, i, FALSE)
      /\ UNCHANGED <<approved, status, prep, record, variant>> /\ JobDropped(n)
  BY DEF CancelQuarantine, Live, JobDropped
<1>2. "CANCELED" \in AttemptStatus /\ "CANCELED" \notin LiveStatus /\ FALSE \in BOOLEAN
  BY DEF AttemptStatus, LiveStatus
<1> QED
  BY <1>1, <1>2, EndQuarantineMoves

(* A node is revoked. *)
LEMMA RevokeMoves ==
  ASSUME PreparationInv, NEW n \in Node, Revoke(n)
  PROVE  Moves
<1> DEFINE row == [i \in TaskIds(n) |-> RevokedTask(queue[n][i])]
           q == [queue EXCEPT ![n] = row]
           Hit(d, s) == \E i \in Live(n) : queue[n][i].dep = d /\ queue[n][i].kind = s
           failed == {queue[n][i].art : i \in {j \in Live(n) :
                        queue[n][j].kind = "VERIFY" /\ queue[n][j].status = "RUNNING"}}
           f == [a \in Artifact |-> IF a \in failed THEN VerificationFailed(n, a)[n][a]
                                                   ELSE cache[n][a]]
<1>1. /\ approved' \subseteq Node /\ UNCHANGED <<variant, disk, job>>
      /\ queue' = q
      /\ status' = [d \in Deployment |->
                      IF Hit(d, "VERIFY") THEN OperationStatus(q, d) ELSE status[d]]
      /\ cache' = [cache EXCEPT ![n] = f]
  BY InvParts DEF Revoke
<1>2. /\ Work /\ \A m \in Node : ~IsAdded(m)
      /\ \A m \in Node : \A i \in TaskIds(m) :
           queue'[m][i] = IF m = n THEN RevokedTask(queue[m][i]) ELSE queue[m][i]
  BY InvParts, RevokeWork
<1>3. QuarantinesStay /\ NoVerifyAdded
  <2>1. ASSUME NEW i \in TaskIds(n), queue[n][i].kind = "QUARANTINE"
        PROVE  RevokedTask(queue[n][i]) = queue[n][i]
    BY <2>1, InvParts, RevokedMoves DEF Stage
  <2> QED
    BY <1>2, <2>1 DEF QuarantinesStay, NoVerifyAdded, Adds1
<1> HIDE DEF failed
<1>4. ASSUME NEW a \in Artifact
      PROVE  /\ f[a] \in Caches /\ f[a].by = cache[n][a].by /\ f[a].pending = cache[n][a].pending
             /\ f[a].status = "READY" => cache[n][a].status = "READY"
  BY InvParts, FailedRows
<1>5. f = [a \in Artifact |-> f[a]]
  OBVIOUS
<1> HIDE DEF f
<1>6. /\ cache' \in [Node -> [Artifact -> Caches]]
      /\ \A m \in Node : cache'[m] = IF m = n THEN f ELSE cache[m]
  BY <1>1, <1>4, <1>5, InvParts
<1>7. RowsKept
  BY <1>4, <1>6 DEF RowsKept, RowKept
<1>8. VariantsMove /\ JobsMove
  BY <1>1, <1>7, InvParts, VariantFrame, JobFrame
<1>9. CachesMove
  BY <1>1, <1>3, <1>7, InvParts, VariantFrame, CacheFrame
<1>10. \A d \in Deployment : Hit(d, "VERIFY") => status[d] = "VERIFYING"
  BY InvParts DEF VerifyInv, Live
<1>11. StatusesMove
  <2>1. \A d : OperationStatus(queue', d) \in DeploymentStatus /\ ~AddsVerify(d)
    BY <1>3, OperationIs DEF NoVerifyAdded, AddsVerify
  <2>2. status' = [d \in Deployment |->
                     IF Hit(d, "VERIFY") THEN OperationStatus(queue', d) ELSE status[d]]
    BY <1>1
  <2> HIDE DEF Hit
  <2>3. status' \in [Deployment -> DeploymentStatus]
        /\ \A d \in Deployment :
             status'[d] = IF Hit(d, "VERIFY") THEN OperationStatus(queue', d) ELSE status[d]
    BY <2>1, <2>2, InvParts
  <2> QED
    BY <1>10, <2>1, <2>3 DEF StatusesMove, StatusMoves
<1> QED
  BY <1>1, <1>2, <1>8, <1>9, <1>11 DEF Moves

----------------------------------------------------------------------------
(* Leases and reports                                                         *)

(* An agent leases the task at the head of its queue. *)
LEMMA LeaseMoves ==
  ASSUME PreparationInv, NEW n \in Node, NEW i \in TaskIds(n), Lease(n, i)
  PROVE  Moves
<1> DEFINE u == [queue[n][i] EXCEPT !.status = "RUNNING", !.expired = FALSE]
           j == [Idle EXCEPT !.id = i, !.step = "CLAIMED"]
<1>1. Work /\ IsLive(queue[n][i]) /\ Replaced(n, i, u)
  BY InvParts, LeaseWork
<1>2. job' = [job EXCEPT ![n] = j] /\ UNCHANGED <<approved, status, cache, variant, disk>>
  BY DEF Lease
<1>3. IsLive(u)
  BY InvParts, QueueRows DEF Tasks, IsLive, LiveStatus
<1> HIDE DEF u
<1>4. QuarantinesStay /\ NoVerifyAdded
  BY <1>1, <1>3, InvParts, ReplacedStays
<1>5. RowsKept /\ StatusesMove /\ VariantsMove
  BY <1>2, <1>4, InvParts, RowsFrame, StatusFrame, VariantFrame
<1>6. CachesMove
  BY <1>2, <1>4, <1>5, InvParts, VariantFrame, CacheFrame
<1>7. j \in Jobs /\ j.id = i /\ j.step = "CLAIMED" /\ j.ok = FALSE
  BY InvParts, QueueRows, IdleJob DEF Jobs, Idle
<1> HIDE DEF j
<1>8. job' \in [Node -> Jobs] /\ job'[n] = j /\ \A m \in Node : m # n => job'[m] = job[m]
  BY <1>2, <1>7, InvParts
<1>9. i \in TaskIds(n)' /\ SameWork(queue'[n][i], queue[n][i])
  BY <1>1, InvParts, TasksStay DEF Work
<1>10. queue[n][i].kind = "QUARANTINE" => cache[n][queue[n][i].art].status # "READY"
  BY <1>1, InvParts, QueueRows DEF QueueInv, TaskOK, QuarantineInv, ReadyInv, ReadyOK
<1>11. JobOK(n)'
  BY <1>2, <1>7, <1>8, <1>9, <1>10 DEF JobOK, SameWork
<1>12. JobsMove
  BY <1>2, <1>8, <1>11, InvParts DEF JobsMove, JobMoves
<1> QED
  BY <1>1, <1>2, <1>5, <1>6, <1>12, InvParts DEF Moves

(* A lease runs out. *)
LEMMA LeaseExpiresMoves ==
  ASSUME PreparationInv, NEW n \in Node, NEW i \in TaskIds(n), LeaseExpires(n, i)
  PROVE  Moves
<1> DEFINE u == [queue[n][i] EXCEPT !.expired = TRUE]
<1>1. Work /\ Replaced(n, i, u)
  BY InvParts, LeaseExpiresWork
<1>2. UNCHANGED <<approved, status, cache, variant, disk, job>> /\ queue[n][i].status = "RUNNING"
  BY DEF LeaseExpires
<1>3. IsLive(u)
  BY <1>2, InvParts, QueueRows DEF Tasks, IsLive, LiveStatus
<1> HIDE DEF u
<1>4. QuarantinesStay /\ NoVerifyAdded
  BY <1>1, <1>3, InvParts, ReplacedStays
<1> QED
  BY <1>1, <1>2, <1>4, WorkOnly

(* A heartbeat of an agent at work. *)
LEMMA ExtendMoves ==
  ASSUME PreparationInv, NEW n \in Node, NEW p \in 0 .. Chunks, Extend(n, p)
  PROVE  Moves
<1> DEFINE i == job[n].id
           w == Watermark(queue[n][i], p)
           u == [queue[n][i] EXCEPT !.progress = w]
<1>1. i \in TaskIds(n)
  BY InvParts DEF JobInv, JobOK, Extend
<1>2. Work /\ Replaced(n, i, u)
  BY <1>1, InvParts, ExtendWork
<1>3. UNCHANGED <<approved, status, cache, variant, disk, job>> /\ queue[n][i].status = "RUNNING"
  BY DEF Extend, Served
<1> HIDE DEF w
<1>4. IsLive(u)
  BY <1>1, <1>3, InvParts, QueueRows DEF Tasks, IsLive, LiveStatus
<1> HIDE DEF u
<1>5. QuarantinesStay /\ NoVerifyAdded
  BY <1>1, <1>2, <1>4, InvParts, ReplacedStays
<1> QED
  BY <1>2, <1>3, <1>5, WorkOnly

(* A report that changes nothing but the job. *)
LEMMA IgnoredMoves ==
  ASSUME PreparationInv, NEW n \in Node, job' = [job EXCEPT ![n] = Idle],
         UNCHANGED <<approved, status, prep, record, queue, cache, variant, disk>>
  PROVE  Moves
<1>1. RowsKept /\ JobDropped(n)
  BY InvParts, RowsFrame DEF JobDropped
<1>2. JobsMove
  BY <1>1, JobDroppedFrame
<1> QED
  BY <1>2, AgentOnly DEF control

(* A report that ends an attempt and touches no row. *)
LEMMA AttemptReportMoves ==
  ASSUME PreparationInv, NEW n \in Node, NEW i \in TaskIds(n), NEW st \in AttemptStatus,
         queue[n][i].kind \in Stage, IsLive(queue[n][i]), EndAttempt(n, i, st),
         UNCHANGED <<approved, status, cache, variant>>, JobDropped(n)
  PROVE  Moves
<1>1. Work /\ Replaced(n, i, Ended(n, i, st))
  BY InvParts, EndAttemptWork
<1>2. QuarantinesStay /\ NoVerifyAdded
  BY <1>1, InvParts, ReplacedStays DEF Stage
<1>3. RowsKept /\ StatusesMove /\ VariantsMove
  BY <1>2, InvParts, RowsFrame, StatusFrame, VariantFrame
<1>4. JobsMove
  BY <1>3, JobDroppedFrame
<1>5. CachesMove
  BY <1>2, <1>3, InvParts, VariantFrame, CacheFrame DEF JobDropped
<1> QED
  BY <1>1, <1>3, <1>4, <1>5, InvParts DEF Moves

(* The report of a probe. *)
LEMMA ProbeReportMoves ==
  ASSUME PreparationInv, NEW n \in Node, NEW i \in TaskIds(n), queue[n][i].kind = "PROBE",
         FinishProbe(n, i), UNCHANGED <<approved, variant>>, JobDropped(n)
  PROVE  Moves
<1> DEFINE e == Ended(n, i, "SUCCEEDED")
<1>1. /\ queue[n][i].status = "RUNNING" /\ queue' = [queue EXCEPT ![n][i] = e]
      /\ cache' = Reconciled(n, job[n].seen) /\ UNCHANGED <<status, prep, record>>
  BY DEF FinishProbe
<1>2. TaskMoves(queue[n][i], e) /\ queue[n][i].kind \notin Stage
  BY <1>1, InvParts, EndedMoves DEF IsLive, LiveStatus, AttemptStatus, Stage
<1> HIDE DEF e
<1>3. Work /\ Replaced(n, i, e)
  BY <1>1, <1>2, InvParts, WorkOfOther
<1>4. QuarantinesStay /\ NoVerifyAdded
  BY <1>3, InvParts, ReplacedStays
<1>5. RowsKept
  BY <1>1, InvParts, ReconciledRows
<1>6. StatusesMove /\ VariantsMove /\ JobsMove
  BY <1>1, <1>4, <1>5, InvParts, StatusFrame, VariantFrame, JobDroppedFrame
<1>7. CachesMove
  BY <1>4, <1>5, InvParts, VariantFrame, CacheFrame DEF JobDropped
<1> QED
  BY <1>3, <1>6, <1>7, InvParts DEF Moves

(* The report of a model that is in place makes the row READY. *)
LEMMA ModelReportMoves ==
  ASSUME PreparationInv, NEW n \in Node, job[n].step = "DONE", job[n].ok = TRUE,
         NEW i \in TaskIds(n), i = job[n].id, NEW a \in Artifact, a = queue[n][i].art,
         NEW d \in Deployment, d = queue[n][i].dep, NEW no, no = queue[n][i].no,
         queue[n][i].kind = "MODEL", Acceptable(n, queue[n][i]),
         ModelDone(n, i), UNCHANGED <<approved, status, variant, disk>>,
         job' = [job EXCEPT ![n] = Idle]
  PROVE  Moves
<1> DEFINE t == queue[n][i]
           c == [status |-> "READY", by |-> i, pending |-> 0]
           row == [cache[n] EXCEPT ![a] = c]
<1>1. Usable(disk[n][a])
  BY InvParts DEF JobInv, JobOK, Usable
<1>2. i \in Nat \ {0}
  BY InvParts, QueueRows
<1>3. IsLive(t)
  BY DEF Acceptable, Served, IsLive, LiveStatus
<1>4. /\ Work
      /\ \E v \in Tasks : v.kind = "IMAGE" /\ ReplacedAndAdded(n, i, ModelRow(n, i), v)
      /\ record'[d][n]["MODEL"].status = "SUCCEEDED"
      /\ record'[d][n]["MODEL"].no = no
  BY <1>1, <1>3, InvParts, ModelWork
<1>5. PICK v \in Tasks : v.kind = "IMAGE" /\ ReplacedAndAdded(n, i, ModelRow(n, i), v)
  BY <1>4
<1>6. NoVerifyAdded /\ \A m \in Node, b \in Artifact : ~AddsQuarantine(m, b)
  BY <1>5 DEF NoVerifyAdded, AddsQuarantine, Adds1, ReplacedAndAdded
<1>7. cache' = [cache EXCEPT ![n] = row] /\ Validated(a)
  BY DEF ModelDone, MadeReady, MayBeReady
<1>8. c \in Caches /\ c.status = "READY" /\ c.by = i /\ c.pending = 0
  BY <1>2 DEF Caches, CacheStatus, Priority
<1> HIDE DEF c
<1>9. row \in [Artifact -> Caches] /\ \A b \in Artifact : row[b] = IF b = a THEN c ELSE cache[n][b]
  BY <1>2, <1>8, InvParts
<1> HIDE DEF row
<1>10. /\ cache' \in [Node -> [Artifact -> Caches]]
       /\ \A m \in Node : cache'[m] = IF m = n THEN row ELSE cache[m]
  BY <1>7, <1>9, InvParts
<1>11. \A m \in Node, b \in Artifact : cache'[m][b] = IF m = n /\ b = a THEN c ELSE cache[m][b]
  BY <1>9, <1>10
<1>12. job' \in [Node -> Jobs] /\ job'[n] = Idle /\ \A m \in Node : m # n => job'[m] = job[m]
  BY InvParts, IdleJob
<1>13. VariantsMove /\ StatusesMove /\ \A b : Validated(b)' <=> Validated(b)
  BY <1>6, InvParts, VariantFrame, StatusFrame
<1>14. ReadyOK(n, a)'
  <2>1. /\ TaskMoves(t, ModelRow(n, i)) /\ ModelRow(n, i).status = "SUCCEEDED"
        /\ queue'[n][i] = ModelRow(n, i)
    BY <1>1, <1>3, <1>5, InvParts, ModelRowMoves DEF ReplacedAndAdded
  <2>2. /\ queue'[n][i].kind = "MODEL" /\ queue'[n][i].art = a /\ queue'[n][i].dep = d
        /\ queue'[n][i].no = no /\ queue'[n][i].status = "SUCCEEDED"
    BY <2>1 DEF TaskMoves, SameWork
  <2>3. i \in TaskIds(n)'
    BY <1>1, <1>4, InvParts, TasksStay DEF Work
  <2>4. record'[d][n]["MODEL"] = [status |-> "SUCCEEDED", no |-> no]
    <3>1. record'[d][n]["MODEL"] \in StageRecords
      <4>1. record' \in Records /\ "MODEL" \in Stage
        BY <1>4 DEF Work, RecordsFollow, Stage
      <4> QED
        BY <4>1, RecordAt
    <3> QED
      BY <1>4, <3>1 DEF StageRecords
  <2>5. cache'[n][a] = c /\ Validated(a)'
    BY <1>2, <1>7, <1>11, <1>13
  <2>6. disk'[n][a] \in {"GOOD", "DAMAGED"}
    BY <1>1 DEF Usable
  <2>7. ReadyAttemptCurrent(n, cache[n][a])'
    BY <1>8, <2>2, <2>4, <2>5 DEF ReadyAttemptCurrent
  <2> QED
    BY <1>8, <2>2, <2>3, <2>5, <2>6, <2>7 DEF ReadyOK
<1>15. Reported(n, a)
  BY <1>1, <1>7 DEF Reported, Acceptable
<1>16. \A j \in TaskIds(n) : queue[n][j].kind = "QUARANTINE" => ~IsLive(queue[n][j])
  BY <1>1, <1>3, InvParts DEF QueueInv, OneBusy, Busy
<1>17. ASSUME NEW m \in Node, NEW b \in Artifact
       PROVE  PendingMoves(m, b) /\ ReadyMoves(m, b)
  <2>1. CASE m = n /\ b = a
    <3>1. \A j \in TaskIds(n) : queue[n][j].kind = "QUARANTINE" => queue'[n][j] = queue[n][j]
      BY <1>5 DEF ReplacedAndAdded
    <3>2. PendingMoves(n, a)
      BY <1>2, <1>6, <1>8, <1>11, <1>16, <3>1 DEF PendingMoves
    <3> QED
      BY <1>12, <1>14, <1>15, <2>1, <3>2 DEF ReadyMoves
  <2>2. CASE ~(m = n /\ b = a)
    <3>1. ASSUME cache[m][b].pending # 0
          PROVE  IsLive(queue'[m][cache[m][b].pending])
      <4> DEFINE p == cache[m][b].pending
      <4>1. p \in TaskIds(m) /\ IsLive(queue[m][p]) /\ queue[m][p].kind = "QUARANTINE"
        BY <3>1, InvParts DEF QuarantineInv
      <4>2. queue'[m][p] = queue[m][p]
        BY <1>5, <4>1 DEF ReplacedAndAdded
      <4> QED
        BY <4>1, <4>2
    <3>2. cache'[m][b] = cache[m][b] /\ (Validated(b) => Validated(b)')
      BY <1>11, <1>13, <2>2
    <3> QED
      BY <1>6, <3>1, <3>2 DEF PendingMoves, ReadyMoves
  <2> QED
    BY <2>1, <2>2
<1>18. CachesMove
  BY <1>10, <1>17 DEF CachesMove
<1>19. JobsMove
  BY <1>11, <1>12, InvParts DEF JobsMove, JobMoves
<1> QED
  BY <1>4, <1>13, <1>18, <1>19, InvParts DEF Moves

(* The report of any task: an attempt, a verification, a quarantine or a probe. *)
LEMMA ReportMoves ==
  ASSUME PreparationInv, NEW n \in Node, Report(n)
  PROVE  Moves
<1> DEFINE i == job[n].id
           t == queue[n][i]
<1>1. /\ job[n].step = "DONE" /\ job' = [job EXCEPT ![n] = Idle]
      /\ UNCHANGED <<approved, variant, disk>> /\ JobDropped(n)
  BY DEF Report, JobDropped
<1>2. i \in TaskIds(n) /\ job[n].ok \in BOOLEAN
  BY <1>1, InvParts DEF JobInv, JobOK, Jobs
<1>3. CASE t.kind \in Stage /\ FinishAttempt(n, i, job[n].ok)
  <2>1. CASE Acceptable(n, t) /\ UNCHANGED status
    <3>1. IsLive(t)
      BY <2>1 DEF Acceptable, Served, IsLive, LiveStatus
    <3>2. CASE job[n].ok = TRUE /\ t.kind = "MODEL" /\ ModelDone(n, i)
      <4>1. t.dep \in Deployment /\ t.art \in Artifact
        BY <1>2, <3>2, InvParts, PlanAssumption DEF QueueInv, TaskOK, Stage
      <4> QED
        BY <1>1, <1>2, <2>1, <3>2, <4>1, ModelReportMoves
    <3>3. CASE (EndAttempt(n, i, "SUCCEEDED") \/ EndAttempt(n, i, "FAILED")) /\ UNCHANGED cache
      BY <1>1, <1>2, <1>3, <2>1, <3>1, <3>3, AttemptReportMoves DEF AttemptStatus
    <3> QED
      BY <1>2, <1>3, <2>1, <3>2, <3>3 DEF FinishAttempt
  <2>2. CASE UNCHANGED <<status, prep, record, queue, cache>>
    BY <1>1, <2>2, IgnoredMoves
  <2> QED
    BY <1>3, <2>1, <2>2 DEF FinishAttempt
<1>4. CASE t.kind = "VERIFY" /\ t.status = "RUNNING"
           /\ EndVerify(n, i, IF job[n].ok THEN "SUCCEEDED" ELSE "FAILED")
  <2>1. PICK st \in AttemptStatus : EndVerify(n, i, st)
    BY <1>4 DEF AttemptStatus
  <2>2. IsLive(t)
    BY <1>4 DEF IsLive, LiveStatus
  <2> QED
    BY <1>1, <1>2, <1>4, <2>1, <2>2, EndVerifyMoves
<1>5. CASE t.kind = "QUARANTINE" /\ FinishQuarantine(n, i, job[n].ok)
  <2>1. IsLive(t) /\ UNCHANGED <<status, prep, record>> /\ cache' = Completed(n, t.art, i, job[n].ok)
    BY <1>5 DEF FinishQuarantine, IsLive, LiveStatus
  <2>2. PICK st \in {"SUCCEEDED", "FAILED"} : queue' = [queue EXCEPT ![n][i] = Ended(n, i, st)]
    BY <1>5 DEF FinishQuarantine
  <2>3. st \in AttemptStatus /\ st \notin LiveStatus
    BY DEF AttemptStatus, LiveStatus
  <2> QED
    BY <1>1, <1>2, <1>5, <2>1, <2>2, <2>3, EndQuarantineMoves
<1>6. CASE t.kind = "PROBE" /\ FinishProbe(n, i)
  BY <1>1, <1>2, <1>6, ProbeReportMoves
<1>7. CASE UNCHANGED <<status, prep, record, queue, cache>>
  BY <1>1, <1>7, IgnoredMoves
<1> QED
  BY <1>3, <1>4, <1>5, <1>6, <1>7 DEF Report

----------------------------------------------------------------------------
(* The invariant *)

(* The initial state satisfies the invariant. *)
LEMMA InitPreparation ==
  ASSUME Init
  PROVE  PreparationInv
<1>1. /\ queue = [n \in Node |-> << >>]
      /\ record = [d \in Deployment |-> [n \in Node |-> [s \in Stage |->
                     [status |-> "PREPARED", no |-> 0]]]]
      /\ prep = [d \in Deployment |-> "NONE"]
      /\ cache = [n \in Node |-> [a \in Artifact |-> [status |-> "NONE", by |-> 0, pending |-> 0]]]
      /\ variant = [a \in Staged |-> [status |-> "NONE", gpu |-> "NONE"]]
      /\ job = [n \in Node |-> Idle] /\ disk = [n \in Node |-> Nothing]
      /\ approved = Node
      /\ status = [d \in Deployment |-> IF d \in InitAccepted THEN "CREATED" ELSE "ABSENT"]
  BY DEF Init
<1>2. \A n \in Node : queue[n] \in Seq(Tasks) /\ TaskIds(n) = {}
  BY <1>1 DEF TaskIds
<1>3. TypeOK
  <2>1. record \in [Deployment -> [Node -> [Stage -> StageRecords]]]
    BY <1>1 DEF StageRecords
  <2>2. prep \in [Deployment -> PreparationStatus]
    BY <1>1 DEF PreparationStatus
  <2>3. cache \in [Node -> [Artifact -> Caches]]
    BY <1>1 DEF Caches
  <2>4. variant \in [Staged -> Variants]
    BY <1>1 DEF Variants, GpuEvidence
  <2>5. disk \in [Node -> [Artifact -> Disk]] /\ job \in [Node -> Jobs]
    BY <1>1, IdleJob
  <2> QED
    BY <1>1, <1>2, <2>1, <2>2, <2>3, <2>4, <2>5 DEF TypeOK
<1>4. Tables
  BY <1>1, <1>2, <1>3 DEF Tables, DeploymentStatus
<1>5. QueueInv /\ VerifyInv
  BY <1>2 DEF QueueInv, OneBusy, LastIsLive, VerifyInv
<1>6. RecordInv
  <2>1. \A d \in Deployment, n \in Node, s \in Stage :
          record[d][n][s].status = "PREPARED" /\ record[d][n][s].no = 0
    BY <1>1
  <2>2. \A d \in Deployment : prep[d] = "NONE"
    BY <1>1
  <2> QED
    BY <1>2, <2>1, <2>2
      DEF RecordInv, TaskIsCurrent, RecordHasTask, ImageNeedsModel, Untouched, LiveStatus, Stage
<1>7. \A n \in Node, a \in Artifact : cache[n][a].status = "NONE" /\ cache[n][a].pending = 0
  BY <1>1
<1>8. QuarantineInv /\ JobInv /\ ReadyInv
  <2>1. \A a \in Staged : ~Validated(a)
    BY <1>1 DEF Validated
  <2>2. \A n \in Node : job[n].step = "IDLE"
    BY <1>1 DEF Idle
  <2> QED
    BY <1>2, <1>7, <2>1, <2>2 DEF QuarantineInv, JobInv, JobOK, ReadyInv, ReadyOK
<1> QED
  BY <1>4, <1>5, <1>6, <1>8 DEF PreparationInv

(* Every request of an administrator moves. *)
LEMMA AdminMoves ==
  ASSUME PreparationInv, Admin
  PROVE  Moves
<1>1. CASE \E d \in Deployment : Preparing(d) \/ Accept(d) \/ Verify(d)
  BY <1>1, CreateMoves, FenceMoves, ApplyMoves, AcceptMoves, VerifyMoves DEF Preparing
<1>2. CASE \E n \in Node, a \in Artifact : RequestQuarantine(n, a)
  BY <1>2, RequestQuarantineMoves
<1>3. CASE \E n \in Node : RequestProbe(n) \/ Revoke(n) \/ Rotate(n)
  BY <1>3, RequestProbeMoves, RevokeMoves, RotateMoves
<1>4. CASE \E n \in Node : \E i \in TaskIds(n) :
             CancelAttempt(n, i) \/ CancelVerify(n, i) \/ CancelQuarantine(n, i)
  BY <1>4, EndAttemptMoves, ExpireVerifyMoves, CancelQuarantineMoves
<1>5. CASE \E a \in Staged :
             \/ RegisterVariant(a) \/ ValidateVariant(a) \/ RevokeVariant(a)
             \/ \E st \in {"PASSED", "FAILED"} : RegisterEvidence(a, st)
  <2> PICK a \in Staged : \/ RegisterVariant(a) \/ ValidateVariant(a) \/ RevokeVariant(a)
                          \/ \E st \in {"PASSED", "FAILED"} : RegisterEvidence(a, st)
    BY <1>5
  <2> QED
    BY RegistryMoves, RevokeVariantMoves
<1> QED
  BY <1>1, <1>2, <1>3, <1>4, <1>5 DEF Admin

(* Every step of an agent moves. *)
LEMMA AgentMoves ==
  ASSUME PreparationInv, NEW n \in Node, Agent(n)
  PROVE  Moves
<1>1. CASE \E i \in TaskIds(n) : Lease(n, i)
  BY <1>1, LeaseMoves
<1>2. CASE \E i \in TaskIds(n) : ClaimExpired(n, i)
  BY <1>2, EndAttemptMoves, ExpireVerifyMoves DEF ClaimExpired
<1>3. CASE Fetch(n)
  BY <1>3, FetchMoves
<1>4. CASE \E p \in 0 .. Chunks : Extend(n, p)
  BY <1>4, ExtendMoves
<1>5. CASE \E ok \in BOOLEAN : CarryOut(n, ok)
  BY <1>5, CarryOutMoves
<1>6. CASE Report(n)
  BY <1>6, ReportMoves
<1> QED
  BY <1>1, <1>2, <1>3, <1>4, <1>5, <1>6 DEF Agent

(* Every step moves. *)
LEMMA NextMoves ==
  ASSUME PreparationInv, Next
  PROVE  Moves
<1>1. CASE Admin
  BY <1>1, AdminMoves
<1>2. CASE \E n \in Node : Agent(n)
  BY <1>2, AgentMoves
<1>3. CASE Environment
  BY <1>3, LeaseExpiresMoves, CrashMoves, DamageMoves DEF Environment
<1> QED
  BY <1>1, <1>2, <1>3 DEF Next

(* A stuttering step keeps the invariant and changes neither queue nor cache. *)
LEMMA StuttersMove ==
  ASSUME PreparationInv, UNCHANGED vars
  PROVE  PreparationInv' /\ QueuesGrow /\ cache' = cache
<1>1. UNCHANGED <<approved, status, prep, record, queue, cache, variant, disk, job>>
  BY DEF vars, control
<1>2. Work /\ QuarantinesStay /\ NoVerifyAdded
  BY <1>1, NoWork
<1>3. Moves
  BY <1>1, <1>2, WorkOnly
<1> QED
  BY <1>1, <1>2, <1>3, MovesKeep DEF Work

(* PreparationInv is inductive: every transaction of the control plane, every   *)
(* step of an agent, every crash and every expired lease keeps it.             *)
THEOREM PreparationInvariant == Spec => []PreparationInv
<1>1. Init => PreparationInv
  BY InitPreparation
<1>2. PreparationInv /\ [Next]_vars => PreparationInv'
  <2>1. PreparationInv /\ Next => PreparationInv'
    BY NextMoves, MovesKeep
  <2>2. PreparationInv /\ UNCHANGED vars => PreparationInv'
    BY StuttersMove
  <2> QED
    BY <2>1, <2>2
<1> QED
  BY <1>1, <1>2, PTL DEF Spec

(* Every row keeps the shape and the status values of its table.               *)
THEOREM TypeCorrect == Spec => []TypeOK
<1>1. PreparationInv => TypeOK
  BY DEF PreparationInv, Tables
<1> QED
  BY <1>1, PreparationInvariant, PTL

(* Whatever is retried, fenced, canceled or revoked: a live preparation task is  *)
(* the current attempt of its record, a live record has a task, and images are  *)
(* only queued where the model is complete.                                    *)
THEOREM AttemptsInAgreement == Spec => []AttemptsAgree
<1>1. PreparationInv => AttemptsAgree
  <2> SUFFICES ASSUME PreparationInv PROVE AttemptsAgree
    OBVIOUS
  <2>1. PendingQuarantineHasTask
    BY InvParts DEF PendingQuarantineHasTask, QuarantineInv, Live
  <2>2. ASSUME NEW d \in Deployment, NEW n \in Node
        PROVE  /\ \A i \in Live(n) : queue[n][i].kind \in Stage => AttemptIsCurrent(n, queue[n][i])
               /\ \A s \in Stage : record[d][n][s].status \in LiveStatus =>
                    \E i \in Live(n) : queue[n][i].dep = d /\ queue[n][i].kind = s
               /\ record[d][n]["IMAGE"].no > 0 => record[d][n]["MODEL"].status = "SUCCEEDED"
    BY InvParts DEF RecordInv, TaskIsCurrent, RecordHasTask, ImageNeedsModel, Live
  <2>3. ASSUME NEW d \in Deployment
        PROVE  prep[d] \in LiveStatus <=> LiveOf(d, Stage) # {}
    <3>1. LiveOf(d, Stage) # {} <=> \E n \in Node : \E i \in TaskIds(n) :
            IsLive(queue[n][i]) /\ queue[n][i].dep = d /\ queue[n][i].kind \in Stage
      <4> DEFINE R(n) == {j \in Live(n) : queue[n][j].dep = d /\ queue[n][j].kind \in Stage}
                 W(n) == {<<n, i>> : i \in R(n)}
      <4>1. LiveOf(d, Stage) = UNION {W(n) : n \in Node}
        BY DEF LiveOf
      <4>2. \A n \in Node : W(n) # {} <=> R(n) # {}
        OBVIOUS
      <4>3. \A n \in Node : R(n) # {} <=> \E i \in TaskIds(n) :
              IsLive(queue[n][i]) /\ queue[n][i].dep = d /\ queue[n][i].kind \in Stage
        BY DEF Live
      <4> HIDE DEF W, R
      <4>4. LiveOf(d, Stage) # {} <=> \E n \in Node : W(n) # {}
        BY <4>1
      <4> QED
        BY <4>2, <4>3, <4>4
    <3>2. ASSUME NEW n \in Node, NEW i \in TaskIds(n), IsLive(queue[n][i]),
                 queue[n][i].dep = d, queue[n][i].kind \in Stage
          PROVE  /\ n \in Assigned[d] /\ prep[d] # "NONE"
                 /\ record[d][n][queue[n][i].kind].status \in LiveStatus
      <4>1. record[d][n][queue[n][i].kind].status \in LiveStatus
        BY <3>2, InvParts, WorkIsLive DEF Works
      <4> QED
        BY <3>2, <4>1, InvParts DEF RecordInv, Untouched, LiveStatus
    <3>3. CASE prep[d] = "NONE"
      BY <3>1, <3>2, <3>3 DEF LiveStatus
    <3>4. CASE prep[d] # "NONE"
      <4>1. prep[d] \in LiveStatus <=> \E n \in Assigned[d], s \in Stage :
                                         record[d][n][s].status \in LiveStatus
        <5>1. prep[d] = Derived(record[d], Assigned[d]) /\ Assigned[d] \in SUBSET Node
          BY <3>4, InvParts, PlanAssumption DEF RecordInv
        <5> QED
          BY <5>1, DerivedLive
      <4>2. ASSUME NEW n \in Assigned[d], NEW s \in Stage, record[d][n][s].status \in LiveStatus
            PROVE  LiveOf(d, Stage) # {}
        <5>1. n \in Node
          BY PlanAssumption
        <5>2. RecordHasTask(d, n)
          BY <5>1, InvParts DEF RecordInv
        <5>3. PICK i \in TaskIds(n) : IsLive(queue[n][i]) /\ queue[n][i].dep = d /\ queue[n][i].kind = s
          BY <4>2, <5>2 DEF RecordHasTask
        <5> QED
          BY <3>1, <5>1, <5>3
      <4> QED
        BY <3>1, <3>2, <4>1, <4>2
    <3> QED
      BY <3>3, <3>4
  <2> QED
    BY <2>1, <2>2, <2>3 DEF AttemptsAgree
<1> QED
  BY <1>1, PreparationInvariant, PTL

(* A READY row rests on a current success, a passed GPU test and a directory that *)
(* no quarantine has moved away, however claims, reports and crashes interleave. *)
THEOREM ReadyBacked == Spec => []ReadyIsBacked
<1>1. PreparationInv => ReadyIsBacked
  <2> SUFFICES ASSUME PreparationInv, NEW n \in Node, NEW a \in Artifact,
                      cache[n][a].status = "READY"
               PROVE  /\ HasReadyCache(n, a) /\ Measured(a)
                      /\ queue[n][cache[n][a].by].art = a
                      /\ disk[n][a] \in {"GOOD", "DAMAGED"}
    BY DEF ReadyIsBacked
  <2>1. ReadyOK(n, a)
    BY InvParts DEF ReadyInv
  <2>2. Measured(a)
    BY <2>1, InvParts DEF ReadyOK, ReadyInv, Measured
  <2> QED
    BY <2>1, <2>2 DEF ReadyOK, HasReadyCache
<1> QED
  BY <1>1, PreparationInvariant, PTL

(* What a live quarantine takes away is used by no generation until it ends.    *)
THEOREM QuarantineUnused == Spec => []QuarantinedIsUnused
<1>1. PreparationInv => QuarantinedIsUnused
  <2> SUFFICES ASSUME PreparationInv, NEW n \in Node, NEW i \in Live(n),
                      queue[n][i].kind = "QUARANTINE"
               PROVE  /\ \A j \in Live(n) \ {i} : queue[n][j].kind = "PROBE"
                      /\ \A d \in Deployment : n \in Assigned[d] =>
                           ~Active(d) /\ ~(Referring(d) /\ Identity[d] = queue[n][i].art)
    BY DEF QuarantinedIsUnused
  <2>1. \A j \in Live(n) \ {i} : queue[n][j].kind = "PROBE"
    BY InvParts DEF QueueInv, OneBusy, Busy, Live
  <2>2. UnusedOn(n, queue[n][i].art)
    BY InvParts DEF QuarantineInv, Live
  <2> QED
    BY <2>1, <2>2 DEF UnusedOn
<1> QED
  BY <1>1, PreparationInvariant, PTL

(* No late report revives an attempt that ended, and progress never runs back.   *)
THEOREM EndedStays == Spec => EndedStaysEnded
<1> DEFINE Step == \A n \in Node : \A i \in TaskIds(n) :
             /\ ~IsLive(queue[n][i]) => queue'[n][i] = queue[n][i]
             /\ queue'[n][i].progress >= queue[n][i].progress
<1>1. PreparationInv /\ [Next]_vars => [Step]_vars
  <2> SUFFICES ASSUME PreparationInv, [Next]_vars PROVE Step
    BY Zenon
  <2>1. QueuesGrow
    BY NextMoves, StuttersMove DEF Moves, Work
  <2> QED
    BY <2>1 DEF QueuesGrow, Grows, TaskMoves
<1> QED
  BY <1>1, PreparationInvariant, PTL DEF Spec, EndedStaysEnded

(* A row becomes READY only by the report of a running, unexpired and current    *)
(* MODEL attempt, while the directory is there.                                *)
THEOREM ReadyOnlyBySuccess == Spec => ReadyOnlyByCurrentSuccess
<1> DEFINE Step == \A n \in Node, a \in Artifact :
             cache[n][a].status # "READY" /\ cache'[n][a].status = "READY" =>
               LET t == queue[n][job[n].id]
               IN  /\ job[n].step = "DONE" /\ job[n].ok /\ t.kind = "MODEL" /\ t.art = a
                   /\ Served(n, t) /\ Validated(a) /\ disk[n][a] # "MOVED"
<1>1. PreparationInv /\ [Next]_vars => [Step]_vars
  <2> SUFFICES ASSUME PreparationInv, [Next]_vars PROVE Step
    BY Zenon
  <2> SUFFICES ASSUME NEW n \in Node, NEW a \in Artifact,
                      cache[n][a].status # "READY", cache'[n][a].status = "READY"
               PROVE  LET t == queue[n][job[n].id]
                      IN  /\ job[n].step = "DONE" /\ job[n].ok /\ t.kind = "MODEL" /\ t.art = a
                          /\ Served(n, t) /\ Validated(a) /\ disk[n][a] # "MOVED"
    OBVIOUS
  <2>1. Moves
    BY NextMoves, StuttersMove
  <2>2. Reported(n, a)
    BY <2>1 DEF Moves, CachesMove, ReadyMoves
  <2> QED
    BY <2>2 DEF Reported, Usable
<1> QED
  BY <1>1, PreparationInvariant, PTL DEF Spec, ReadyOnlyByCurrentSuccess
=============================================================================
