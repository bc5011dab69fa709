---------------------------- MODULE AgentProofs ----------------------------
(***************************************************************************)
(* Theorems about Agent, for every bound, every set of task types and      *)
(* every set of administrative requests.                                   *)
(*                                                                         *)
(* The argument rests on the order of the queue: a task runs only when     *)
(* everything older has ended (InOrder).  So while a recorded task still   *)
(* lives no other task is leased, none is recorded after it, its outcome   *)
(* stays in the journal (LiveKept), and a claim of it finds it there.      *)
(* The same fact makes leaving clean: while a recorded stop of the         *)
(* containers waits for its answer, the agent starts none.                 *)
(***************************************************************************)
EXTENDS Agent, SequenceTheorems, TLAPS

InOrder == \A t, u \in Ids : tasks[t].status = "RUNNING" /\ u < t => ~Live(u)

LogTasks == \A e \in log : e.task \in Ids /\ tasks[e.task].status # "QUEUED"

LiveKept == \A e \in log : Live(e.task) => e.task \in completed

CompletedLogged == \A t \in completed : \E e \in log : e.task = t

Once == \A e, f \in log : e.task = f.task => e = f

Fresh == pc \in {"execute", "record"} =>
           /\ tasks[cur].status # "QUEUED"
           /\ \A e \in log : e.task # cur /\ ~Live(e.task)

Successes == \A t \in Ids : tasks[t].status = "SUCCEEDED" =>
               [task |-> t, outcome |-> "complete"] \in log

Journal == LogTasks /\ LiveKept /\ CompletedLogged /\ Once /\ Fresh /\ Successes

PendingLogged == pending \subseteq log
StrayLogged == \A r \in stray : /\ r.op = "REPORT" => r.entry \in log
                                /\ r.op = "RENEW" => r.task \in Ids

AtReport == pc = "report" => Result \in log
AtReplay == pc = "replay" => cur \in completed

Calls == PendingLogged /\ StrayLogged /\ AtReport /\ AtReplay

IInv == TypeOK /\ InOrder /\ Journal /\ Calls

----------------------------------------------------------------------------
(* What a step does to the rows of the queue.                              *)
Status == {"QUEUED", "RUNNING", "SUCCEEDED", "FAILED", "CANCELED"}

Same(q, r, S) == /\ r \in Seq(TaskRow) /\ Len(r) = Len(q)
                 /\ \A u \in 1 .. Len(q) : u \notin S => r[u].status = q[u].status

Kept == Same(tasks, tasks', {})

Leased(t) == /\ t \in Ids /\ ~LeaseRunning /\ Oldest(t)
             /\ Same(tasks, tasks', {t}) /\ tasks'[t].status = "RUNNING"

Ended(S) == /\ S \subseteq Ids /\ Same(tasks, tasks', S)
            /\ \A u \in S : Live(u) /\ tasks'[u].status \in {"FAILED", "CANCELED"}

Succeeded(t) == /\ t \in Ids /\ Same(tasks, tasks', {t})
                /\ tasks[t].status = "RUNNING" /\ tasks'[t].status = "SUCCEEDED"
                /\ [task |-> t, outcome |-> "complete"] \in log

Added == /\ tasks' \in Seq(TaskRow) /\ Len(tasks') = Len(tasks) + 1
         /\ Len(tasks') <= MaxTasks
         /\ \A u \in Ids : tasks'[u].status = tasks[u].status
         /\ tasks'[Len(tasks) + 1].status = "QUEUED"

QueueStep == \/ Kept \/ Added
             \/ \E t \in Ids : Leased(t) \/ Succeeded(t)
             \/ \E S \in SUBSET Ids : Ended(S)

(* The credential keeps its type.                                          *)
Granted == /\ accepted' \in {"HELD", "OTHER", "NONE"}
           /\ approved' \in BOOLEAN /\ left' \in {"no", "task", "command"}

----------------------------------------------------------------------------
SetRow(q, t, s, l) == [q EXCEPT ![t].status = s, ![t].lease = l]
SetStatus(q, t, s) == [q EXCEPT ![t].status = s]
SetLease(q, t, l) == [q EXCEPT ![t].lease = l]

(* Replacing one row of a queue leaves the others.                         *)
LEMMA RowReplaced ==
  ASSUME NEW q \in Seq(TaskRow), NEW t \in 1 .. Len(q), NEW row \in TaskRow
  PROVE  Same(q, [q EXCEPT ![t] = row], {t}) /\ [q EXCEPT ![t] = row][t] = row
<1> DEFINE r == [q EXCEPT ![t] = row]
<1>1. /\ r \in Seq(TaskRow) /\ Len(r) = Len(q)
      /\ \A j \in 1 .. Len(q) : r[j] = IF j = t THEN row ELSE q[j]
  BY ExceptSeq
<1> HIDE DEF r
<1> QED
  BY <1>1 DEF r, Same

(* Replacing the status and the lease of one row.                          *)
LEMMA RowUpdate ==
  ASSUME NEW q \in Seq(TaskRow), NEW t \in 1 .. Len(q), NEW s \in Status,
         NEW l \in 0 .. LeaseTicks
  PROVE  Same(q, SetRow(q, t, s, l), {t}) /\ SetRow(q, t, s, l)[t].status = s
<1> DEFINE row == [q[t] EXCEPT !.status = s, !.lease = l]
<1>1. q[t] \in TaskRow
  OBVIOUS
<1>2. row \in TaskRow /\ row.status = s
  BY <1>1 DEF TaskRow, Status
<1>3. SetRow(q, t, s, l) = [q EXCEPT ![t] = row]
  BY <1>1 DEF TaskRow, SetRow
<1> HIDE DEF row
<1>4. Same(q, [q EXCEPT ![t] = row], {t}) /\ [q EXCEPT ![t] = row][t] = row
  BY <1>2, RowReplaced
<1> QED
  BY <1>2, <1>3, <1>4

(* Replacing the status of one row.                                        *)
LEMMA StatusUpdate ==
  ASSUME NEW q \in Seq(TaskRow), NEW t \in 1 .. Len(q), NEW s \in Status
  PROVE  Same(q, SetStatus(q, t, s), {t}) /\ SetStatus(q, t, s)[t].status = s
<1> DEFINE row == [q[t] EXCEPT !.status = s]
<1>1. q[t] \in TaskRow
  OBVIOUS
<1>2. row \in TaskRow /\ row.status = s
  BY <1>1 DEF TaskRow, Status
<1>3. SetStatus(q, t, s) = [q EXCEPT ![t] = row]
  BY <1>1 DEF TaskRow, SetStatus
<1> HIDE DEF row
<1>4. Same(q, [q EXCEPT ![t] = row], {t}) /\ [q EXCEPT ![t] = row][t] = row
  BY <1>2, RowReplaced
<1> QED
  BY <1>2, <1>3, <1>4

(* Replacing the lease of one row.                                         *)
LEMMA LeaseUpdate ==
  ASSUME NEW q \in Seq(TaskRow), NEW t \in 1 .. Len(q), NEW l \in 0 .. LeaseTicks
  PROVE  Same(q, SetLease(q, t, l), {})
<1> DEFINE row == [q[t] EXCEPT !.lease = l]
<1>1. q[t] \in TaskRow
  OBVIOUS
<1>2. row \in TaskRow /\ row.status = q[t].status
  BY <1>1 DEF TaskRow
<1>3. SetLease(q, t, l) = [q EXCEPT ![t] = row]
  BY <1>1 DEF TaskRow, SetLease
<1> HIDE DEF row
<1>4. Same(q, [q EXCEPT ![t] = row], {t}) /\ [q EXCEPT ![t] = row][t] = row
  BY <1>2, RowReplaced
<1>5. Same(q, SetLease(q, t, l), {t}) /\ SetLease(q, t, l)[t] = row
  BY <1>3, <1>4
<1> QED
  BY <1>2, <1>5 DEF Same

(* An unchanged queue.                                                     *)
LEMMA Unchanged ==
  ASSUME TypeOK, tasks' = tasks
  PROVE  Kept
BY DEF TypeOK, Kept, Same

----------------------------------------------------------------------------
(* A claim leases the oldest claimable task, or fails it.                  *)
LEMMA ClaimShape ==
  ASSUME TypeOK, NEW t \in 0 .. Len(tasks), ServeClaim(t)
  PROVE  /\ Granted
         /\ t # 0 => Leased(t)
         /\ t = 0 => Kept \/ \E u \in Ids : Ended({u})
<1> USE AgentAssumption
<1>1. Granted
  BY DEF ServeClaim, TypeOK, Granted
<1>2. tasks \in Seq(TaskRow) /\ Len(tasks) \in Nat
  BY DEF TypeOK
<1>3. CASE /\ approved /\ ~LeaseRunning /\ Oldest(t)
           /\ tasks' = [tasks EXCEPT ![t].status = "RUNNING", ![t].lease = LeaseTicks]
  <2>1. t \in 1 .. Len(tasks) /\ t # 0
    BY <1>2, <1>3 DEF Oldest, Ids
  <2>2. "RUNNING" \in Status /\ LeaseTicks \in 0 .. LeaseTicks
    BY DEF Status
  <2>4. tasks' = SetRow(tasks, t, "RUNNING", LeaseTicks)
    BY <1>3 DEF SetRow
  <2>3. Same(tasks, tasks', {t}) /\ tasks'[t].status = "RUNNING"
    BY <1>2, <2>1, <2>2, <2>4, RowUpdate
  <2> QED
    BY <1>1, <1>3, <2>1, <2>3 DEF Leased, Ids
<1>4. CASE /\ t = 0
           /\ \E u \in Ids : /\ Oldest(u) /\ tasks[u].kind = "BULK" /\ Expired(u)
                             /\ tasks' = [tasks EXCEPT ![u].status = "FAILED"]
  <2>1. PICK u \in Ids : Expired(u) /\ tasks' = [tasks EXCEPT ![u].status = "FAILED"]
    BY <1>4
  <2>2. "FAILED" \in Status /\ u \in 1 .. Len(tasks)
    BY DEF Status, Ids
  <2>5. tasks' = SetStatus(tasks, u, "FAILED")
    BY <2>1 DEF SetStatus
  <2>4. Same(tasks, tasks', {u}) /\ tasks'[u].status = "FAILED"
    BY <1>2, <2>2, <2>5, StatusUpdate
  <2>3. Ended({u})
    BY <2>1, <2>4 DEF Ended, Expired, Live
  <2> QED
    BY <1>1, <1>4, <2>3
<1>5. CASE t = 0 /\ tasks' = tasks
  BY <1>1, <1>5, Unchanged
<1> QED
  BY <1>3, <1>4, <1>5 DEF ServeClaim

(* A renewal changes no status.                                            *)
LEMMA RenewShape ==
  ASSUME TypeOK, NEW t \in Ids, ServeRenew(t)
  PROVE  Granted /\ Kept
<1> USE AgentAssumption
<1>1. Granted
  BY DEF ServeRenew, TypeOK, Granted
<1>2. CASE tasks' = [tasks EXCEPT ![t].lease = LeaseTicks]
  <2>1. tasks \in Seq(TaskRow) /\ t \in 1 .. Len(tasks) /\ LeaseTicks \in 0 .. LeaseTicks
    BY DEF TypeOK, Ids
  <2>2. tasks' = SetLease(tasks, t, LeaseTicks)
    BY <1>2 DEF SetLease
  <2> QED
    BY <1>1, <2>1, <2>2, LeaseUpdate DEF Kept
<1>3. CASE tasks' = tasks
  BY <1>1, <1>3, Unchanged
<1> QED
  BY <1>2, <1>3 DEF ServeRenew

(* Ending one row.                                                         *)
LEMMA RowEnded ==
  ASSUME TypeOK, NEW t \in Ids, NEW s \in Status, tasks' = SetRow(tasks, t, s, 0)
  PROVE  Same(tasks, tasks', {t}) /\ tasks'[t].status = s
<1>1. tasks \in Seq(TaskRow) /\ t \in 1 .. Len(tasks) /\ 0 \in 0 .. LeaseTicks
  BY AgentAssumption DEF TypeOK, Ids
<1> QED
  BY <1>1, RowUpdate

(* A report ends a running task, as a success only if it is one.           *)
LEMMA ReportShape ==
  ASSUME TypeOK, NEW e \in log, e.task \in Ids, NEW ok, ServeReport(e, ok)
  PROVE  Granted /\ (Kept \/ Succeeded(e.task) \/ Ended({e.task}))
<1> USE AgentAssumption
<1>1. Granted
  BY DEF ServeReport, TypeOK, Granted, MarkUnjoined, Release, server
<1>2. e \in Entry
  BY DEF TypeOK
<1>3. CASE /\ tasks[e.task].status = "RUNNING"
           /\ \E s \in Verdict(tasks[e.task].kind, e.outcome) :
                tasks' = [tasks EXCEPT ![e.task].status = s, ![e.task].lease = 0]
  <2>1. PICK s \in Verdict(tasks[e.task].kind, e.outcome) :
          tasks' = [tasks EXCEPT ![e.task].status = s, ![e.task].lease = 0]
    BY <1>3
  <2>2. s \in Status /\ s \in {"SUCCEEDED", "FAILED"}
    BY DEF Verdict, Status
  <2>3. Same(tasks, tasks', {e.task}) /\ tasks'[e.task].status = s
    <3>1. tasks' = SetRow(tasks, e.task, s, 0)
      BY <2>1 DEF SetRow
    <3> QED
      BY <2>2, <3>1, RowEnded
  <2>4. CASE s = "FAILED"
    <3>1. Ended({e.task})
      BY <1>3, <2>3, <2>4 DEF Ended, Live
    <3> QED
      BY <1>1, <3>1
  <2>5. CASE s = "SUCCEEDED"
    <3>1. e.outcome # "failed"
      BY <2>5, <2>1 DEF Verdict
    <3>2. e = [task |-> e.task, outcome |-> "complete"]
      BY <1>2, <3>1 DEF Entry, Outcome
    <3>3. Succeeded(e.task)
      BY <1>3, <2>3, <2>5, <3>2 DEF Succeeded
    <3> QED
      BY <1>1, <3>3
  <2> QED
    BY <2>2, <2>4, <2>5
<1>4. CASE tasks' = tasks
  BY <1>1, <1>4, Unchanged
<1> QED
  BY <1>3, <1>4 DEF ServeReport, server

(* A request that is not answered changes nothing at the control plane.    *)
LEMMA SilenceShape ==
  ASSUME TypeOK, NEW r, Unanswered(r)
  PROVE  Granted /\ Kept /\ stray' \subseteq stray \cup {r}
<1>1. Granted /\ tasks' = tasks
  BY DEF Unanswered, server, TypeOK, Granted
<1> QED
  BY <1>1, Unchanged DEF Unanswered

----------------------------------------------------------------------------
(* How every step but three treats the process and its calls: the journal  *)
(* only loses pending reports, the process stays where it is or forgets    *)
(* the task it works on.                                                   *)
Moves == \/ UNCHANGED process /\ pending' = pending
         \/ /\ cur' = 0 /\ outcome' = outcome /\ pending' \subseteq pending
            /\ pc' \in {"off", "heartbeat", "claim", "flush", "disable", "retire"}
            /\ pc' = "flush" => pending' # {}

StraySafe == \A r \in stray' :
               \/ r \in stray
               \/ /\ r \in Call \cup Report
                  /\ r.op = "REPORT" => r.entry \in log
                  /\ r.op = "RENEW" => r.task \in Ids

HostTyped == /\ container' \in BOOLEAN /\ registered' \in BOOLEAN /\ service' \in BOOLEAN
             /\ cli' \in {"idle", "disable", "post", "retire"}
             /\ faults' \in 0 .. MaxFaults

Routine == /\ QueueStep /\ Granted /\ HostTyped
           /\ log' = log /\ completed' = completed
           /\ Moves /\ StraySafe

----------------------------------------------------------------------------
(* A step of the queue keeps its order, and no row that has ended or has   *)
(* been leased goes back.                                                  *)
LEMMA QueueFacts ==
  ASSUME TypeOK, InOrder, QueueStep
  PROVE  /\ tasks' \in Seq(TaskRow)
         /\ Len(tasks') \in Nat /\ Len(tasks) \in Nat
         /\ Len(tasks) <= Len(tasks') /\ Len(tasks') <= MaxTasks
         /\ InOrder'
         /\ \A t \in Ids : Live(t)' => Live(t)
         /\ \A t \in Ids : tasks'[t].status = "QUEUED" => tasks[t].status = "QUEUED"
         /\ \A t \in Ids' : tasks'[t].status = "SUCCEEDED" =>
              \/ t \in Ids /\ tasks[t].status = "SUCCEEDED"
              \/ [task |-> t, outcome |-> "complete"] \in log
<1>1. /\ tasks \in Seq(TaskRow) /\ Len(tasks) \in Nat /\ Len(tasks) <= MaxTasks
      /\ MaxTasks \in Nat
  BY AgentAssumption DEF TypeOK
<1>2. \A t \in Ids : tasks[t] \in TaskRow
  BY <1>1 DEF Ids
<1>3. CASE Kept
  BY <1>1, <1>3 DEF Kept, Same, InOrder, Live, Ids
<1>4. CASE Added
  <2>1. \A t \in Ids' : t \in Ids \/ t = Len(tasks) + 1
    BY <1>1, <1>4 DEF Added, Ids
  <2>2. InOrder'
    BY <1>1, <1>4, <2>1 DEF Added, InOrder, Live, Ids
  <2> QED
    BY <1>1, <1>4, <2>1, <2>2 DEF Added, Live, Ids
<1>5. ASSUME NEW t \in Ids, Leased(t) PROVE Live(t) /\ InOrder'
  <2>1. Live(t) /\ \A u \in Ids : u < t => ~Live(u)
    BY <1>1, <1>2, <1>5 DEF Leased, Oldest, Claimable, Expired, LeaseRunning, Live, Ids, TaskRow
  <2>2. \A u \in Ids : u # t => tasks'[u].status # "RUNNING"
    BY <1>1, <1>2, <1>5, <2>1 DEF Leased, Oldest, Claimable, Expired, LeaseRunning, Live, Ids, TaskRow, InOrder, Same
  <2> QED
    BY <1>1, <1>5, <2>1, <2>2 DEF InOrder, Leased, Same, Live, Ids
<1>6. CASE \E t \in Ids : Leased(t)
  BY <1>1, <1>5, <1>6 DEF Leased, Same, Live, Ids
<1>7. CASE \E t \in Ids : Succeeded(t)
  <2>1. PICK t \in Ids : Succeeded(t)
    BY <1>7
  <2>2. /\ tasks' \in Seq(TaskRow) /\ Len(tasks') = Len(tasks)
        /\ \A u \in Ids : u # t => tasks'[u].status = tasks[u].status
    BY <2>1 DEF Succeeded, Same, Ids
  <2>3. /\ tasks[t].status = "RUNNING" /\ tasks'[t].status = "SUCCEEDED"
        /\ [task |-> t, outcome |-> "complete"] \in log
    BY <2>1 DEF Succeeded
  <2>4. \A u \in Ids : Live(u)' => Live(u)
    BY <2>2, <2>3 DEF Live
  <2>5. InOrder'
    BY <1>1, <2>2, <2>3, <2>4 DEF InOrder, Ids
  <2>6. \A u \in Ids' : tasks'[u].status = "SUCCEEDED" =>
              \/ u \in Ids /\ tasks[u].status = "SUCCEEDED"
              \/ [task |-> u, outcome |-> "complete"] \in log
    BY <2>2, <2>3 DEF Ids
  <2> QED
    BY <1>1, <2>2, <2>3, <2>4, <2>5, <2>6
<1>8. CASE \E S \in SUBSET Ids : Ended(S)
  BY <1>1, <1>8, SMTT(30) DEF Ended, Same, Live, InOrder, Ids
<1> QED
  BY <1>3, <1>4, <1>6, <1>7, <1>8 DEF QueueStep

----------------------------------------------------------------------------
(* The types survive a routine step.                                       *)
LEMMA RoutineTypes ==
  ASSUME TypeOK, InOrder, Routine
  PROVE  TypeOK'
<1>1. /\ tasks' \in Seq(TaskRow) /\ Len(tasks') <= MaxTasks
      /\ Ids \subseteq Ids' /\ 0 .. Len(tasks) \subseteq 0 .. Len(tasks')
  BY QueueFacts DEF Routine, Ids
<1>2. /\ accepted' \in {"HELD", "OTHER", "NONE"}
      /\ approved' \in BOOLEAN /\ left' \in {"no", "task", "command"}
      /\ container' \in BOOLEAN /\ registered' \in BOOLEAN /\ service' \in BOOLEAN
      /\ cli' \in {"idle", "disable", "post", "retire"}
      /\ faults' \in 0 .. MaxFaults
  BY DEF Routine, Granted, HostTyped
<1>3. log' \subseteq Entry /\ pending' \subseteq Entry /\ completed' \subseteq Ids
  BY DEF Routine, Moves, TypeOK
<1>4. /\ pc' \in {"off", "heartbeat", "claim", "execute", "record", "report",
                 "flush", "replay", "disable", "retire"}
      /\ cur' \in 0 .. Len(tasks)
      /\ pc' \in {"execute", "record", "report", "replay"} => cur' \in Ids
      /\ pc' = "flush" => pending' # {}
      /\ outcome' \in Outcome
  <2>1. CASE UNCHANGED process /\ pending' = pending
    BY <2>1 DEF process, TypeOK
  <2>2. CASE /\ cur' = 0 /\ outcome' = outcome
             /\ pc' \in {"off", "heartbeat", "claim", "flush", "disable", "retire"}
             /\ pc' = "flush" => pending' # {}
    <3>1. 0 \in 0 .. Len(tasks)
      BY DEF TypeOK
    <3> QED
      BY <2>2, <3>1 DEF TypeOK
  <2> QED
    BY <2>1, <2>2 DEF Routine, Moves
<1>5. stray' \subseteq Call \cup Report
  BY DEF Routine, StraySafe, TypeOK
<1> QED
  BY <1>1, <1>2, <1>3, <1>4, <1>5 DEF TypeOK

(* The invariant survives a routine step.                                  *)
LEMMA RoutinePreserves ==
  ASSUME IInv, Routine
  PROVE  IInv'
<1> USE DEF IInv
<1>1. TypeOK'
  BY RoutineTypes
<1>2. /\ Len(tasks) \in Nat /\ Len(tasks') \in Nat /\ Len(tasks) <= Len(tasks')
      /\ InOrder'
      /\ \A t \in Ids : Live(t)' => Live(t)
      /\ \A t \in Ids : tasks'[t].status = "QUEUED" => tasks[t].status = "QUEUED"
      /\ \A t \in Ids' : tasks'[t].status = "SUCCEEDED" =>
           \/ t \in Ids /\ tasks[t].status = "SUCCEEDED"
           \/ [task |-> t, outcome |-> "complete"] \in log
  BY QueueFacts DEF Routine
<1>3. log' = log /\ completed' = completed /\ Ids \subseteq Ids'
  BY <1>2 DEF Routine, Ids
<1>4. LogTasks'
  BY <1>2, <1>3 DEF Journal, LogTasks
<1>5. LiveKept'
  BY <1>2, <1>3 DEF Journal, LiveKept, LogTasks
<1>6. CompletedLogged' /\ Once'
  BY <1>3 DEF Journal, CompletedLogged, Once
<1>7. Successes'
  BY <1>2, <1>3 DEF Journal, Successes
<1>8. Fresh'
  <2> SUFFICES ASSUME pc' \in {"execute", "record"}
               PROVE  /\ tasks'[cur'].status # "QUEUED"
                      /\ \A e \in log' : e.task # cur' /\ ~Live(e.task)'
    BY DEF Fresh, Live
  <2>1. pc' = pc /\ cur' = cur
    BY DEF Routine, Moves, process
  <2>2. cur \in Ids
    BY <2>1 DEF TypeOK
  <2> QED
    BY <1>2, <1>3, <2>1, <2>2 DEF Journal, Fresh, LogTasks
<1>9. PendingLogged'
  BY <1>3 DEF Routine, Moves, Calls, PendingLogged
<1>10. StrayLogged'
  BY <1>3 DEF Routine, StraySafe, Calls, StrayLogged
<1>11. AtReport' /\ AtReplay'
  BY <1>3 DEF Routine, Moves, process, Calls, AtReport, AtReplay, Result
<1> QED
  BY <1>1, <1>2, <1>4, <1>5, <1>6, <1>7, <1>8, <1>9, <1>10, <1>11 DEF Journal, Calls

(* ... and an execution.                                                   *)
LEMMA ExecutePreserves ==
  ASSUME IInv, NEW o \in Outcome, Execute(o)
  PROVE  IInv'
<1> USE DEF IInv
<1>1. /\ UNCHANGED <<server, journal>> /\ stray' = stray
      /\ pc = "execute" /\ pc' = "record" /\ cur' = cur /\ outcome' = o
  BY DEF Execute
<1>2. tasks' = tasks /\ log' = log /\ completed' = completed /\ pending' = pending
  BY <1>1 DEF server, journal
<1>3. container' \in BOOLEAN
  BY DEF Execute, Effect, TypeOK
<1>4. TypeOK'
  BY <1>1, <1>2, <1>3 DEF Execute, TypeOK, Ids, server
<1>5. InOrder'
  BY <1>2 DEF InOrder, Ids, Live
<1>6. LogTasks' /\ LiveKept' /\ CompletedLogged' /\ Once' /\ Successes'
  BY <1>2 DEF Journal, LogTasks, LiveKept, CompletedLogged, Once, Successes, Ids, Live
<1>7. Fresh'
  BY <1>1, <1>2 DEF Journal, Fresh, Live
<1>8. Calls'
  BY <1>1, <1>2 DEF Calls, PendingLogged, StrayLogged, AtReport, AtReplay, Ids
<1> QED
  BY <1>4, <1>5, <1>6, <1>7, <1>8 DEF Journal

(* ... and the writing of an outcome.                                      *)
LEMMA RecordPreserves ==
  ASSUME IInv, Record
  PROVE  IInv'
<1> USE DEF IInv
<1>1. /\ tasks' = tasks /\ stray' = stray
      /\ pc = "record" /\ pc' = "report" /\ cur' = cur /\ outcome' = outcome
      /\ log' = log \cup {Result} /\ pending' = pending \cup {Result}
      /\ completed' \subseteq completed \cup {cur} /\ cur \in completed'
  BY DEF Record, SaveHistory, server
<1>2. /\ cur \in Ids /\ tasks[cur].status # "QUEUED"
      /\ \A e \in log : e.task # cur /\ ~Live(e.task)
  BY <1>1 DEF TypeOK, Journal, Fresh
<1>3. Result \in Entry /\ Result.task = cur
  <2>1. cur \in 1 .. MaxTasks
    BY <1>2, AgentAssumption DEF Ids, TypeOK
  <2> QED
    BY <2>1 DEF Result, Entry, TypeOK
<1>4. Ids' = Ids /\ \A t \in Ids : Live(t)' <=> Live(t)
  BY <1>1 DEF Ids, Live
<1>5. TypeOK'
  BY <1>1, <1>2, <1>3, <1>4 DEF Record, TypeOK, server, host, process
<1>6. InOrder'
  BY <1>1 DEF InOrder, Ids, Live
<1>7. LogTasks'
  BY <1>1, <1>2, <1>3, <1>4 DEF Journal, LogTasks
<1>8. LiveKept'
  BY <1>1, <1>2, <1>3, <1>4 DEF Journal, LogTasks, LiveKept
<1>9. CompletedLogged'
  BY <1>1, <1>3 DEF Journal, CompletedLogged
<1>10. Once'
  BY <1>1, <1>2, <1>3 DEF Journal, Once
<1>11. Successes' /\ Fresh'
  BY <1>1, <1>4 DEF Journal, Successes, Fresh
<1>12. Calls'
  BY <1>1, <1>4 DEF Calls, PendingLogged, StrayLogged, AtReport, AtReplay, Result
<1> QED
  BY <1>5, <1>6, <1>7, <1>8, <1>9, <1>10, <1>11, <1>12 DEF Journal

(* ... and a claim that leases a task: if an outcome of it was recorded,   *)
(* the journal still holds it.                                             *)
LEMMA ClaimPreserves ==
  ASSUME IInv, NEW t \in Ids, Leased(t), Granted, ClaimReply(t),
         UNCHANGED <<journal, host, cli, stray, faults>>
  PROVE  IInv'
<1> USE DEF IInv
<1>1. /\ log' = log /\ completed' = completed /\ pending' = pending /\ stray' = stray
      /\ UNCHANGED <<host, cli, faults>>
  BY DEF journal
<1>2. t # 0 /\ tasks \in Seq(TaskRow) /\ Len(tasks) \in Nat
  BY DEF Ids, TypeOK
<1>3. /\ pc' = (IF Remembers(t) THEN "replay" ELSE "execute")
      /\ cur' = t /\ outcome' = outcome
  BY <1>2 DEF ClaimReply
<1>4. /\ tasks' \in Seq(TaskRow) /\ Len(tasks') = Len(tasks)
      /\ tasks'[t].status = "RUNNING"
      /\ \A u \in Ids : u # t => tasks'[u].status = tasks[u].status
  BY DEF Leased, Same, Ids
<1>5. Ids' = Ids
  BY <1>4 DEF Ids
<1>6. /\ InOrder'
      /\ \A u \in Ids : Live(u)' => Live(u)
      /\ \A u \in Ids' : tasks'[u].status = "SUCCEEDED" =>
           \/ u \in Ids /\ tasks[u].status = "SUCCEEDED"
           \/ [task |-> u, outcome |-> "complete"] \in log
  BY QueueFacts DEF QueueStep
<1>7. TypeOK'
  <2>1. cur' \in Ids /\ cur' \in 0 .. Len(tasks)
    BY <1>2, <1>3 DEF Ids
  <2>2. pc' \in {"execute", "replay"}
    BY <1>3
  <2> QED
    BY <1>1, <1>3, <1>4, <1>5, <2>1, <2>2 DEF TypeOK, Granted, host
<1>8. LogTasks'
  BY <1>1, <1>4, <1>5 DEF Journal, LogTasks
<1>9. LiveKept' /\ CompletedLogged' /\ Once' /\ Successes'
  BY <1>1, <1>5, <1>6 DEF Journal, LogTasks, LiveKept, CompletedLogged, Once, Successes
<1>10. \A e \in log : Live(e.task) => e.task = t
  <2> SUFFICES ASSUME NEW e \in log, Live(e.task), e.task # t
               PROVE  FALSE
    OBVIOUS
  <2>1. e.task \in Ids /\ tasks[e.task].status = "RUNNING"
    BY DEF Journal, LogTasks, Live
  <2>4. ASSUME NEW u \in Ids, tasks[u].status = "RUNNING"
        PROVE  Claimable(u)
    <3>1. tasks[u] \in TaskRow
      BY <1>2 DEF Ids
    <3>2. tasks[u].lease \in Int /\ ~(tasks[u].lease > 0) /\ tasks[u].lease >= 0
      BY <2>4, <3>1 DEF Leased, LeaseRunning, TaskRow
    <3> QED
      BY <2>4, <3>2 DEF Claimable, Expired
  <2>2. Claimable(e.task)
    BY <2>1, <2>4
  <2>3. t < e.task /\ Live(t)
    BY <1>2, <2>1, <2>2 DEF Leased, Oldest, Claimable, Expired, Live, Ids
  <2> QED
    BY <2>1, <2>3 DEF InOrder
<1>11. Fresh'
  <2> SUFFICES ASSUME pc' \in {"execute", "record"}
               PROVE  /\ tasks'[cur'].status # "QUEUED"
                      /\ \A e \in log' : e.task # cur' /\ ~Live(e.task)'
    BY DEF Fresh, Live
  <2>1. t \notin completed
    BY <1>3 DEF Remembers
  <2>2. Live(t)
    BY DEF Leased, Oldest, Claimable, Expired, Live
  <2>3. \A e \in log : e.task # t
    BY <2>1, <2>2 DEF Journal, LiveKept
  <2>4. \A e \in log : e.task \in Ids /\ ~Live(e.task)
    BY <1>10, <2>3 DEF Journal, LogTasks
  <2> QED
    BY <1>1, <1>3, <1>4, <1>6, <2>3, <2>4
<1>12. Calls'
  <2>1. AtReplay'
    BY <1>1, <1>3 DEF AtReplay, Remembers
  <2> QED
    BY <1>1, <1>3, <1>5, <2>1 DEF Calls, PendingLogged, StrayLogged, AtReport
<1> QED
  BY <1>6, <1>7, <1>8, <1>9, <1>11, <1>12 DEF Journal

----------------------------------------------------------------------------
(* The parts of a routine step.                                            *)
LEMMA StillRoutine ==
  ASSUME TypeOK
  PROVE  /\ UNCHANGED tasks => QueueStep
         /\ UNCHANGED <<accepted, approved, left>> => Granted
         /\ UNCHANGED server => QueueStep /\ Granted
         /\ UNCHANGED <<host, cli, faults>> => HostTyped
         /\ stray' \subseteq stray => StraySafe
<1>1. UNCHANGED tasks => QueueStep
  BY Unchanged DEF QueueStep
<1>2. UNCHANGED <<accepted, approved, left>> => Granted
  BY DEF TypeOK, Granted
<1>3. UNCHANGED <<host, cli, faults>> => HostTyped
  BY DEF TypeOK, HostTyped, host
<1> QED
  BY <1>1, <1>2, <1>3 DEF StraySafe, server

(* A call that stays without an answer.                                    *)
LEMMA SilentRoutine ==
  ASSUME TypeOK, NEW r \in Call \cup Report,
         r.op = "REPORT" => r.entry \in log, r.op = "RENEW" => r.task \in Ids,
         Unanswered(r)
  PROVE  QueueStep /\ Granted /\ StraySafe
BY SilenceShape DEF QueueStep, StraySafe

(* The entries the agent reports are in the journal's history.             *)
LEMMA Reported ==
  ASSUME IInv
  PROVE  /\ pc = "report" => Result \in log
         /\ pending \subseteq log
         /\ pc = "replay" => Remembered(cur) \in log
         /\ \A e \in log : e \in Entry /\ e.task \in Ids
<1>1. pc = "replay" => Remembered(cur) \in log
  BY DEF IInv, Calls, AtReplay, Journal, CompletedLogged, Remembered
<1> QED
  BY <1>1 DEF IInv, Calls, AtReport, PendingLogged, Journal, LogTasks, TypeOK

(* What the control plane does with a request is a step of the queue.      *)
LEMMA ServedRoutine ==
  ASSUME TypeOK
  PROVE  /\ ServeClaim(0) => QueueStep /\ Granted
         /\ \A t \in Ids : ServeClaim(t) => QueueStep /\ Granted /\ Leased(t)
         /\ \A t \in Ids : ServeRenew(t) => QueueStep /\ Granted
         /\ \A e \in log : e.task \in Ids =>
              \A ok \in BOOLEAN : ServeReport(e, ok) => QueueStep /\ Granted
         /\ ServeUnjoin => QueueStep /\ Granted
<1>1. ServeClaim(0) => QueueStep /\ Granted
  <2>1. 0 \in 0 .. Len(tasks)
    BY DEF TypeOK
  <2>2. ASSUME ServeClaim(0)
        PROVE  Granted /\ (Kept \/ \E u \in Ids : Ended({u}))
    BY <2>1, <2>2, ClaimShape
  <2> QED
    BY <2>2 DEF QueueStep
<1>2. ASSUME NEW t \in Ids, ServeClaim(t)
      PROVE  QueueStep /\ Granted /\ Leased(t)
  <2>1. t \in 0 .. Len(tasks) /\ t # 0
    BY DEF TypeOK, Ids
  <2>2. Granted /\ Leased(t)
    BY <1>2, <2>1, ClaimShape
  <2> QED
    BY <2>2 DEF QueueStep
<1>3. ASSUME NEW t \in Ids, ServeRenew(t)
      PROVE  QueueStep /\ Granted
  BY <1>3, RenewShape DEF QueueStep
<1>4. ASSUME NEW e \in log, e.task \in Ids, NEW ok \in BOOLEAN, ServeReport(e, ok)
      PROVE  QueueStep /\ Granted
  <2>1. Granted /\ (Kept \/ Succeeded(e.task) \/ Ended({e.task}))
    BY <1>4, ReportShape
  <2>2. {e.task} \in SUBSET Ids
    BY <1>4
  <2> QED
    BY <1>4, <2>1, <2>2 DEF QueueStep
<1>5. ASSUME ServeUnjoin PROVE QueueStep /\ Granted
  BY <1>5, StillRoutine DEF ServeUnjoin, MarkUnjoined, Release, Granted
<1> QED
  BY <1>1, <1>2, <1>3, <1>4, <1>5

----------------------------------------------------------------------------
(* The steps of the agent process.                                         *)
LEMMA QuietProcess ==
  ASSUME IInv, Heartbeat \/ Defer \/ Disable \/ Retire \/ Start \/ Crash
  PROVE  Routine
<1> USE DEF IInv
<1>1. CASE Heartbeat
  BY <1>1, StillRoutine DEF Heartbeat, Goto, Routine, Moves, journal
<1>2. CASE Defer
  BY <1>2, StillRoutine DEF Defer, Goto, Routine, Moves, journal
<1>3. CASE Disable
  <2>1. HostTyped
    BY <1>3 DEF Disable, HostTyped, TypeOK
  <2> QED
    BY <1>3, <2>1, StillRoutine DEF Disable, Goto, Routine, Moves, journal
<1>4. CASE Retire
  <2>1. HostTyped /\ Granted
    BY <1>4 DEF Retire, Retired, HostTyped, Granted, TypeOK
  <2> QED
    BY <1>4, <2>1, StillRoutine DEF Retire, Goto, Routine, Moves, journal
<1>5. CASE Start
  BY <1>5, StillRoutine DEF Start, Goto, Routine, Moves, journal
<1>6. CASE Crash
  <2>1. HostTyped
    BY <1>6, AgentAssumption DEF Crash, HostTyped, TypeOK, host
  <2> QED
    BY <1>6, <2>1, StillRoutine DEF Crash, Goto, Routine, Moves, journal
<1> QED
  BY <1>1, <1>2, <1>3, <1>4, <1>5, <1>6

(* Calls of the agent that are not answered.                               *)
LEMMA SilentProcess ==
  ASSUME IInv, ClaimUnanswered \/ ReportUnanswered \/ FlushUnanswered \/ ReplayUnanswered
  PROVE  Routine
<1> USE DEF IInv
<1>1. CASE ClaimUnanswered
  <2>1. [op |-> "CLAIM", task |-> 0] \in Call \cup Report
    BY AgentAssumption DEF Call
  <2>2. QueueStep /\ Granted /\ StraySafe
    BY <1>1, <2>1, SilentRoutine DEF ClaimUnanswered
  <2> QED
    BY <1>1, <2>2, StillRoutine DEF ClaimUnanswered, Goto, Routine, Moves, journal
<1>2. ASSUME NEW e \in log, Unanswered([op |-> "REPORT", entry |-> e]),
             Goto("heartbeat"), UNCHANGED <<journal, host, cli, faults>>
      PROVE  Routine
  <2>1. e \in Entry
    BY DEF TypeOK
  <2>2. [op |-> "REPORT", entry |-> e] \in Call \cup Report
    BY <2>1 DEF Report
  <2>3. QueueStep /\ Granted /\ StraySafe
    BY <1>2, <2>2, SilentRoutine
  <2> QED
    BY <1>2, <2>3, StillRoutine DEF Goto, Routine, Moves, journal
<1>3. CASE ReportUnanswered
  BY <1>2, <1>3, Reported DEF ReportUnanswered
<1>4. CASE FlushUnanswered
  BY <1>2, <1>4, Reported DEF FlushUnanswered
<1>5. CASE ReplayUnanswered
  BY <1>2, <1>5, Reported DEF ReplayUnanswered
<1> QED
  BY <1>1, <1>3, <1>4, <1>5

(* Calls of the agent that are answered, and renewals.                     *)
LEMMA ServedProcess ==
  ASSUME IInv, ReportAnswered \/ FlushAnswered \/ ReplayAnswered \/ Renew
  PROVE  Routine
<1> USE DEF IInv
<1>1. CASE ReportAnswered
  <2>1. QueueStep /\ Granted
    BY <1>1, Reported, ServedRoutine, StillRoutine DEF ReportAnswered
  <2>2. pc' \in {"disable", "heartbeat"} /\ cur' = 0 /\ outcome' = outcome
    BY <1>1 DEF ReportAnswered, AfterReport, Goto
  <2> QED
    BY <1>1, <2>1, <2>2, StillRoutine DEF ReportAnswered, Routine, Moves
<1>2. CASE FlushAnswered
  <2>1. QueueStep /\ Granted
    BY <1>2, Reported, ServedRoutine, StillRoutine DEF FlushAnswered
  <2>2. /\ pc' \in {"flush", "heartbeat"} /\ cur' = 0 /\ outcome' = outcome
        /\ pending' \subseteq pending /\ (pc' = "flush" => pending' # {})
    BY <1>2 DEF FlushAnswered, Goto
  <2> QED
    BY <1>2, <2>1, <2>2, StillRoutine DEF FlushAnswered, Routine, Moves
<1>3. CASE ReplayAnswered
  <2>1. QueueStep /\ Granted
    BY <1>3, Reported, ServedRoutine DEF ReplayAnswered
  <2>2. pc' \in {"disable", "heartbeat"} /\ cur' = 0 /\ outcome' = outcome
    BY <1>3 DEF ReplayAnswered, AfterReport, Goto
  <2> QED
    BY <1>3, <2>1, <2>2, StillRoutine DEF ReplayAnswered, Routine, Moves, journal
<1>4. CASE Renew
  <2>1. cur \in Ids /\ cur \in 0 .. MaxTasks
    BY <1>4, AgentAssumption DEF Renew, TypeOK, Ids
  <2>2. CASE ServeRenew(cur) /\ UNCHANGED stray
    BY <1>4, <2>1, <2>2, ServedRoutine, StillRoutine DEF Renew, Routine, Moves, journal
  <2>3. CASE Unanswered([op |-> "RENEW", task |-> cur])
    <3>1. [op |-> "RENEW", task |-> cur] \in Call \cup Report
      BY <2>1 DEF Call
    <3>2. QueueStep /\ Granted /\ StraySafe
      BY <2>1, <2>3, <3>1, SilentRoutine
    <3> QED
      BY <1>4, <3>2, StillRoutine DEF Renew, Routine, Moves, journal
  <2> QED
    BY <1>4, <2>2, <2>3 DEF Renew
<1> QED
  BY <1>1, <1>2, <1>3, <1>4

----------------------------------------------------------------------------
(* Requests that arrive after the agent gave them up, or never.            *)
LEMMA StrayRoutine ==
  ASSUME IInv, NEW r \in stray, ServeStray(r) \/ LoseStray(r)
  PROVE  Routine
<1> USE DEF IInv
<1>1. /\ stray' \subseteq stray
      /\ UNCHANGED <<journal, process, host, cli, faults>>
  BY DEF ServeStray, LoseStray
<1>2. r \in Call \cup Report
  BY DEF TypeOK
<1>3. r.op \in {"CLAIM", "RENEW", "REPORT", "UNJOIN"}
  BY <1>2 DEF Call, Report
<1>4. /\ r.op = "REPORT" => r.entry \in log /\ r.entry.task \in Ids
      /\ r.op = "RENEW" => r.task \in Ids
  BY Reported DEF Calls, StrayLogged
<1>5. QueueStep /\ Granted
  <2>1. CASE LoseStray(r)
    BY <2>1, StillRoutine DEF LoseStray
  <2>2. CASE ServeStray(r) /\ r.op = "CLAIM"
    <3>1. PICK t \in 0 .. Len(tasks) : ServeClaim(t)
      BY <2>2 DEF ServeStray
    <3>2. t = 0 \/ t \in Ids
      BY DEF Ids, TypeOK
    <3> QED
      BY <3>1, <3>2, ServedRoutine
  <2>3. CASE ServeStray(r) /\ r.op = "RENEW"
    BY <1>4, <2>3, ServedRoutine DEF ServeStray
  <2>4. CASE ServeStray(r) /\ r.op = "REPORT"
    BY <1>4, <2>4, ServedRoutine DEF ServeStray
  <2>5. CASE ServeStray(r) /\ r.op = "UNJOIN"
    BY <2>5, ServedRoutine DEF ServeStray
  <2> QED
    BY <1>3, <2>1, <2>2, <2>3, <2>4, <2>5
<1> QED
  BY <1>1, <1>5, StillRoutine DEF Routine, Moves, journal

(* The command `dure unjoin`, and joining again.                           *)
LEMMA CommandRoutine ==
  ASSUME IInv, UnjoinStop \/ UnjoinDisable \/ UnjoinPost \/ UnjoinRetire \/ Join
  PROVE  Routine
<1> USE DEF IInv
<1>1. CASE UnjoinStop
  <2>1. HostTyped
    BY <1>1 DEF UnjoinStop, HostTyped, TypeOK
  <2> QED
    BY <1>1, <2>1, StillRoutine DEF UnjoinStop, Routine, Moves, journal
<1>2. CASE UnjoinDisable
  <2>1. HostTyped
    BY <1>2 DEF UnjoinDisable, HostTyped, TypeOK
  <2>2. Moves
    BY <1>2 DEF UnjoinDisable, Moves, Goto, journal
  <2> QED
    BY <1>2, <2>1, <2>2, StillRoutine DEF UnjoinDisable, Routine, journal
<1>3. CASE UnjoinPost
  <2>1. HostTyped
    BY <1>3 DEF UnjoinPost, HostTyped, TypeOK, host
  <2>2. [op |-> "UNJOIN", task |-> 0] \in Call \cup Report
    BY AgentAssumption DEF Call
  <2>3. QueueStep /\ Granted /\ StraySafe
    BY <1>3, <2>2, SilentRoutine, ServedRoutine, StillRoutine DEF UnjoinPost
  <2> QED
    BY <1>3, <2>1, <2>3 DEF UnjoinPost, Routine, Moves, journal
<1>4. CASE UnjoinRetire
  <2>1. HostTyped /\ Granted
    BY <1>4 DEF UnjoinRetire, Retired, HostTyped, Granted, TypeOK
  <2> QED
    BY <1>4, <2>1, StillRoutine DEF UnjoinRetire, Routine, Moves, journal
<1>5. CASE Join
  <2>1. HostTyped /\ Granted
    BY <1>5 DEF Join, HostTyped, Granted, TypeOK, server
  <2>2. UNCHANGED tasks /\ stray' \subseteq stray
    BY <1>5 DEF Join, server
  <2> QED
    BY <1>5, <2>1, <2>2, StillRoutine DEF Join, Routine, Moves, journal
<1> QED
  BY <1>1, <1>2, <1>3, <1>4, <1>5

----------------------------------------------------------------------------
(* A new task comes last in the queue.                                     *)
LEMMA CreateShape ==
  ASSUME TypeOK, NEW kind \in Kinds, Create(kind)
  PROVE  Added
<1> DEFINE row == [kind |-> kind, status |-> "QUEUED", lease |-> 0]
<1>1. tasks \in Seq(TaskRow) /\ Len(tasks) \in Nat /\ Len(tasks) < MaxTasks /\ MaxTasks \in Nat
  BY AgentAssumption DEF TypeOK, Create
<1>2. row \in TaskRow /\ row.status = "QUEUED"
  BY AgentAssumption DEF TaskRow
<1>3. tasks' = Append(tasks, row)
  BY DEF Create
<1> HIDE DEF row
<1>4. /\ tasks' \in Seq(TaskRow) /\ Len(tasks') = Len(tasks) + 1
      /\ \A u \in 1 .. Len(tasks) : tasks'[u] = tasks[u]
      /\ tasks'[Len(tasks) + 1] = row
  BY <1>1, <1>2, <1>3
<1> QED
  BY <1>1, <1>2, <1>4 DEF Added, Ids

(* A cancellation ends a task that still lives.                            *)
LEMMA CancelShape ==
  ASSUME TypeOK, NEW t \in Ids, Cancel(t)
  PROVE  Ended({t})
<1>1. PICK s \in {"FAILED", "CANCELED"} : tasks' = SetStatus(tasks, t, s)
  BY DEF Cancel, SetStatus
<1>2. tasks \in Seq(TaskRow) /\ t \in 1 .. Len(tasks) /\ s \in Status
  BY DEF TypeOK, Ids, Status
<1>3. Same(tasks, tasks', {t}) /\ tasks'[t].status = s
  BY <1>1, <1>2, StatusUpdate
<1>4. Live(t)
  BY DEF Cancel, Expired, Live
<1> QED
  BY <1>3, <1>4 DEF Ended

(* A revocation ends the operation tasks that still live.                  *)
LEMMA RevokeShape ==
  ASSUME TypeOK, Revoke
  PROVE  \E S \in SUBSET Ids : Ended(S)
<1> DEFINE S == {t \in Ids : tasks[t].kind = "BULK" /\ Live(t)}
<1>1. \A t \in Ids : tasks[t] \in TaskRow
  BY DEF TypeOK, Ids
<1>2. ASSUME NEW row \in TaskRow
      PROVE  /\ Revoked(row) \in TaskRow
             /\ \/ Revoked(row).status = row.status
                \/ Revoked(row).status \in {"FAILED", "CANCELED"}
             /\ row.kind = "BULK" /\ row.status \in {"QUEUED", "RUNNING"} =>
                  Revoked(row).status \in {"FAILED", "CANCELED"}
             /\ ~(row.kind = "BULK" /\ row.status \in {"QUEUED", "RUNNING"}) =>
                  Revoked(row).status = row.status
  <2>1. CASE row.kind = "BULK" /\ row.status = "QUEUED"
    <3>1. Revoked(row) = [row EXCEPT !.status = "CANCELED"]
      BY <2>1, SMT DEF Revoked
    <3> QED
      BY <2>1, <3>1 DEF TaskRow
  <2>2. CASE row.kind = "BULK" /\ row.status = "RUNNING"
    <3>1. Revoked(row) = [row EXCEPT !.status = "FAILED", !.lease = 0]
      BY <2>2 DEF Revoked
    <3>2. 0 \in 0 .. LeaseTicks
      BY AgentAssumption
    <3>3. Revoked(row) \in TaskRow
      BY <3>1, <3>2 DEF TaskRow
    <3>4. Revoked(row).status = "FAILED"
      BY <3>1 DEF TaskRow
    <3> QED
      BY <2>2, <3>3, <3>4
  <2>3. CASE ~(row.kind = "BULK" /\ row.status \in {"QUEUED", "RUNNING"})
    <3>1. Revoked(row) = row
      BY <2>3 DEF Revoked
    <3> QED
      BY <2>3, <3>1
  <2> QED
    BY <2>1, <2>2, <2>3
<1>3. /\ tasks' \in Seq(TaskRow) /\ Len(tasks') = Len(tasks)
      /\ \A t \in Ids : tasks'[t] = Revoked(tasks[t])
  <2>1. tasks' = [t \in Ids |-> Revoked(tasks[t])] /\ Len(tasks) \in Nat
    BY DEF Revoke, TypeOK
  <2>2. \A t \in Ids : Revoked(tasks[t]) \in TaskRow
    BY <1>1, <1>2
  <2> QED
    BY <2>1, <2>2 DEF Ids
<1>4. Same(tasks, tasks', S)
  BY <1>1, <1>2, <1>3 DEF Same, Ids, Live
<1>5. \A t \in S : Live(t) /\ tasks'[t].status \in {"FAILED", "CANCELED"}
  BY <1>1, <1>2, <1>3 DEF Live
<1> QED
  BY <1>4, <1>5 DEF Ended

(* Time changes no status.                                                 *)
LEMMA TickShape ==
  ASSUME TypeOK, Tick
  PROVE  Kept
<1> DEFINE Later(row) == [row EXCEPT !.lease = IF @ = 0 THEN 0 ELSE @ - 1]
<1>1. Len(tasks) \in Nat /\ \A t \in Ids : tasks[t] \in TaskRow
  BY DEF TypeOK, Ids
<1>2. ASSUME NEW row \in TaskRow
      PROVE  Later(row) \in TaskRow /\ Later(row).status = row.status
  BY AgentAssumption DEF TaskRow
<1>3. tasks' = [t \in Ids |-> Later(tasks[t])]
  BY DEF Tick
<1> HIDE DEF Later
<1>4. \A t \in Ids : Later(tasks[t]) \in TaskRow
  BY <1>1, <1>2
<1>5. /\ tasks' \in Seq(TaskRow) /\ Len(tasks') = Len(tasks)
      /\ \A t \in Ids : tasks'[t] = Later(tasks[t])
  BY <1>1, <1>3, <1>4 DEF Ids
<1> QED
  BY <1>1, <1>2, <1>5 DEF Kept, Same, Ids

(* The steps of administrators, and time.                                  *)
LEMMA AdminRoutine ==
  ASSUME IInv,
         \/ \E kind \in Kinds : Create(kind)
         \/ \E t \in Ids : Cancel(t)
         \/ Approve \/ Revoke \/ Rotate \/ Install \/ Tick
  PROVE  Routine
<1> USE DEF IInv
<1>1. CASE \E kind \in Kinds : Create(kind)
  <2>1. QueueStep
    BY <1>1, CreateShape DEF QueueStep
  <2> QED
    BY <1>1, <2>1, StillRoutine DEF Create, Routine, Moves, journal
<1>2. CASE \E t \in Ids : Cancel(t)
  <2>1. QueueStep
    BY <1>2, CancelShape DEF QueueStep
  <2> QED
    BY <1>2, <2>1, StillRoutine DEF Cancel, Routine, Moves, journal
<1>3. CASE Approve
  <2>1. Granted
    BY <1>3 DEF Approve, Granted, TypeOK
  <2> QED
    BY <1>3, <2>1, StillRoutine DEF Approve, Routine, Moves, journal
<1>4. CASE Revoke
  <2>1. QueueStep
    BY <1>4, RevokeShape DEF QueueStep
  <2>2. Granted
    BY <1>4 DEF Revoke, Release, Granted, TypeOK
  <2> QED
    BY <1>4, <2>1, <2>2, StillRoutine DEF Revoke, Routine, Moves, journal
<1>5. CASE Rotate
  <2>1. Granted /\ HostTyped
    BY <1>5, AgentAssumption DEF Rotate, Granted, HostTyped, TypeOK, host
  <2> QED
    BY <1>5, <2>1, StillRoutine DEF Rotate, Routine, Moves, journal
<1>6. CASE Install
  <2>1. Granted /\ HostTyped
    BY <1>6 DEF Install, Granted, HostTyped, TypeOK
  <2>2. Moves
    BY <1>6 DEF Install, Goto, Moves, journal
  <2> QED
    BY <1>6, <2>1, <2>2, StillRoutine DEF Install, Routine, journal
<1>7. CASE Tick
  <2>1. QueueStep
    BY <1>7, TickShape DEF QueueStep
  <2> QED
    BY <1>7, <2>1, StillRoutine DEF Tick, Routine, Moves, journal
<1> QED
  BY <1>1, <1>2, <1>3, <1>4, <1>5, <1>6, <1>7

----------------------------------------------------------------------------
(* An answered claim either leases a task or leaves the process idle.      *)
LEMMA ClaimAnsweredPreserves ==
  ASSUME IInv, ClaimAnswered
  PROVE  IInv'
<1> USE DEF IInv
<1>1. PICK t \in 0 .. Len(tasks) : ServeClaim(t) /\ ClaimReply(t)
  BY DEF ClaimAnswered
<1>2. t = 0 \/ t \in Ids
  BY DEF Ids, TypeOK
<1>3. UNCHANGED <<journal, host, cli, stray, faults>>
  BY DEF ClaimAnswered
<1>4. CASE t \in Ids
  <2>1. Granted /\ Leased(t)
    BY <1>1, <1>4, ServedRoutine
  <2> QED
    BY <1>1, <1>3, <1>4, <2>1, ClaimPreserves
<1>5. CASE t = 0
  <2>1. Goto("heartbeat") /\ QueueStep /\ Granted
    BY <1>1, <1>5, ServedRoutine DEF ClaimReply
  <2>2. Routine
    BY <1>3, <2>1, StillRoutine DEF Goto, Routine, Moves, journal
  <2> QED
    BY <2>2, RoutinePreserves
<1> QED
  BY <1>2, <1>4, <1>5

LEMMA InitIInv == Init => IInv
<1> SUFFICES ASSUME Init PROVE IInv
  OBVIOUS
<1>1. Ids = {}
  BY DEF Init, Ids
<1>2. TypeOK
  <2>1. tasks \in Seq(TaskRow) /\ Len(tasks) = 0 /\ 0 <= MaxTasks /\ 0 \in 0 .. MaxFaults
    BY AgentAssumption DEF Init
  <2>2. outcome \in Outcome
    BY DEF Init, Outcome
  <2>3. cur \in 0 .. Len(tasks) /\ faults \in 0 .. MaxFaults
    BY <2>1 DEF Init
  <2>4. log \subseteq Entry /\ pending \subseteq Entry /\ completed \subseteq Ids
        /\ stray \subseteq Call \cup Report
    BY DEF Init
  <2>5. /\ accepted \in {"HELD", "OTHER", "NONE"}
        /\ approved \in BOOLEAN /\ left \in {"no", "task", "command"}
        /\ pc = "heartbeat" /\ cli = "idle"
        /\ container \in BOOLEAN /\ registered \in BOOLEAN /\ service \in BOOLEAN
    BY DEF Init
  <2> QED
    BY <2>1, <2>2, <2>3, <2>4, <2>5 DEF TypeOK
<1> QED
  BY <1>1, <1>2 DEF Init, IInv, InOrder, Journal, LogTasks, LiveKept, CompletedLogged,
       Once, Fresh, Successes, Calls, PendingLogged, StrayLogged, AtReport, AtReplay

LEMMA StepIInv == IInv /\ [Next]_vars => IInv'
<1> SUFFICES ASSUME IInv, [Next]_vars PROVE IInv'
  OBVIOUS
<1>1. CASE Process
  BY <1>1, QuietProcess, SilentProcess, ServedProcess, RoutinePreserves,
     ExecutePreserves, RecordPreserves, ClaimAnsweredPreserves DEF Process
<1>2. CASE \E r \in stray : ServeStray(r) \/ LoseStray(r)
  BY <1>2, StrayRoutine, RoutinePreserves
<1>3. CASE UnjoinStop \/ UnjoinDisable \/ UnjoinPost \/ UnjoinRetire \/ Join
  BY <1>3, CommandRoutine, RoutinePreserves
<1>4. CASE \/ \E kind \in Kinds : Create(kind)
           \/ \E t \in Ids : Cancel(t)
           \/ Approve \/ Revoke \/ Rotate \/ Install \/ Tick
  BY <1>4, AdminRoutine, RoutinePreserves
<1>5. CASE UNCHANGED vars
  <2>1. UNCHANGED <<server, journal, process, host, cli, stray, faults>>
    BY <1>5 DEF vars
  <2>2. Routine
    BY <2>1, StillRoutine DEF IInv, Routine, Moves, journal
  <2> QED
    BY <2>2, RoutinePreserves
<1> QED
  BY <1>1, <1>2, <1>3, <1>4, <1>5 DEF Next

(* The inductive invariant: the queue is worked off in order, the journal  *)
(* holds every outcome of a task that still lives, and every request and   *)
(* every step of the process speaks of outcomes that are written.          *)
THEOREM Invariant == Spec => []IInv
BY InitIInv, StepIInv, PTL DEF Spec

(* The queue, the journal file, the agent process and the requests under   *)
(* way have their types: no step works on a task that is not in the queue. *)
THEOREM TypeCorrect == Spec => []TypeOK
<1>1. IInv => TypeOK
  BY DEF IInv
<1> QED
  BY <1>1, Invariant, PTL

(* A task whose outcome was once written to the journal is never executed  *)
(* again: not after a crash, a lost report, an expired lease or a journal  *)
(* that dropped old outcomes, whatever its size.                           *)
THEOREM NeverRepeated == Spec => []RecordedNeverRepeated
<1>1. IInv => RecordedNeverRepeated
  BY DEF IInv, Journal, Fresh, RecordedNeverRepeated
<1> QED
  BY <1>1, Invariant, PTL

(* A task the control plane shows as succeeded has a success on disk at    *)
(* the node, and no failure: two executions never leave two answers.       *)
THEOREM SuccessRecorded == Spec => []SuccessIsRecorded
<1>1. ASSUME IInv, NEW t \in Ids, tasks[t].status = "SUCCEEDED",
             [task |-> t, outcome |-> "failed"] \in log
      PROVE  FALSE
  <2>1. [task |-> t, outcome |-> "complete"] \in log
    BY <1>1 DEF IInv, Journal, Successes
  <2>2. [task |-> t, outcome |-> "complete"] = [task |-> t, outcome |-> "failed"]
    BY <1>1, <2>1 DEF IInv, Journal, Once
  <2> QED
    BY <2>2
<1>2. IInv => SuccessIsRecorded
  BY <1>1 DEF IInv, Journal, Successes, SuccessIsRecorded
<1> QED
  BY <1>2, Invariant, PTL

----------------------------------------------------------------------------
(* Refinement.  The ledger's variables, and what leaves each of its tasks  *)
(* as it is.                                                               *)
LedgerTasks == 1 .. MaxTasks
States == [t \in LedgerTasks |-> LedgerState(t)]
AllAnswers == [t \in LedgerTasks |-> Answers(t)]

(* A step of the agent but a recording changes the queue or nothing.       *)
LEMMA StepShape ==
  ASSUME IInv, [Next]_vars
  PROVE  Record \/ (QueueStep /\ log' = log)
<1>1. Routine => QueueStep /\ log' = log
  BY DEF Routine
<1>2. TypeOK
  BY DEF IInv
<1>3. ASSUME NEW o \in Outcome, Execute(o) PROVE QueueStep /\ log' = log
  BY <1>2, <1>3, StillRoutine DEF Execute, journal
<1>4. CASE ClaimAnswered
  <2>1. PICK t \in 0 .. Len(tasks) : ServeClaim(t)
    BY <1>4 DEF ClaimAnswered
  <2>2. t = 0 \/ t \in Ids
    BY <1>2 DEF Ids, TypeOK
  <2>3. QueueStep
    BY <1>2, <2>1, <2>2, ServedRoutine
  <2> QED
    BY <1>4, <2>3 DEF ClaimAnswered, journal
<1>5. CASE Process
  BY <1>1, <1>3, <1>4, <1>5, QuietProcess, SilentProcess, ServedProcess DEF Process
<1>6. CASE UNCHANGED vars
  BY <1>2, <1>6, StillRoutine DEF vars, server, journal
<1> QED
  BY <1>1, <1>5, <1>6, StrayRoutine, CommandRoutine, AdminRoutine DEF Next

(* The answers of the ledger depend on the log alone.                      *)
LEMMA SameAnswers ==
  ASSUME log' = log
  PROVE  UNCHANGED AllAnswers
BY DEF AllAnswers, Answers

(* A step of the queue is a step of the ledger, or none.                   *)
LEMMA QueueRefines ==
  ASSUME IInv, QueueStep, log' = log
  PROVE  L!Next \/ UNCHANGED <<States, AllAnswers>>
<1>1. /\ TypeOK /\ tasks \in Seq(TaskRow) /\ Len(tasks) \in Nat
      /\ Len(tasks) <= MaxTasks /\ MaxTasks \in Nat
  BY AgentAssumption DEF IInv, TypeOK
<1>2. UNCHANGED AllAnswers
  BY SameAnswers
<1>3. CASE Kept
  <2>1. \A t \in LedgerTasks : LedgerState(t)' = LedgerState(t)
    BY <1>1, <1>3 DEF Kept, Same, LedgerState, Live, Ids, LedgerTasks
  <2> QED
    BY <1>2, <2>1 DEF States, LedgerTasks
<1>4. ASSUME NEW t \in Ids, Leased(t)
      PROVE  UNCHANGED States
  <2>1. Live(t)
    BY <1>4 DEF Leased, Oldest, Claimable, Expired, Live
  <2>2. \A u \in LedgerTasks : LedgerState(u)' = LedgerState(u)
    BY <1>1, <1>4, <2>1 DEF Leased, Same, LedgerState, Live, Ids, LedgerTasks
  <2> QED
    BY <2>2 DEF States, LedgerTasks
<1>5. CASE Added
  <2>8. PICK n \in Nat : n = Len(tasks) + 1
    BY <1>1
  <2>5. n \notin Ids /\ n \in LedgerTasks /\ n \in Ids' /\ tasks'[n].status = "QUEUED"
    BY <1>1, <1>5, <2>8 DEF Added, Ids, LedgerTasks
  <2>6. \A u \in Ids : u \in Ids' /\ tasks'[u].status = tasks[u].status
    BY <1>1, <1>5 DEF Added, Ids
  <2>7. \A u \in Ids' : u \in Ids \/ u = n
    BY <1>1, <1>5, <2>8 DEF Added, Ids
  <2>1. n \in LedgerTasks /\ LedgerState(n) = "none" /\ LedgerState(n)' = "open"
    BY <2>5 DEF LedgerState, Live
  <2>2. \A u \in LedgerTasks : u # n => LedgerState(u)' = LedgerState(u)
    BY <2>6, <2>7 DEF LedgerState, Live
  <2>3. States' = [States EXCEPT ![n] = "open"]
    BY <2>1, <2>2 DEF States
  <2>4. L!Open(n)
    BY <1>2, <2>1, <2>3 DEF L!Open, States, AllAnswers, LedgerTasks
  <2> QED
    BY <2>1, <2>4 DEF L!Next, L!Tasks, LedgerTasks
<1>6. ASSUME NEW t \in Ids, Succeeded(t)
      PROVE  L!Next
  <2>1. t \in LedgerTasks /\ LedgerState(t) = "open" /\ LedgerState(t)' = "succeeded"
    BY <1>1, <1>6 DEF Succeeded, Same, LedgerState, Live, Ids, LedgerTasks
  <2>2. \A u \in LedgerTasks : u # t => LedgerState(u)' = LedgerState(u)
    BY <1>1, <1>6 DEF Succeeded, Same, LedgerState, Live, Ids, LedgerTasks
  <2>3. Answers(t) = {"complete"}
    <3>1. [task |-> t, outcome |-> "complete"] \in log
      BY <1>6 DEF Succeeded
    <3>2. [task |-> t, outcome |-> "failed"] \notin log
      BY <3>1 DEF IInv, Journal, Once
    <3> QED
      BY <3>1, <3>2 DEF Answers, Outcome
  <2>4. States' = [States EXCEPT ![t] = "succeeded"]
    BY <2>1, <2>2 DEF States, LedgerTasks
  <2>5. L!Succeed(t)
    BY <1>2, <2>1, <2>3, <2>4 DEF L!Succeed, States, AllAnswers, LedgerTasks
  <2> QED
    BY <2>1, <2>5 DEF L!Next, L!Tasks, LedgerTasks
<1>7. ASSUME NEW S \in SUBSET Ids, Ended(S)
      PROVE  L!Next
  <2>1. \A t \in S : t \in LedgerTasks /\ LedgerState(t) = "open" /\ LedgerState(t)' = "failed"
    BY <1>1, <1>7 DEF Ended, Same, LedgerState, Live, Ids, LedgerTasks
  <2>2. \A u \in LedgerTasks : u \notin S => LedgerState(u)' = LedgerState(u)
    BY <1>1, <1>7 DEF Ended, Same, LedgerState, Live, Ids, LedgerTasks
  <2>3. States' = [t \in LedgerTasks |-> IF t \in S THEN "failed" ELSE States[t]]
    BY <2>1, <2>2 DEF States
  <2>4. L!Fail(S)
    BY <1>2, <2>1, <2>3 DEF L!Fail, L!Tasks, States, AllAnswers, LedgerTasks
  <2>5. S \in SUBSET LedgerTasks
    BY <2>1
  <2> QED
    BY <2>4, <2>5 DEF L!Next, L!Tasks, LedgerTasks
<1> QED
  BY <1>2, <1>3, <1>4, <1>5, <1>6, <1>7 DEF QueueStep

(* Writing an outcome is the answer of the ledger, the first of its task.  *)
LEMMA RecordRefines ==
  ASSUME IInv, Record
  PROVE  L!Next
<1>1. /\ tasks' = tasks /\ log' = log \cup {Result}
      /\ pc = "record"
  BY DEF Record, server
<1>2. PICK t \in Ids : t = cur
  BY <1>1 DEF IInv, TypeOK
<1>3. /\ t \in LedgerTasks /\ outcome \in Outcome
      /\ \A e \in log : e.task # t
  BY <1>1, <1>2, AgentAssumption DEF IInv, TypeOK, Journal, Fresh, Ids, LedgerTasks
<1>4. LedgerState(t) # "none" /\ Answers(t) = {}
  BY <1>3 DEF LedgerState, Answers
<1>5. UNCHANGED States
  BY <1>1 DEF States, LedgerState, Live, Ids
<1>6. Answers(t)' = {outcome}
  BY <1>1, <1>2, <1>3 DEF Answers, Result
<1>7. \A u \in LedgerTasks : u # t => Answers(u)' = Answers(u)
  BY <1>1, <1>2 DEF Answers, Result
<1>8. AllAnswers' = [AllAnswers EXCEPT ![t] = {outcome}]
  BY <1>3, <1>6, <1>7 DEF AllAnswers
<1>9. L!Answer(t, outcome)
  BY <1>3, <1>4, <1>5, <1>8 DEF L!Answer, States, AllAnswers, LedgerTasks
<1> QED
  BY <1>3, <1>9 DEF L!Next, L!Tasks, LedgerTasks, Outcome

(* Agent and control plane implement the ledger: a task gets at most one   *)
(* answer, the answer is on disk before it counts, the task ends at most   *)
(* once and succeeds only with the answer "complete".                      *)
THEOREM Implements == Spec => ImplementsLedger
<1>1. Init => L!Init
  <2> SUFFICES ASSUME Init PROVE L!Init
    OBVIOUS
  <2>1. Ids = {} /\ log = {}
    BY DEF Init, Ids
  <2>2. \A t \in LedgerTasks : LedgerState(t) = "none" /\ Answers(t) = {}
    BY <2>1 DEF LedgerState, Answers
  <2> QED
    BY <2>2 DEF L!Init, L!Tasks, LedgerTasks
<1>2. IInv /\ [Next]_vars => L!Next \/ UNCHANGED <<States, AllAnswers>>
  BY StepShape, QueueRefines, RecordRefines
<1>3. IInv /\ [Next]_vars => [L!Next]_<<States, AllAnswers>>
  BY <1>2
<1> QED
  BY <1>1, <1>3, Invariant, PTL DEF Spec, ImplementsLedger, L!Spec, States, AllAnswers, LedgerTasks

----------------------------------------------------------------------------
(* Leaving.  An UNJOIN_NODE task stops the containers before its outcome is *)
(* recorded, and from then on nothing may start one: whoever could is the   *)
(* agent itself, which executes nothing while a recorded task still lives.  *)
StoppedFirst ==
  \A e \in log : tasks[e.task].kind = "UNJOIN" /\ e.outcome = "complete" /\ Live(e.task)
    => container = FALSE
StoppedAtRecord ==
  pc = "record" /\ tasks[cur].kind = "UNJOIN" /\ outcome = "complete" => container = FALSE
Departed ==
  left = "task" => accepted = "NONE" /\ container = FALSE /\ pc # "execute"

(* An UNJOIN_NODE task ends by its answer alone, which takes the credential *)
(* with it: an agent that may still report its success finds it running.    *)
UnjoinRuns ==
  pc \in {"execute", "record"} /\ tasks[cur].kind = "UNJOIN" => tasks[cur].status = "RUNNING"
UnjoinUnserved ==
  pc \in {"report", "replay"} /\ accepted = "HELD" =>
    \A e \in log :
      e.task = cur /\ tasks[cur].kind = "UNJOIN" /\ e.outcome = "complete"
        => tasks[cur].status = "RUNNING"

(* Who is about to forget the credential, the agent or the command, was     *)
(* told that it is no longer accepted; the command stopped the agent first. *)
LettingGo ==
  /\ registered = FALSE => pc = "off"
  /\ cli \in {"post", "retire"} => pc = "off" /\ service = FALSE
  /\ cli = "retire" \/ pc \in {"disable", "retire"} => accepted # "HELD"

Leaving == StoppedFirst /\ StoppedAtRecord /\ Departed /\ UnjoinRuns /\ UnjoinUnserved
LeaveInv == IInv /\ Leaving /\ LettingGo

(* What the control plane may do in a step: no row changes its kind, a      *)
(* running UNJOIN_NODE task ends by a recorded answer, and a node has left  *)
(* by a task only when that task's success was answered.                    *)
KindsKept == \A t \in Ids : tasks'[t].kind = tasks[t].kind
UnjoinAnswered ==
  \A t \in Ids :
    tasks[t].kind = "UNJOIN" /\ tasks[t].status = "RUNNING" /\ tasks'[t].status # "RUNNING" =>
      \E e \in log : e.task = t /\ (e.outcome = "complete" => accepted' = "NONE")
LeftMoves ==
  left' = "task" =>
    \/ left = "task" /\ (accepted = "NONE" => accepted' = "NONE")
    \/ /\ accepted' = "NONE"
       /\ \E e \in log : e.outcome = "complete" /\ tasks[e.task].kind = "UNJOIN" /\ Live(e.task)
Answered == KindsKept /\ UnjoinAnswered /\ LeftMoves
HeldKept == accepted' = "HELD" => accepted = "HELD"

(* Replacing status and lease of a row keeps every kind.                    *)
LEMMA KindOfRow ==
  ASSUME NEW q \in Seq(TaskRow), NEW t \in 1 .. Len(q), NEW s, NEW l, NEW u \in 1 .. Len(q)
  PROVE  /\ SetRow(q, t, s, l)[u].kind = q[u].kind
         /\ SetStatus(q, t, s)[u].kind = q[u].kind
         /\ SetLease(q, t, l)[u].kind = q[u].kind
<1>1. q[t] \in TaskRow /\ q[u] \in TaskRow
  OBVIOUS
<1>2. ASSUME NEW row, row.kind = q[t].kind
      PROVE  [q EXCEPT ![t] = row][u].kind = q[u].kind
  BY <1>2
<1>3. [q[t] EXCEPT !.status = s, !.lease = l].kind = q[t].kind
  BY <1>1 DEF TaskRow
<1>4. [q[t] EXCEPT !.status = s].kind = q[t].kind
  BY <1>1 DEF TaskRow
<1>5. [q[t] EXCEPT !.lease = l].kind = q[t].kind
  BY <1>1 DEF TaskRow
<1>6. SetRow(q, t, s, l) = [q EXCEPT ![t] = [q[t] EXCEPT !.status = s, !.lease = l]]
  BY <1>1 DEF TaskRow, SetRow
<1>7. SetStatus(q, t, s) = [q EXCEPT ![t] = [q[t] EXCEPT !.status = s]]
  BY <1>1 DEF TaskRow, SetStatus
<1>8. SetLease(q, t, l) = [q EXCEPT ![t] = [q[t] EXCEPT !.lease = l]]
  BY <1>1 DEF TaskRow, SetLease
<1> QED
  BY <1>2, <1>3, <1>4, <1>5, <1>6, <1>7, <1>8

(* A control plane that does nothing.                                       *)
LEMMA NothingAnswered ==
  /\ UNCHANGED tasks => KindsKept /\ UnjoinAnswered
  /\ UNCHANGED server => Answered /\ HeldKept
BY DEF KindsKept, UnjoinAnswered, LeftMoves, Answered, HeldKept, server

(* A claim ends no UNJOIN_NODE task.                                        *)
LEMMA ClaimAnswers ==
  ASSUME TypeOK, NEW t, ServeClaim(t)
  PROVE  Answered /\ HeldKept
<1>1. LeftMoves /\ HeldKept
  BY DEF ServeClaim, LeftMoves, HeldKept
<1>2. tasks \in Seq(TaskRow) /\ Ids = 1 .. Len(tasks)
  BY DEF TypeOK, Ids
<1>3. CASE /\ Oldest(t)
           /\ tasks' = [tasks EXCEPT ![t].status = "RUNNING", ![t].lease = LeaseTicks]
  <2>1. t \in Ids /\ tasks' = SetRow(tasks, t, "RUNNING", LeaseTicks)
    BY <1>3 DEF Oldest, SetRow
  <2>2. KindsKept
    BY <1>2, <2>1, KindOfRow DEF KindsKept
  <2>3. LeaseTicks \in 0 .. LeaseTicks /\ "RUNNING" \in Status
    BY AgentAssumption DEF Status
  <2>4. Same(tasks, tasks', {t}) /\ tasks'[t].status = "RUNNING"
    BY <1>2, <2>1, <2>3, RowUpdate
  <2> QED
    BY <1>1, <1>2, <2>2, <2>4 DEF Answered, UnjoinAnswered, Same
<1>4. CASE \E u \in Ids : /\ tasks[u].kind = "BULK"
                          /\ tasks' = [tasks EXCEPT ![u].status = "FAILED"]
  <2>1. PICK u \in Ids : tasks[u].kind = "BULK" /\ tasks' = SetStatus(tasks, u, "FAILED")
    BY <1>4 DEF SetStatus
  <2>2. KindsKept
    BY <1>2, <2>1, KindOfRow DEF KindsKept
  <2>3. Same(tasks, tasks', {u})
    BY <1>2, <2>1, StatusUpdate DEF Status
  <2> QED
    BY <1>1, <1>2, <2>1, <2>2, <2>3 DEF Answered, UnjoinAnswered, Same
<1>5. CASE UNCHANGED tasks
  BY <1>1, <1>5, NothingAnswered DEF Answered
<1> QED
  BY <1>3, <1>4, <1>5 DEF ServeClaim

(* A renewal ends none either.                                              *)
LEMMA RenewAnswers ==
  ASSUME TypeOK, NEW t \in Ids, ServeRenew(t)
  PROVE  Answered /\ HeldKept
<1>1. LeftMoves /\ HeldKept
  BY DEF ServeRenew, LeftMoves, HeldKept
<1>2. tasks \in Seq(TaskRow) /\ Ids = 1 .. Len(tasks)
  BY DEF TypeOK, Ids
<1>3. CASE tasks' = [tasks EXCEPT ![t].lease = LeaseTicks]
  <2>1. tasks' = SetLease(tasks, t, LeaseTicks)
    BY <1>3 DEF SetLease
  <2>2. KindsKept
    BY <1>2, <2>1, KindOfRow DEF KindsKept
  <2>3. Kept
    BY RenewShape
  <2> QED
    BY <1>1, <1>2, <2>2, <2>3 DEF Answered, UnjoinAnswered, Kept, Same
<1>4. CASE UNCHANGED tasks
  BY <1>1, <1>4, NothingAnswered DEF Answered
<1> QED
  BY <1>3, <1>4 DEF ServeRenew

(* The report of a success of UNJOIN_NODE takes the credential.             *)
LEMMA ReportAnswers ==
  ASSUME TypeOK, NEW e \in log, e.task \in Ids, NEW ok, ServeReport(e, ok)
  PROVE  Answered /\ HeldKept
<1>1. tasks \in Seq(TaskRow) /\ Ids = 1 .. Len(tasks)
  BY DEF TypeOK, Ids
<1>2. CASE UNCHANGED server
  BY <1>2, NothingAnswered
<1>3. CASE /\ tasks[e.task].status = "RUNNING"
           /\ \E s \in Verdict(tasks[e.task].kind, e.outcome) :
                tasks' = [tasks EXCEPT ![e.task].status = s, ![e.task].lease = 0]
           /\ IF tasks[e.task].kind = "UNJOIN" /\ e.outcome = "complete"
                THEN MarkUnjoined("task") ELSE UNCHANGED <<accepted, approved, left>>
  <2>1. PICK s \in Verdict(tasks[e.task].kind, e.outcome) :
          tasks' = SetRow(tasks, e.task, s, 0)
    BY <1>3 DEF SetRow
  <2>2. KindsKept
    BY <1>1, <2>1, KindOfRow DEF KindsKept
  <2>3. s \in Status
    BY DEF Verdict, Status
  <2>4. Same(tasks, tasks', {e.task})
    BY <2>1, <2>3, RowEnded
  <2>5. HeldKept /\ LeftMoves
    BY <1>3 DEF HeldKept, LeftMoves, MarkUnjoined, Release, Live
  <2>6. UnjoinAnswered
    BY <1>1, <1>3, <2>4 DEF UnjoinAnswered, Same, MarkUnjoined, Release
  <2> QED
    BY <2>2, <2>5, <2>6 DEF Answered
<1> QED
  BY <1>2, <1>3 DEF ServeReport

(* The command `dure unjoin` takes the credential and ends no task.         *)
LEMMA UnjoinAnswers ==
  ASSUME ServeUnjoin
  PROVE  Answered /\ HeldKept /\ accepted' = "NONE"
BY NothingAnswered DEF ServeUnjoin, MarkUnjoined, Release, Answered, LeftMoves, HeldKept

----------------------------------------------------------------------------
(* Every step but an execution, a recording and a leasing claim.            *)
LEMMA LeavingKept ==
  ASSUME LeaveInv, Routine, Answered, container' \in {container, FALSE},
         accepted' = "HELD" => accepted = "HELD" \/ pc' \in {"off", "heartbeat"}
  PROVE  Leaving'
<1> USE DEF LeaveInv, Leaving
<1>1. /\ log' = log /\ Moves /\ QueueStep
      /\ \A e \in log : e.task \in Ids
      /\ \A t \in Ids : tasks'[t].kind = tasks[t].kind
  BY DEF Routine, Answered, KindsKept, IInv, Journal, LogTasks
<1>2. \A t \in Ids : Live(t)' => Live(t)
  BY <1>1, QueueFacts DEF IInv
<1>3. pc' \in {"execute", "record", "report", "replay"} =>
        UNCHANGED process /\ cur \in Ids
  BY <1>1 DEF Moves, process, IInv, TypeOK
<1>4. pc \in {"execute", "record"} => \A e \in log : e.task # cur /\ ~Live(e.task)
  BY DEF IInv, Journal, Fresh
<1>5. StoppedFirst'
  BY <1>1, <1>2 DEF StoppedFirst, Live
<1>6. StoppedAtRecord'
  BY <1>1, <1>3 DEF StoppedAtRecord, process
<1>7. Departed'
  <2> SUFFICES ASSUME left' = "task"
               PROVE  accepted' = "NONE" /\ container' = FALSE /\ pc' # "execute"
    BY DEF Departed
  <2>1. CASE left = "task" /\ (accepted = "NONE" => accepted' = "NONE")
    BY <1>3, <2>1 DEF Departed, process
  <2>2. CASE /\ accepted' = "NONE"
             /\ \E e \in log :
                  e.outcome = "complete" /\ tasks[e.task].kind = "UNJOIN" /\ Live(e.task)
    BY <1>3, <1>4, <2>2 DEF StoppedFirst, process
  <2> QED
    BY <2>1, <2>2 DEF Answered, LeftMoves
<1>8. UnjoinRuns'
  <2> SUFFICES ASSUME pc' \in {"execute", "record"}, tasks'[cur'].kind = "UNJOIN"
               PROVE  tasks'[cur'].status = "RUNNING"
    BY DEF UnjoinRuns
  <2>1. pc' = pc /\ cur' = cur /\ cur \in Ids
    BY <1>3 DEF process
  <2>2. tasks[cur].kind = "UNJOIN" /\ tasks[cur].status = "RUNNING"
    BY <1>1, <2>1 DEF UnjoinRuns
  <2> QED
    BY <1>4, <2>1, <2>2 DEF Answered, UnjoinAnswered
<1>9. UnjoinUnserved'
  <2> SUFFICES ASSUME pc' \in {"report", "replay"}, accepted' = "HELD",
                      NEW e \in log', e.task = cur', tasks'[cur'].kind = "UNJOIN",
                      e.outcome = "complete"
               PROVE  tasks'[cur'].status = "RUNNING"
    BY DEF UnjoinUnserved
  <2>1. pc' = pc /\ cur' = cur /\ cur \in Ids /\ accepted = "HELD" /\ e \in log
    BY <1>1, <1>3 DEF process
  <2>2. tasks[cur].kind = "UNJOIN" /\ tasks[cur].status = "RUNNING"
    BY <1>1, <2>1 DEF UnjoinUnserved
  <2>3. \A f \in log : f.task = cur => f = e
    BY <2>1 DEF IInv, Journal, Once
  <2> QED
    BY <2>1, <2>2, <2>3 DEF Answered, UnjoinAnswered
<1> QED
  BY <1>5, <1>6, <1>7, <1>8, <1>9

(* An execution of UNJOIN_NODE succeeds only with the containers stopped.   *)
LEMMA ExecuteLeaving ==
  ASSUME LeaveInv, NEW o \in Outcome, Execute(o)
  PROVE  Leaving'
<1> USE DEF LeaveInv, Leaving
<1>1. /\ pc = "execute" /\ pc' = "record" /\ cur' = cur /\ outcome' = o
      /\ tasks' = tasks /\ accepted' = accepted /\ left' = left /\ log' = log
      /\ container' \in Effect(tasks[cur].kind, o)
  BY DEF Execute, server, journal
<1>2. \A e \in log : ~Live(e.task)
  BY <1>1 DEF IInv, Journal, Fresh
<1>3. StoppedFirst'
  BY <1>1, <1>2 DEF StoppedFirst, Live
<1>4. StoppedAtRecord'
  BY <1>1 DEF StoppedAtRecord, Effect
<1> QED
  BY <1>1, <1>3, <1>4 DEF Departed, UnjoinRuns, UnjoinUnserved

(* A recording speaks of what has just been executed.                       *)
LEMMA RecordLeaving ==
  ASSUME LeaveInv, Record
  PROVE  Leaving'
<1> USE DEF LeaveInv, Leaving
<1>1. /\ pc = "record" /\ pc' = "report" /\ cur' = cur /\ outcome' = outcome
      /\ tasks' = tasks /\ accepted' = accepted /\ left' = left
      /\ container' = container /\ log' = log \cup {Result}
  BY DEF Record, server, host
<1>2. Result.task = cur /\ Result.outcome = outcome
  BY DEF Result
<1>3. StoppedFirst'
  BY <1>1, <1>2 DEF StoppedFirst, StoppedAtRecord, Live
<1> QED
  BY <1>1, <1>3 DEF StoppedAtRecord, Departed, UnjoinRuns, UnjoinUnserved

(* An answered claim is one of a node that has not left.                    *)
LEMMA ClaimLeaving ==
  ASSUME LeaveInv, ClaimAnswered
  PROVE  Leaving'
<1> USE DEF LeaveInv, Leaving
<1>1. PICK t \in 0 .. Len(tasks) : ServeClaim(t) /\ ClaimReply(t)
  BY DEF ClaimAnswered
<1>2. t = 0 \/ t \in Ids
  BY DEF Ids, IInv, TypeOK
<1>3. Answered /\ HeldKept
  BY <1>1, ClaimAnswers DEF IInv
<1>4. UNCHANGED <<journal, host, cli, stray, faults>>
  BY DEF ClaimAnswered
<1>5. CASE t = 0
  <2>1. Goto("heartbeat") /\ QueueStep /\ Granted
    BY <1>1, <1>5, ServedRoutine DEF ClaimReply, IInv
  <2>2. Routine
    BY <1>4, <2>1, StillRoutine DEF Goto, Routine, Moves, journal, IInv
  <2> QED
    BY <1>3, <1>4, <2>2, LeavingKept DEF HeldKept, host
<1>6. CASE t \in Ids
  <2>1. Leased(t)
    BY <1>1, <1>6, ServedRoutine DEF IInv
  <2>2. t # 0 /\ tasks'[t].status = "RUNNING" /\ QueueStep
    <3>1. QueueStep
      BY <1>6, <2>1, Zenon DEF QueueStep
    <3>2. t \in 1 .. Len(tasks) /\ Len(tasks) \in Nat
      BY <1>6 DEF Ids, IInv, TypeOK
    <3> QED
      BY <2>1, <3>1, <3>2 DEF Leased
  <2>3. /\ pc' \in {"execute", "replay"} /\ cur' = t
        /\ log' = log /\ container' = container
        /\ left' = left /\ accepted = "HELD" /\ accepted' = accepted
    BY <1>1, <1>4, <2>2 DEF ClaimReply, ServeClaim, Authenticated, journal, host
  <2>4. \A u \in Ids : Live(u)' => Live(u)
    BY <2>2, QueueFacts DEF IInv
  <2>5. \A e \in log : e.task \in Ids
    BY DEF IInv, Journal, LogTasks
  <2>6. StoppedFirst'
    BY <1>3, <2>3, <2>4, <2>5 DEF StoppedFirst, Answered, KindsKept, Live
  <2>7. StoppedAtRecord' /\ Departed' /\ UnjoinRuns' /\ UnjoinUnserved'
    BY <2>2, <2>3 DEF StoppedAtRecord, Departed, UnjoinRuns, UnjoinUnserved
  <2> QED
    BY <2>6, <2>7
<1> QED
  BY <1>2, <1>5, <1>6

----------------------------------------------------------------------------
(* The credential is forgotten only after it stopped counting.              *)
Forgets == registered = TRUE /\ registered' = FALSE => accepted # "HELD"

(* Steps of an agent that runs, and steps that leave agent and command.     *)
LEMMA RunningLetsGo ==
  ASSUME LettingGo, pc # "off", UNCHANGED <<registered, service, cli>>, HeldKept,
         pc' \in {"disable", "retire"} => pc' = pc \/ accepted' # "HELD"
  PROVE  LettingGo' /\ Forgets
BY DEF LettingGo, HeldKept, Forgets

LEMMA OthersLetGo ==
  ASSUME LettingGo, UNCHANGED <<registered, service, cli, pc>>, HeldKept
  PROVE  LettingGo' /\ Forgets
BY DEF LettingGo, HeldKept, Forgets

----------------------------------------------------------------------------
Leaves == Leaving' /\ LettingGo' /\ Forgets

(* A credential that is not accepted stays so, and the queue is left alone. *)
LEMMA CredentialAnswers ==
  ASSUME UNCHANGED tasks,
         left' = "task" => left = "task" /\ (accepted = "NONE" => accepted' = "NONE")
  PROVE  Answered
BY NothingAnswered DEF Answered, LeftMoves

LEMMA QuietLeaves ==
  ASSUME LeaveInv, Heartbeat \/ Defer \/ Disable \/ Retire \/ Start \/ Crash
  PROVE  Leaves
<1> USE DEF LeaveInv
<1>1. Routine
  BY QuietProcess
<1>2. CASE Heartbeat \/ Defer
  <2>1. /\ UNCHANGED <<server, host, cli>> /\ pc # "off"
        /\ pc' \notin {"disable", "retire"}
    BY <1>2 DEF Heartbeat, Defer, Goto
  <2>2. Answered /\ HeldKept
    BY <2>1, NothingAnswered
  <2>3. Leaving'
    BY <1>1, <2>1, <2>2, LeavingKept DEF HeldKept, host
  <2>4. LettingGo' /\ Forgets
    BY <2>1, <2>2, RunningLetsGo DEF host
  <2> QED
    BY <2>3, <2>4 DEF Leaves
<1>3. CASE Disable
  <2>1. Answered /\ HeldKept
    BY <1>3, NothingAnswered DEF Disable
  <2>2. Leaving'
    BY <1>1, <1>3, <2>1, LeavingKept DEF HeldKept, Disable
  <2>3. LettingGo' /\ Forgets
    BY <1>3, <2>1 DEF Disable, Goto, LettingGo, Forgets, HeldKept
  <2> QED
    BY <2>2, <2>3 DEF Leaves
<1>4. CASE Retire
  <2>1. Answered
    BY <1>4, CredentialAnswers DEF Retire, Retired
  <2>2. Leaving'
    BY <1>1, <1>4, <2>1, LeavingKept DEF Retire, Retired
  <2>3. LettingGo' /\ Forgets
    BY <1>4 DEF Retire, Retired, Goto, LettingGo, Forgets
  <2> QED
    BY <2>2, <2>3 DEF Leaves
<1>5. CASE Start
  <2>1. UNCHANGED <<server, host, cli>> /\ pc' = "heartbeat" /\ service /\ registered
    BY <1>5 DEF Start, Goto
  <2>2. Answered /\ HeldKept
    BY <2>1, NothingAnswered
  <2>3. Leaving'
    BY <1>1, <2>1, <2>2, LeavingKept DEF HeldKept, host
  <2>4. LettingGo' /\ Forgets
    BY <2>1, <2>2 DEF LettingGo, HeldKept, Forgets, host
  <2> QED
    BY <2>3, <2>4 DEF Leaves
<1>6. CASE Crash
  <2>1. UNCHANGED <<server, host>> /\ pc' = "off" /\ cli' = "idle"
    BY <1>6 DEF Crash, Goto
  <2>2. Answered /\ HeldKept
    BY <2>1, NothingAnswered
  <2>3. Leaving'
    BY <1>1, <2>1, <2>2, LeavingKept DEF HeldKept, host
  <2>4. LettingGo' /\ Forgets
    BY <2>1 DEF LettingGo, Forgets, host
  <2> QED
    BY <2>3, <2>4 DEF Leaves
<1> QED
  BY <1>2, <1>3, <1>4, <1>5, <1>6

(* A step of a running agent that has called the control plane.             *)
LEMMA CallLeaves ==
  ASSUME LeaveInv, Routine, Answered, HeldKept, pc # "off",
         UNCHANGED <<host, cli>>, pc' \in {"disable", "retire"} => pc' = pc \/ accepted' # "HELD"
  PROVE  Leaves
<1>1. Leaving'
  BY LeavingKept DEF HeldKept, host
<1>2. LettingGo' /\ Forgets
  BY RunningLetsGo DEF host, LeaveInv
<1> QED
  BY <1>1, <1>2 DEF Leaves

LEMMA SilentLeaves ==
  ASSUME LeaveInv, ClaimUnanswered \/ ReportUnanswered \/ FlushUnanswered \/ ReplayUnanswered
  PROVE  Leaves
<1>1. Routine
  BY SilentProcess DEF LeaveInv
<1>2. /\ UNCHANGED server /\ UNCHANGED <<host, cli>>
      /\ pc # "off" /\ pc' = "heartbeat"
  BY DEF ClaimUnanswered, ReportUnanswered, FlushUnanswered, ReplayUnanswered, Unanswered, Goto
<1> QED
  BY <1>1, <1>2, NothingAnswered, CallLeaves

(* A report of the task the agent works on that makes it stop has taken the *)
(* credential: the task was still running, so this is its first answer.     *)
LEMMA StopIsAnswered ==
  ASSUME LeaveInv, pc \in {"report", "replay"}, NEW e \in log, e.task = cur,
         NEW ok, ServeReport(e, ok), AfterReport(e, ok), pc' = "disable"
  PROVE  accepted' # "HELD"
<1>1. tasks[cur].kind = "UNJOIN" /\ e.outcome = "complete"
  BY DEF AfterReport, Goto
<1>2. accepted = "HELD" => tasks[cur].status = "RUNNING"
  BY <1>1 DEF LeaveInv, Leaving, UnjoinUnserved
<1> QED
  BY <1>1, <1>2 DEF ServeReport, MarkUnjoined, Release, Authenticated

LEMMA ServedLeaves ==
  ASSUME LeaveInv, ReportAnswered \/ FlushAnswered \/ ReplayAnswered \/ Renew
  PROVE  Leaves
<1>1. Routine /\ IInv /\ TypeOK
  BY ServedProcess DEF LeaveInv, IInv
<1>2. CASE ReportAnswered
  <2>1. Result \in log /\ Result.task = cur /\ Result.task \in Ids
    BY <1>1, <1>2, Reported DEF ReportAnswered, Result
  <2>2. pc = "report" /\ UNCHANGED <<host, cli>>
    BY <1>2 DEF ReportAnswered
  <2>3. CASE ~Authenticated /\ UNCHANGED server /\ Goto("heartbeat")
    BY <1>1, <2>2, <2>3, NothingAnswered, CallLeaves DEF Goto
  <2>4. CASE \E ok \in BOOLEAN : ServeReport(Result, ok) /\ AfterReport(Result, ok)
    <3>1. PICK ok \in BOOLEAN : ServeReport(Result, ok) /\ AfterReport(Result, ok)
      BY <2>4
    <3>2. Answered /\ HeldKept
      BY <1>1, <2>1, <3>1, ReportAnswers
    <3>3. pc' \in {"disable", "heartbeat"}
      BY <3>1 DEF AfterReport, Goto
    <3>4. pc' = "disable" => accepted' # "HELD"
      BY <2>1, <2>2, <3>1, StopIsAnswered
    <3> QED
      BY <1>1, <2>2, <3>2, <3>3, <3>4, CallLeaves
  <2> QED
    BY <1>2, <2>3, <2>4 DEF ReportAnswered
<1>3. CASE FlushAnswered
  <2>1. /\ pc = "flush" /\ UNCHANGED <<host, cli>>
        /\ pc' \in {"heartbeat", "flush"}
    BY <1>3 DEF FlushAnswered, Goto
  <2>2. PICK e \in pending : (\E ok \in BOOLEAN : ServeReport(e, ok)) \/ UNCHANGED server
    BY <1>3 DEF FlushAnswered
  <2>3. e \in log /\ e.task \in Ids
    BY <1>1, Reported
  <2>4. Answered /\ HeldKept
    BY <1>1, <2>2, <2>3, ReportAnswers, NothingAnswered
  <2> QED
    BY <1>1, <2>1, <2>4, CallLeaves
<1>4. CASE ReplayAnswered
  <2>1. PICK ok \in BOOLEAN :
          ServeReport(Remembered(cur), ok) /\ AfterReport(Remembered(cur), ok)
    BY <1>4 DEF ReplayAnswered
  <2>2. pc = "replay" /\ UNCHANGED <<host, cli>>
    BY <1>4 DEF ReplayAnswered
  <2>3. \E f \in log : f.task = cur
    BY <1>1, <2>2 DEF IInv, Calls, AtReplay, Journal, CompletedLogged
  <2>4. Remembered(cur) \in log /\ Remembered(cur).task = cur
    BY <2>3 DEF Remembered
  <2>5. Remembered(cur).task \in Ids
    BY <1>1, <2>4, Reported
  <2>6. Answered /\ HeldKept
    BY <1>1, <2>1, <2>4, <2>5, ReportAnswers
  <2>7. pc' \in {"disable", "heartbeat"}
    BY <2>1 DEF AfterReport, Goto
  <2>8. pc' = "disable" => accepted' # "HELD"
    BY <2>1, <2>2, <2>4, StopIsAnswered
  <2> QED
    BY <1>1, <2>2, <2>6, <2>7, <2>8, CallLeaves
<1>5. CASE Renew
  <2>1. /\ pc \in {"execute", "record", "report"} /\ pc' = pc /\ UNCHANGED <<host, cli>>
    BY <1>5 DEF Renew, process
  <2>2. cur \in Ids
    BY <1>1, <2>1 DEF TypeOK
  <2>3. Answered /\ HeldKept
    BY <1>1, <1>5, <2>2, RenewAnswers, NothingAnswered DEF Renew, Unanswered
  <2> QED
    BY <1>1, <2>1, <2>3, CallLeaves
<1> QED
  BY <1>2, <1>3, <1>4, <1>5

----------------------------------------------------------------------------
(* Late requests, the command and administrators.                           *)
LEMMA StrayLeaves ==
  ASSUME LeaveInv, NEW r \in stray, ServeStray(r) \/ LoseStray(r)
  PROVE  Leaves
<1>1. Routine /\ IInv /\ TypeOK
  BY StrayRoutine DEF LeaveInv, IInv
<1>2. UNCHANGED <<host, cli, pc>>
  BY DEF ServeStray, LoseStray, process
<1>3. r.op \in {"CLAIM", "RENEW", "REPORT", "UNJOIN"}
  BY <1>1 DEF TypeOK, Call, Report
<1>4. /\ r.op = "REPORT" => r.entry \in log /\ r.entry.task \in Ids
      /\ r.op = "RENEW" => r.task \in Ids
  BY <1>1, Reported DEF IInv, Calls, StrayLogged
<1>5. Answered /\ HeldKept
  <2>1. CASE LoseStray(r)
    BY <2>1, NothingAnswered DEF LoseStray
  <2>2. CASE ServeStray(r) /\ r.op = "CLAIM"
    BY <1>1, <2>2, ClaimAnswers DEF ServeStray
  <2>3. CASE ServeStray(r) /\ r.op = "RENEW"
    BY <1>1, <1>4, <2>3, RenewAnswers DEF ServeStray
  <2>4. CASE ServeStray(r) /\ r.op = "REPORT"
    BY <1>1, <1>4, <2>4, ReportAnswers DEF ServeStray
  <2>5. CASE ServeStray(r) /\ r.op = "UNJOIN"
    BY <2>5, UnjoinAnswers DEF ServeStray
  <2> QED
    BY <1>3, <2>1, <2>2, <2>3, <2>4, <2>5
<1>6. Leaving'
  BY <1>1, <1>2, <1>5, LeavingKept DEF HeldKept, host
<1>7. LettingGo' /\ Forgets
  BY <1>2, <1>5, OthersLetGo DEF host, LeaveInv
<1> QED
  BY <1>6, <1>7 DEF Leaves

LEMMA CommandLeaves ==
  ASSUME LeaveInv, UnjoinStop \/ UnjoinDisable \/ UnjoinPost \/ UnjoinRetire \/ Join
  PROVE  Leaves
<1> USE DEF LeaveInv
<1>1. Routine /\ TypeOK
  BY CommandRoutine DEF IInv
<1>2. CASE UnjoinStop
  <2>1. Answered /\ HeldKept
    BY <1>2, NothingAnswered DEF UnjoinStop
  <2>2. Leaving'
    BY <1>1, <1>2, <2>1, LeavingKept DEF UnjoinStop, HeldKept
  <2>3. LettingGo' /\ Forgets
    BY <1>2, <2>1 DEF UnjoinStop, LettingGo, HeldKept, Forgets, process
  <2> QED
    BY <2>2, <2>3 DEF Leaves
<1>3. CASE UnjoinDisable
  <2>1. Answered /\ HeldKept
    BY <1>3, NothingAnswered DEF UnjoinDisable
  <2>2. Leaving'
    BY <1>1, <1>3, <2>1, LeavingKept DEF UnjoinDisable, HeldKept
  <2>3. LettingGo' /\ Forgets
    BY <1>3, <2>1 DEF UnjoinDisable, Goto, LettingGo, HeldKept, Forgets, process
  <2> QED
    BY <2>2, <2>3 DEF Leaves
<1>4. CASE UnjoinPost
  <2>1. Answered /\ HeldKept /\ (cli' = "retire" => accepted' = "NONE")
    BY <1>4, NothingAnswered, UnjoinAnswers DEF UnjoinPost, Unanswered
  <2>2. UNCHANGED <<host, pc>> /\ cli = "post" /\ cli' \in {"retire", "idle"}
    BY <1>4 DEF UnjoinPost, process
  <2>3. Leaving'
    BY <1>1, <2>1, <2>2, LeavingKept DEF HeldKept, host
  <2>4. LettingGo' /\ Forgets
    BY <2>1, <2>2 DEF LettingGo, Forgets, host
  <2> QED
    BY <2>3, <2>4 DEF Leaves
<1>5. CASE UnjoinRetire
  <2>1. Answered
    BY <1>5, CredentialAnswers DEF UnjoinRetire, Retired
  <2>2. Leaving'
    BY <1>1, <1>5, <2>1, LeavingKept DEF UnjoinRetire, Retired
  <2>3. LettingGo' /\ Forgets
    BY <1>5 DEF UnjoinRetire, Retired, LettingGo, Forgets, process
  <2> QED
    BY <2>2, <2>3 DEF Leaves
<1>6. CASE Join
  <2>1. UNCHANGED tasks /\ ((left' = left /\ accepted' = accepted) \/ left' = "no")
    BY <1>6 DEF Join, server
  <2>2. Answered
    BY <2>1, CredentialAnswers
  <2>3. /\ container' = container /\ pc' = pc /\ cli = "idle" /\ cli' = "idle"
        /\ registered' = TRUE
        /\ accepted' = accepted \/ (registered = FALSE /\ pc = "off")
    BY <1>1, <1>6 DEF Join, process, server, LettingGo, TypeOK
  <2>4. Leaving'
    BY <1>1, <2>2, <2>3, LeavingKept
  <2>5. LettingGo' /\ Forgets
    BY <2>3 DEF LettingGo, Forgets
  <2> QED
    BY <2>4, <2>5 DEF Leaves
<1> QED
  BY <1>2, <1>3, <1>4, <1>5, <1>6

(* What an administrator does to the queue.                                 *)
LEMMA CreateAnswers ==
  ASSUME TypeOK, NEW kind \in Kinds, Create(kind)
  PROVE  Answered
<1> DEFINE row == [kind |-> kind, status |-> "QUEUED", lease |-> 0]
<1>1. tasks' = Append(tasks, row) /\ tasks \in Seq(TaskRow) /\ Ids = 1 .. Len(tasks)
  BY DEF Create, TypeOK, Ids
<1>2. \A t \in Ids : tasks'[t] = tasks[t]
  <2> HIDE DEF row
  <2> QED
    BY <1>1
<1> QED
  BY <1>2 DEF Create, Answered, KindsKept, UnjoinAnswered, LeftMoves

LEMMA CancelAnswers ==
  ASSUME TypeOK, NEW t \in Ids, Cancel(t)
  PROVE  Answered
<1>1. PICK s \in {"FAILED", "CANCELED"} : tasks' = SetStatus(tasks, t, s)
  BY DEF Cancel, SetStatus
<1>2. tasks \in Seq(TaskRow) /\ Ids = 1 .. Len(tasks) /\ s \in Status
  BY DEF TypeOK, Ids, Status
<1>3. KindsKept
  BY <1>1, <1>2, KindOfRow DEF KindsKept
<1>4. Same(tasks, tasks', {t})
  BY <1>1, <1>2, StatusUpdate
<1>5. tasks[t].status = "QUEUED" \/ tasks[t].kind \in {"BULK", "BENCHMARK"}
  BY DEF Cancel
<1>6. UnjoinAnswered
  BY <1>2, <1>4, <1>5 DEF UnjoinAnswered, Same
<1> QED
  BY <1>3, <1>6 DEF Cancel, Answered, LeftMoves

LEMMA RevokeAnswers ==
  ASSUME TypeOK, Revoke
  PROVE  Answered /\ HeldKept
<1>1. \A t \in Ids : tasks[t] \in TaskRow
  BY DEF TypeOK, Ids
<1>2. \A t \in Ids : tasks'[t] = Revoked(tasks[t])
  BY DEF Revoke
<1>3. ASSUME NEW row \in TaskRow
      PROVE  Revoked(row).kind = row.kind /\ (row.kind # "BULK" => Revoked(row) = row)
  <2>1. CASE row.kind = "BULK" /\ row.status = "QUEUED"
    BY <2>1 DEF Revoked, TaskRow
  <2>2. CASE row.kind = "BULK" /\ row.status = "RUNNING"
    BY <2>2 DEF Revoked, TaskRow
  <2>3. CASE row.kind = "BULK" /\ row.status \notin {"QUEUED", "RUNNING"}
    BY <2>3 DEF Revoked
  <2>4. CASE row.kind # "BULK"
    BY <2>4 DEF Revoked
  <2> QED
    BY <2>1, <2>2, <2>3, <2>4
<1>4. KindsKept /\ UnjoinAnswered
  BY <1>1, <1>2, <1>3 DEF KindsKept, UnjoinAnswered
<1> QED
  BY <1>4 DEF Revoke, Release, Answered, LeftMoves, HeldKept

LEMMA TickAnswers ==
  ASSUME TypeOK, Tick
  PROVE  Answered
<1>1. \A t \in Ids : tasks[t] \in TaskRow
  BY DEF TypeOK, Ids
<1>2. KindsKept
  BY <1>1 DEF Tick, KindsKept, TaskRow
<1>3. \A t \in Ids : tasks'[t].status = tasks[t].status
  BY TickShape DEF Kept, Same, Ids
<1> QED
  BY <1>2, <1>3 DEF Tick, Answered, UnjoinAnswered, LeftMoves

LEMMA AdminLeaves ==
  ASSUME LeaveInv,
         \/ \E kind \in Kinds : Create(kind)
         \/ \E t \in Ids : Cancel(t)
         \/ Approve \/ Revoke \/ Rotate \/ Install \/ Tick
  PROVE  Leaves
<1>1. Routine /\ TypeOK /\ LettingGo
  BY AdminRoutine DEF LeaveInv, IInv
<1>2. ASSUME Answered, HeldKept, UNCHANGED <<container, registered, service, cli, pc>>
      PROVE  Leaves
  <2>1. Leaving'
    BY <1>1, <1>2, LeavingKept DEF HeldKept
  <2>2. LettingGo' /\ Forgets
    BY <1>1, <1>2, OthersLetGo
  <2> QED
    BY <2>1, <2>2 DEF Leaves
<1>3. CASE \E kind \in Kinds : Create(kind)
  BY <1>1, <1>2, <1>3, CreateAnswers DEF Create, HeldKept, host, process
<1>4. CASE \E t \in Ids : Cancel(t)
  BY <1>1, <1>2, <1>4, CancelAnswers DEF Cancel, HeldKept, host, process
<1>5. CASE Approve
  BY <1>2, <1>5, CredentialAnswers DEF Approve, HeldKept, host, process
<1>6. CASE Revoke
  BY <1>1, <1>2, <1>6, RevokeAnswers DEF Revoke, host, process
<1>7. CASE Rotate
  BY <1>2, <1>7, CredentialAnswers DEF Rotate, HeldKept, host, process
<1>8. CASE Tick
  BY <1>1, <1>2, <1>8, TickAnswers DEF Tick, HeldKept, host, process
<1>9. CASE Install
  <2>1. /\ UNCHANGED <<tasks, left, container, cli>> /\ accepted = "OTHER"
        /\ registered' = TRUE /\ pc' \in {"heartbeat", "off"} /\ cli = "idle"
    BY <1>9 DEF Install, Goto
  <2>2. Answered
    BY <2>1, CredentialAnswers DEF LeaveInv, Leaving, Departed
  <2>3. Leaving'
    BY <1>1, <2>1, <2>2, LeavingKept
  <2>4. LettingGo' /\ Forgets
    BY <2>1 DEF LettingGo, Forgets
  <2> QED
    BY <2>3, <2>4 DEF Leaves
<1> QED
  BY <1>3, <1>4, <1>5, <1>6, <1>7, <1>8, <1>9

(* The three steps that decide what the agent works on.                     *)
LEMMA WorkLeaves ==
  ASSUME LeaveInv, ClaimAnswered \/ Record \/ \E o \in Outcome : Execute(o)
  PROVE  Leaves
<1>1. Leaving'
  BY ClaimLeaving, RecordLeaving, ExecuteLeaving
<1>2. UNCHANGED <<registered, service, cli>> /\ pc # "off"
  BY DEF ClaimAnswered, Record, Execute, host
<1>3. HeldKept
  BY ClaimAnswers DEF ClaimAnswered, Record, Execute, server, HeldKept, LeaveInv, IInv
<1>4. pc' \notin {"disable", "retire"}
  BY DEF ClaimAnswered, ClaimReply, Record, Execute, Goto
<1>5. LettingGo' /\ Forgets
  BY <1>2, <1>3, <1>4, RunningLetsGo DEF LeaveInv
<1> QED
  BY <1>1, <1>5 DEF Leaves

LEMMA StepLeaves ==
  ASSUME LeaveInv, [Next]_vars
  PROVE  Leaves
<1>1. CASE Process
  BY <1>1, QuietLeaves, SilentLeaves, ServedLeaves, WorkLeaves DEF Process
<1>2. CASE UNCHANGED vars
  <2>1. UNCHANGED <<server, journal, process, host, cli, stray, faults>>
    BY <1>2 DEF vars
  <2>2. Routine
    BY <2>1, StillRoutine DEF LeaveInv, IInv, Routine, Moves, journal
  <2>3. Answered /\ HeldKept
    BY <2>1, NothingAnswered
  <2>4. Leaving'
    BY <2>1, <2>2, <2>3, LeavingKept DEF HeldKept, host
  <2>5. LettingGo' /\ Forgets
    BY <2>1, <2>3, OthersLetGo DEF host, process, LeaveInv
  <2> QED
    BY <2>4, <2>5 DEF Leaves
<1> QED
  BY <1>1, <1>2, StrayLeaves, CommandLeaves, AdminLeaves DEF Next

(* The inductive invariant of leaving: a recorded stop that has not been    *)
(* answered yet finds nothing running, a node that left by its task runs    *)
(* nothing, and who is about to forget the credential has lost it.          *)
THEOREM LeaveInvariant == Spec => []LeaveInv
<1>1. Init => LeaveInv
  <2>1. Init => IInv
    BY InitIInv
  <2> QED
    BY <2>1 DEF Init, LeaveInv, Leaving, LettingGo, StoppedFirst, StoppedAtRecord, Departed,
       UnjoinRuns, UnjoinUnserved
<1>2. LeaveInv /\ [Next]_vars => LeaveInv'
  BY StepIInv, StepLeaves DEF LeaveInv, Leaves
<1> QED
  BY <1>1, <1>2, PTL DEF Spec

(* No node gives up a credential that still counts, and none that left by   *)
(* an UNJOIN_NODE task runs a deployment, whatever requests arrive late,    *)
(* whatever crashes, and however agent and command interleave.              *)
THEOREM LeftClean == Spec => LeavingIsClean
<1> DEFINE Step == /\ registered /\ ~registered' => accepted # "HELD"
                   /\ left' = "task" => ~container'
<1>1. LeaveInv /\ [Next]_vars => [Step]_vars
  <2> SUFFICES ASSUME LeaveInv, [Next]_vars PROVE Step
    BY Zenon
  <2>1. Leaves
    BY StepLeaves
  <2>2. registered \in BOOLEAN /\ registered' \in BOOLEAN
    BY StepIInv DEF LeaveInv, IInv, TypeOK
  <2>3. registered /\ ~registered' => accepted # "HELD"
    BY <2>1, <2>2 DEF Leaves, Forgets
  <2>4. left' = "task" => container' = FALSE
    BY <2>1 DEF Leaves, Leaving, Departed
  <2> QED
    BY <2>3, <2>4
<1> QED
  BY <1>1, LeaveInvariant, PTL DEF Spec, LeavingIsClean
=============================================================================
