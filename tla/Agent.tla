------------------------------- MODULE Agent -------------------------------
(***************************************************************************)
(* The task loop of one node agent (agent.py), the journal it keeps on     *)
(* disk, and the part of the control plane it talks to: the node's task    *)
(* queue with its leases, and the credential of the node.                  *)
(*                                                                         *)
(* An HTTP call may be answered, refused, lost, or time out at the agent   *)
(* and still be served later: such a request is in `stray`.  The agent may *)
(* be killed between any two of its steps; `completed` and `pending` are   *)
(* the journal file, replaced atomically by _atomic_json, and survive.     *)
(***************************************************************************)
EXTENDS Integers, Sequences, FiniteSets

CONSTANTS
  Kinds,        \* the task types this instance creates
  Admin,        \* the operator's requests this instance issues
  HistorySize,  \* outcomes the journal keeps (1000 in _save_history)
  MaxTasks,     \* bound: tasks created on the node
  LeaseTicks,   \* bound: duration of a lease
  MaxStray,     \* bound: timed-out requests still to be served
  MaxFaults     \* bound: agent crashes plus credential rotations

(* BULK is an APPLY of an operation: its expired lease is a failure.  The  *)
(* expired lease of any other type makes the task claimable again.         *)
TaskKind == {"PROBE", "START", "BULK", "BENCHMARK", "UNJOIN"}
Exclusive == TaskKind \ {"PROBE"}   \* NODE_EXCLUSIVE_TASK_TYPE_VALUES
Outcome == {"complete", "failed"}
AdminRequest == {"CANCEL", "ROTATE", "REVOKE", "UNJOIN"}

ASSUME AgentAssumption ==
  /\ Kinds \subseteq TaskKind
  /\ Admin \subseteq AdminRequest
  /\ HistorySize \in Nat \ {0}
  /\ MaxTasks \in Nat /\ MaxStray \in Nat /\ MaxFaults \in Nat
  /\ LeaseTicks \in Nat \ {0}

VARIABLES
  tasks,      \* Task rows of the node in created_at order
  accepted,   \* the credential the control plane accepts for the node
  approved,   \* Node.approved
  left,       \* how the node last gave up its credential: "no", by an UNJOIN
              \* task or by the command `dure unjoin`
  log,        \* every outcome ever written to the journal
  completed,  \* history["completed"]: the tasks whose outcome it still holds
  pending,    \* history["pending_reports"]
  pc,         \* where the agent process is in once(); "off": not running
  cur,        \* the task it works on, 0 if none
  outcome,    \* what the execution returned
  container,  \* containers of a deployment run on the host
  registered, \* the agent's configuration holds a credential
  service,    \* the dure-agent unit is enabled
  cli,        \* where the command `dure unjoin` is; "idle": not running
  stray,      \* requests that timed out and may still be served
  faults      \* crashes and rotations so far

server == <<tasks, accepted, approved, left>>
journal == <<log, completed, pending>>
process == <<pc, cur, outcome>>
host == <<container, registered, service>>
vars == <<server, journal, process, host, cli, stray, faults>>

TaskRow == [kind : TaskKind,
            status : {"QUEUED", "RUNNING", "SUCCEEDED", "FAILED", "CANCELED"},
            lease : 0 .. LeaseTicks]
Entry == [task : 1 .. MaxTasks, outcome : Outcome]
Call == [op : {"CLAIM", "RENEW", "UNJOIN"}, task : 0 .. MaxTasks]
Report == [op : {"REPORT"}, entry : Entry]

----------------------------------------------------------------------------
Ids == 1 .. Len(tasks)
Live(t) == tasks[t].status \in {"QUEUED", "RUNNING"}
Expired(t) == tasks[t].status = "RUNNING" /\ tasks[t].lease = 0
LeaseRunning == \E t \in Ids : tasks[t].status = "RUNNING" /\ tasks[t].lease > 0

ClaimableMutNoExpiry(t) == tasks[t].status = "QUEUED"

Claimable(t) == tasks[t].status = "QUEUED" \/ Expired(t)

(* The row claim_task selects: ORDER BY created_at.                        *)
Oldest(t) ==
  /\ t \in Ids /\ Claimable(t)
  /\ \A u \in Ids : Claimable(u) => t <= u

Smaller(m, n) == IF m < n THEN m ELSE n

SaveHistoryMutAny(t) ==
  {S \in SUBSET (completed \cup {t}) :
     Cardinality(S) = Smaller(HistorySize, Cardinality(completed \cup {t}))}

(* _save_history keeps the last outcomes in the order of the dictionary.   *)
(* That is the order of writing, but the file has its keys sorted, so a    *)
(* restart changes it: any outcome may go, except the one just written.    *)
SaveHistory(t) ==
  {S \in SUBSET (completed \cup {t}) :
     /\ t \in S
     /\ Cardinality(S) = Smaller(HistorySize, Cardinality(completed \cup {t}))}

Remembers(t) == t \in completed

Remembered(t) == CHOOSE e \in log : e.task = t

----------------------------------------------------------------------------
(* The control plane.  node_auth answers 401 unless it accepts the         *)
(* credential the agent holds.                                             *)
Authenticated == accepted = "HELD"

Release == accepted' = "NONE" /\ approved' = FALSE

MarkUnjoined(how) ==   \* _mark_node_unjoined
  Release /\ left' = how

(* agent_claim and claim_task: t is the task leased, 0 if the reply has    *)
(* none.  An expired task of an operation is failed and none is leased.    *)
ServeClaim(t) ==
  /\ Authenticated
  /\ UNCHANGED <<accepted, approved, left>>
  /\ \/ /\ approved /\ ~LeaseRunning /\ Oldest(t)
        /\ ~(tasks[t].kind = "BULK" /\ Expired(t))
        /\ tasks' = [tasks EXCEPT ![t].status = "RUNNING", ![t].lease = LeaseTicks]
     \/ /\ t = 0 /\ approved /\ ~LeaseRunning
        /\ \E u \in Ids : /\ Oldest(u) /\ tasks[u].kind = "BULK" /\ Expired(u)
                          /\ tasks' = [tasks EXCEPT ![u].status = "FAILED"]
     \/ /\ t = 0
        /\ approved => LeaseRunning \/ \A u \in Ids : ~Claimable(u)
        /\ UNCHANGED tasks

(* extend_task                                                             *)
ServeRenew(t) ==
  /\ Authenticated
  /\ UNCHANGED <<accepted, approved, left>>
  /\ tasks' = IF approved /\ tasks[t].status = "RUNNING" /\ ~Expired(t)
                THEN [tasks EXCEPT ![t].lease = LeaseTicks] ELSE tasks

(* The validators of deployment and benchmark results may refuse a success *)
(* report; a failure report is taken as it is.                             *)
Verdict(kind, o) ==
  IF o = "failed" THEN {"FAILED"}
  ELSE IF kind \in {"PROBE", "UNJOIN"} THEN {"SUCCEEDED"} ELSE {"SUCCEEDED", "FAILED"}

(* Whether a report of a task that has ended is answered 200 or 409.       *)
Replayed(t, o) ==
  IF tasks[t].kind \in {"BULK", "BENCHMARK"}
    THEN tasks[t].status = IF o = "complete" THEN "SUCCEEDED" ELSE "FAILED"
    ELSE tasks[t].status \in {"SUCCEEDED", "FAILED"}

ServeReportMutReapplied(e, ok) ==
  /\ Authenticated /\ ok
  /\ tasks[e.task].status # "CANCELED"
  /\ \E s \in Verdict(tasks[e.task].kind, e.outcome) :
       tasks' = [tasks EXCEPT ![e.task].status = s, ![e.task].lease = 0]
  /\ IF tasks[e.task].kind = "UNJOIN" /\ e.outcome = "complete"
       THEN MarkUnjoined("task") ELSE UNCHANGED <<accepted, approved, left>>

(* finish_task with its variants for operations and benchmarks.            *)
ServeReport(e, ok) ==
  /\ Authenticated
  /\ \/ /\ tasks[e.task].status = "RUNNING" /\ ok
        /\ \E s \in Verdict(tasks[e.task].kind, e.outcome) :
             tasks' = [tasks EXCEPT ![e.task].status = s, ![e.task].lease = 0]
        /\ IF tasks[e.task].kind = "UNJOIN" /\ e.outcome = "complete"
             THEN MarkUnjoined("task") ELSE UNCHANGED <<accepted, approved, left>>
     \/ /\ tasks[e.task].status # "RUNNING" /\ ok = Replayed(e.task, e.outcome)
        /\ UNCHANGED server

(* unjoin_node: refused while exclusive work is queued or running.         *)
NodeIdle == \A t \in Ids : Live(t) => tasks[t].kind \notin Exclusive

ServeUnjoin == /\ Authenticated /\ NodeIdle
               /\ MarkUnjoined("command") /\ UNCHANGED tasks

----------------------------------------------------------------------------
(* A call that gets no answer, or one the agent does not act on (401, 409, *)
(* 5xx).  If it timed out, the request may be served later.                *)
Unanswered(r) ==
  /\ UNCHANGED server
  /\ \/ UNCHANGED stray
     \/ Authenticated /\ Cardinality(stray) < MaxStray /\ stray' = stray \cup {r}

ServeStray(r) ==
  /\ stray' = stray \ {r}
  /\ CASE r.op = "CLAIM"  -> \E t \in 0 .. Len(tasks) : ServeClaim(t)
       [] r.op = "RENEW"  -> ServeRenew(r.task)
       [] r.op = "REPORT" -> \E ok \in BOOLEAN : ServeReport(r.entry, ok)
       [] r.op = "UNJOIN" -> ServeUnjoin
  /\ UNCHANGED <<journal, process, host, cli, faults>>

(* The request never arrives, or its credential is no longer accepted.     *)
LoseStray(r) ==
  /\ stray' = stray \ {r}
  /\ UNCHANGED <<server, journal, process, host, cli, faults>>

----------------------------------------------------------------------------
(* The agent process: run() repeats once().  An APIError ends the call of  *)
(* once(), which starts again with a heartbeat.                            *)
Goto(step) == pc' = step /\ cur' = 0 /\ UNCHANGED outcome

HeartbeatMutAlwaysFlush ==
  /\ pc = "heartbeat" /\ Authenticated
  /\ Goto("flush")
  /\ UNCHANGED <<server, journal, host, cli, stray, faults>>

Heartbeat ==
  /\ pc = "heartbeat" /\ Authenticated
  /\ Goto(IF pending = {} THEN "claim" ELSE "flush")
  /\ UNCHANGED <<server, journal, host, cli, stray, faults>>

ClaimReply(t) ==
  IF t = 0 THEN Goto("heartbeat")
  ELSE pc' = (IF Remembers(t) THEN "replay" ELSE "execute") /\ cur' = t /\ UNCHANGED outcome

ClaimAnswered ==
  /\ pc = "claim"
  /\ \E t \in 0 .. Len(tasks) : ServeClaim(t) /\ ClaimReply(t)
  /\ UNCHANGED <<journal, host, cli, stray, faults>>

ClaimUnanswered ==
  /\ pc = "claim"
  /\ Unanswered([op |-> "CLAIM", task |-> 0])
  /\ Goto("heartbeat")
  /\ UNCHANGED <<journal, host, cli, faults>>

EffectMutUnchecked(kind, o) ==
  IF kind \in {"START", "BULK"} /\ o = "complete" THEN {TRUE}
  ELSE IF kind \in {"START", "BULK"} THEN BOOLEAN ELSE {container, FALSE}

(* TaskExecutor.execute.  A failed START may leave containers, a failed    *)
(* UNJOIN may have stopped some.                                           *)
Effect(kind, o) ==
  CASE kind \in {"START", "BULK"} -> IF o = "complete" THEN {TRUE} ELSE BOOLEAN
    [] kind = "UNJOIN"            -> IF o = "complete" THEN {FALSE} ELSE {container, FALSE}
    [] OTHER                      -> {container}

Execute(o) ==
  /\ pc = "execute"
  /\ container' \in Effect(tasks[cur].kind, o)
  /\ outcome' = o /\ pc' = "record" /\ UNCHANGED cur
  /\ UNCHANGED <<server, journal, registered, service, cli, stray, faults>>

(* An exact benchmark already runs (defer_benchmark): no outcome yet.      *)
Defer ==
  /\ pc = "execute" /\ tasks[cur].kind = "BENCHMARK"
  /\ Goto("heartbeat")
  /\ UNCHANGED <<server, journal, host, cli, stray, faults>>

Result == [task |-> cur, outcome |-> outcome]

RecordMutUnsaved ==
  /\ pc = "record"
  /\ pending' = pending \cup {Result}
  /\ pc' = "report" /\ UNCHANGED <<cur, outcome, log, completed>>
  /\ UNCHANGED <<server, host, cli, stray, faults>>

(* _record_terminal_report: outcome and report in one write of the file.   *)
Record ==
  /\ pc = "record"
  /\ log' = log \cup {Result}
  /\ completed' \in SaveHistory(cur)
  /\ pending' = pending \cup {Result}
  /\ pc' = "report" /\ UNCHANGED <<cur, outcome>>
  /\ UNCHANGED <<server, host, cli, stray, faults>>

(* The thread renew_lease, from the claim until the report was sent.       *)
Renew ==
  /\ pc \in {"execute", "record", "report"}
  /\ \/ ServeRenew(cur) /\ UNCHANGED stray
     \/ Unanswered([op |-> "RENEW", task |-> cur])
  /\ UNCHANGED <<journal, process, host, cli, faults>>

(* After the first report of a recorded outcome: only an accepted UNJOIN   *)
(* continues with _finish_unjoin.                                          *)
AfterReport(e, ok) ==
  Goto(IF ok /\ tasks[e.task].kind = "UNJOIN" /\ e.outcome = "complete"
         THEN "disable" ELSE "heartbeat")

(* _send_pending_report right after Record.  A 4xx answer drops the report *)
(* like a 200 does.                                                        *)
ReportAnswered ==
  /\ pc = "report"
  /\ \/ \E ok \in BOOLEAN : ServeReport(Result, ok) /\ AfterReport(Result, ok)
     \/ ~Authenticated /\ UNCHANGED server /\ Goto("heartbeat")
  /\ pending' = pending \ {Result}
  /\ UNCHANGED <<log, completed, host, cli, stray, faults>>

ReportUnanswered ==
  /\ pc = "report"
  /\ Unanswered([op |-> "REPORT", entry |-> Result])
  /\ Goto("heartbeat")
  /\ UNCHANGED <<journal, host, cli, faults>>

(* _flush_pending_reports sends report after report until one is not       *)
(* answered; the claim waits for the next call of once().                  *)
FlushAnswered ==
  /\ pc = "flush"
  /\ \E e \in pending :
       /\ \/ \E ok \in BOOLEAN : ServeReport(e, ok)
          \/ ~Authenticated /\ UNCHANGED server
       /\ pending' = pending \ {e}
       /\ Goto(IF pending = {e} THEN "heartbeat" ELSE "flush")
  /\ UNCHANGED <<log, completed, host, cli, stray, faults>>

FlushUnanswered ==
  /\ pc = "flush"
  /\ \E e \in pending : Unanswered([op |-> "REPORT", entry |-> e])
  /\ Goto("heartbeat")
  /\ UNCHANGED <<journal, host, cli, faults>>

(* A claimed task whose outcome the journal holds is reported again and    *)
(* not executed.  This report is not pending: any error gives it up.       *)
ReplayAnswered ==
  /\ pc = "replay"
  /\ \E ok \in BOOLEAN : /\ ServeReport(Remembered(cur), ok)
                         /\ AfterReport(Remembered(cur), ok)
  /\ UNCHANGED <<journal, host, cli, stray, faults>>

ReplayUnanswered ==
  /\ pc = "replay"
  /\ Unanswered([op |-> "REPORT", entry |-> Remembered(cur)])
  /\ Goto("heartbeat")
  /\ UNCHANGED <<journal, host, cli, faults>>

(* _finish_unjoin: disable the unit, remove the credential, stop the loop. *)
(* When disabling fails the next step runs all the same; that the file     *)
(* cannot be removed is left out.                                          *)
Disable ==
  /\ pc = "disable"
  /\ service' \in {service, FALSE}
  /\ Goto("retire")
  /\ UNCHANGED <<server, journal, container, registered, cli, stray, faults>>

Retired ==   \* _retire_local_registration
  /\ registered' = FALSE
  /\ accepted' = IF accepted = "HELD" THEN "OTHER" ELSE accepted

Retire ==
  /\ pc = "retire"
  /\ Retired
  /\ Goto("off")
  /\ UNCHANGED <<tasks, approved, left, journal, container, service, cli, stray, faults>>

(* systemd starts the unit again after a crash, and at boot.               *)
Start ==
  /\ pc = "off" /\ service /\ registered
  /\ Goto("heartbeat")
  /\ UNCHANGED <<server, journal, host, cli, stray, faults>>

(* The process, or the whole host, goes down.                              *)
Crash ==
  /\ faults < MaxFaults /\ faults' = faults + 1
  /\ Goto("off") /\ cli' = "idle"
  /\ UNCHANGED <<server, journal, host, stray>>

Process ==
  \/ Heartbeat \/ ClaimAnswered \/ ClaimUnanswered
  \/ (\E o \in Outcome : Execute(o)) \/ Defer \/ Record \/ Renew
  \/ ReportAnswered \/ ReportUnanswered \/ FlushAnswered \/ FlushUnanswered
  \/ ReplayAnswered \/ ReplayUnanswered
  \/ Disable \/ Retire \/ Start \/ Crash

----------------------------------------------------------------------------
(* unjoin_control_plane, the command `dure unjoin` on the host: it stops   *)
(* the containers, then the agent, tells the control plane and forgets the *)
(* credential.                                                             *)
UnjoinStop ==
  /\ "UNJOIN" \in Admin
  /\ cli = "idle" /\ registered
  /\ cli' = "disable" /\ container' = FALSE
  /\ UNCHANGED <<server, journal, process, registered, service, stray, faults>>

UnjoinDisable ==
  /\ cli = "disable"
  /\ \/ cli' = "post" /\ service' = FALSE /\ Goto("off")
     \/ cli' = "idle" /\ UNCHANGED <<service, process>>
  /\ UNCHANGED <<server, journal, container, registered, stray, faults>>


UnjoinPost ==
  /\ cli = "post"
  /\ \/ ServeUnjoin /\ cli' = "retire" /\ UNCHANGED stray
     \/ Unanswered([op |-> "UNJOIN", task |-> 0]) /\ cli' = "idle"
  /\ UNCHANGED <<journal, process, host, faults>>

UnjoinRetire ==
  /\ cli = "retire" /\ cli' = "idle"
  /\ Retired
  /\ UNCHANGED <<tasks, approved, left, journal, process, container, service, stray, faults>>

(* join_control_plane.  With a credential in the configuration it only     *)
(* enables the unit.  Without, it registers the node anew, pending         *)
(* approval, unless the control plane still accepts another credential.    *)
Join ==
  /\ "UNJOIN" \in Admin
  /\ cli = "idle" /\ service' = TRUE
  /\ \/ registered /\ UNCHANGED <<server, registered, stray>>
     \/ /\ ~registered /\ accepted = "NONE"
        /\ accepted' = "HELD" /\ registered' = TRUE /\ stray' = {}
        /\ approved' = FALSE /\ left' = "no" /\ UNCHANGED tasks
  /\ UNCHANGED <<journal, process, container, cli, faults>>

----------------------------------------------------------------------------
(* Administrators.  create_tasks admits exclusive work on an idle node.    *)
Create(kind) ==
  /\ Len(tasks) < MaxTasks
  /\ approved
  /\ kind \in Exclusive => NodeIdle
  /\ tasks' = Append(tasks, [kind |-> kind, status |-> "QUEUED", lease |-> 0])
  /\ UNCHANGED <<accepted, approved, left, journal, process, host, cli, stray, faults>>

(* cancel_task                                                             *)
Cancel(t) ==
  /\ "CANCEL" \in Admin
  /\ tasks' = [tasks EXCEPT ![t].status =
                 IF tasks[t].kind = "BULK" /\ Expired(t) THEN "FAILED" ELSE "CANCELED"]
  /\ \/ tasks[t].status = "QUEUED"
     \/ Expired(t) /\ tasks[t].kind \in {"BULK", "BENCHMARK"}
  /\ UNCHANGED <<accepted, approved, left, journal, process, host, cli, stray, faults>>

Approve ==   \* approve_node
  /\ ~approved /\ approved' = TRUE
  /\ UNCHANGED <<tasks, accepted, left, journal, process, host, cli, stray, faults>>

(* revoke_node ends the operation tasks of the node.                       *)
Revoked(row) ==
  IF row.kind # "BULK" THEN row
  ELSE CASE row.status = "QUEUED"  -> [row EXCEPT !.status = "CANCELED"]
         [] row.status = "RUNNING" -> [row EXCEPT !.status = "FAILED", !.lease = 0]
         [] OTHER                  -> row

Revoke ==
  /\ "REVOKE" \in Admin /\ accepted # "NONE" /\ Release
  /\ tasks' = [t \in Ids |-> Revoked(tasks[t])]
  /\ UNCHANGED <<left, journal, process, host, cli, stray, faults>>

(* rotate_node_credential issues a new credential and approves the node.   *)
Rotate ==
  /\ "ROTATE" \in Admin /\ faults < MaxFaults /\ faults' = faults + 1
  /\ accepted' = "OTHER" /\ approved' = TRUE /\ left' = "no"
  /\ UNCHANGED <<tasks, journal, process, host, cli, stray>>

(* The operator writes the new credential and restarts the agent.          *)
Install ==
  /\ accepted = "OTHER" /\ cli = "idle"
  /\ accepted' = "HELD" /\ registered' = TRUE /\ stray' = {}
  /\ Goto(IF service THEN "heartbeat" ELSE "off")
  /\ UNCHANGED <<tasks, approved, left, journal, container, service, cli, faults>>

Tick ==
  /\ LeaseRunning
  /\ tasks' = [t \in Ids |-> [tasks[t] EXCEPT !.lease = IF @ = 0 THEN 0 ELSE @ - 1]]
  /\ UNCHANGED <<accepted, approved, left, journal, process, host, cli, stray, faults>>

Init ==
  /\ tasks = <<>> /\ accepted = "HELD" /\ approved = TRUE /\ left = "no"
  /\ log = {} /\ completed = {} /\ pending = {}
  /\ pc = "heartbeat" /\ cur = 0 /\ outcome = "complete"
  /\ container = FALSE /\ registered = TRUE /\ service = TRUE
  /\ cli = "idle" /\ stray = {} /\ faults = 0

Next ==
  \/ Process
  \/ \E r \in stray : ServeStray(r) \/ LoseStray(r)
  \/ UnjoinStop \/ UnjoinDisable \/ UnjoinPost \/ UnjoinRetire \/ Join
  \/ \E kind \in Kinds : Create(kind)
  \/ \E t \in Ids : Cancel(t)
  \/ Approve \/ Revoke \/ Rotate \/ Install \/ Tick

Spec == Init /\ [][Next]_vars

(* Calls are answered again and again and in the end arrive in time, the   *)
(* process is started and runs, time passes.  Nothing obliges an operator  *)
(* to act.                                                                 *)
Fairness ==
  /\ SF_vars(Heartbeat) /\ SF_vars(ClaimAnswered)
  /\ SF_vars(\E o \in Outcome : Execute(o)) /\ WF_vars(Record)
  /\ SF_vars(ReportAnswered) /\ SF_vars(FlushAnswered) /\ SF_vars(ReplayAnswered)
  /\ WF_vars(Disable) /\ WF_vars(Retire) /\ WF_vars(Start) /\ WF_vars(Tick)

FairSpec == Spec /\ Fairness /\ <>[](stray = {})

----------------------------------------------------------------------------
(* Tasks, journal and process keep their shapes, and the process works only on *)
(* a task that exists.                                                      *)
TypeOK ==
  /\ tasks \in Seq(TaskRow) /\ Len(tasks) <= MaxTasks
  /\ accepted \in {"HELD", "OTHER", "NONE"}
  /\ approved \in BOOLEAN /\ left \in {"no", "task", "command"}
  /\ log \subseteq Entry /\ pending \subseteq Entry /\ completed \subseteq Ids
  /\ pc \in {"off", "heartbeat", "claim", "execute", "record", "report",
             "flush", "replay", "disable", "retire"}
  /\ cur \in 0 .. Len(tasks)
  /\ pc \in {"execute", "record", "report", "replay"} => cur \in Ids
  /\ pc = "flush" => pending # {}
  /\ outcome \in Outcome
  /\ container \in BOOLEAN /\ registered \in BOOLEAN /\ service \in BOOLEAN
  /\ cli \in {"idle", "disable", "post", "retire"}
  /\ stray \subseteq Call \cup Report
  /\ faults \in 0 .. MaxFaults

(* A task whose outcome was once written to the journal is never executed  *)
(* again, although the journal forgets old outcomes, reports get lost,     *)
(* leases expire and the process crashes.                                  *)
RecordedNeverRepeated ==
  pc \in {"execute", "record"} => \A e \in log : e.task # cur

(* The control plane shows success only for an execution that succeeded    *)
(* and is on disk at the node; two executions of a task never leave two    *)
(* different answers.                                                      *)
SuccessIsRecorded ==
  \A t \in Ids : tasks[t].status = "SUCCEEDED" =>
    /\ [task |-> t, outcome |-> "complete"] \in log
    /\ [task |-> t, outcome |-> "failed"] \notin log

LedgerState(t) ==
  IF t \notin Ids THEN "none"
  ELSE CASE Live(t) -> "open"
         [] tasks[t].status = "SUCCEEDED" -> "succeeded"
         [] OTHER -> "failed"

Answers(t) == {o \in Outcome : [task |-> t, outcome |-> o] \in log}

L == INSTANCE Ledger WITH
       state <- [t \in 1 .. MaxTasks |-> LedgerState(t)],
       answers <- [t \in 1 .. MaxTasks |-> Answers(t)]

(* Agent and control plane together implement the ledger: every task gets  *)
(* at most one answer, written before it counts, and ends at most once.    *)
ImplementsLedger == L!Spec

(* While its credential is good, every task of the node ends, although     *)
(* calls are lost and the agent crashes.                                   *)
EveryTaskEnds ==
  \A t \in 1 .. MaxTasks :
    (t \in Ids /\ Live(t)) ~> (t \in Ids /\ ~Live(t)) \/ ~Authenticated

(* Leaving is clean: the node gives up its credential only after the control    *)
(* plane stopped accepting it, so a leave that fails half way can be tried    *)
(* again, and once it left by an UNJOIN_NODE task nothing runs on it: no task   *)
(* can start a deployment between the stop and the revocation.               *)
LeavingIsClean ==
  [][/\ registered /\ ~registered' => accepted # "HELD"
     /\ left' = "task" => ~container']_vars

(* docs/architecture.md:267: after the success of UNJOIN_NODE is recorded  *)
(* the agent is disabled and its credential removed.                       *)
UnjoinedNodeForgets == left = "task" ~> ~registered
=============================================================================
