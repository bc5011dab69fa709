------------------------------- MODULE Ledger -------------------------------
(***************************************************************************)
(* What the agent and the control plane promise together about the tasks   *)
(* of a node, with no queue, no lease, no journal and no network: a task   *)
(* gets at most one answer, it ends at most once, and it succeeds only if  *)
(* the answer was a success.  A task may end without an answer (canceled,  *)
(* revoked, expired) and may still be answered after it ended.             *)
(***************************************************************************)
EXTENDS Naturals

CONSTANT MaxTasks

VARIABLES
  state,   \* per task: "none", "open", "succeeded" or "failed"
  answers  \* per task: the outcomes executions left, {} before the first

Tasks == 1 .. MaxTasks

Init == /\ state = [t \in Tasks |-> "none"]
        /\ answers = [t \in Tasks |-> {}]

Open(t) == /\ state[t] = "none"
           /\ state' = [state EXCEPT ![t] = "open"]
           /\ UNCHANGED answers

Answer(t, o) == /\ state[t] # "none" /\ answers[t] = {}
                /\ answers' = [answers EXCEPT ![t] = {o}]
                /\ UNCHANGED state

Succeed(t) == /\ state[t] = "open" /\ answers[t] = {"complete"}
              /\ state' = [state EXCEPT ![t] = "succeeded"]
              /\ UNCHANGED answers

Fail(S) == /\ \A t \in S : state[t] = "open"
           /\ state' = [t \in Tasks |-> IF t \in S THEN "failed" ELSE state[t]]
           /\ UNCHANGED answers

Next == \/ \E t \in Tasks : Open(t) \/ Succeed(t)
        \/ \E t \in Tasks, o \in {"complete", "failed"} : Answer(t, o)
        \/ \E S \in SUBSET Tasks : Fail(S)

Spec == Init /\ [][Next]_<<state, answers>>
=============================================================================
