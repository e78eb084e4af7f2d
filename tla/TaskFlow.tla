------------------------------- MODULE TaskFlow -------------------------------
(***************************************************************************)
(* What the scheduler promises of a task graph, without threads, locks,    *)
(* futures or loops: a graph is accepted or rejected once; an accepted     *)
(* task starts only over finished dependencies, is tried at most           *)
(* MaxAttempts times, and, when it fails for good, blocks in the same      *)
(* instant exactly the tasks reachable from it.  Scheduler implements this *)
(* specification.                                                          *)
(***************************************************************************)
EXTENDS TaskGraph, Integers

CONSTANTS Graphs,       \* the graphs a run may be given
          MaxAttempts   \* Scheduler.MAX_ATTEMPTS

VARIABLES dependsOn,    \* the graph
          verdict,      \* "new" until the graph is validated
          status,       \* Task.status of every task
          attempts      \* Task.attempts of every task

flowVars == <<dependsOn, verdict, status, attempts>>

FlowTypeOK ==
  /\ dependsOn \in Graph
  /\ verdict \in {"new", "accepted", "rejected"}
  /\ status \in [Tasks -> Statuses]
  /\ attempts \in [Tasks -> 0..MaxAttempts]

FlowInit ==
  /\ dependsOn \in Graphs
  /\ verdict = "new"
  /\ status = [t \in Tasks |-> "pending"]
  /\ attempts = [t \in Tasks |-> 0]

Judge ==
  /\ verdict = "new"
  /\ verdict' = IF ValidGraph(dependsOn) THEN "accepted" ELSE "rejected"
  /\ UNCHANGED <<dependsOn, status, attempts>>

Start(t) ==
  /\ verdict = "accepted"
  /\ status[t] = "pending"
  /\ DepsDone(dependsOn, status, t)
  /\ status' = [status EXCEPT ![t] = "running"]
  /\ UNCHANGED <<dependsOn, verdict, attempts>>

Finish(t) ==
  /\ verdict = "accepted"
  /\ status[t] = "running"
  /\ status' = [status EXCEPT ![t] = "done"]
  /\ UNCHANGED <<dependsOn, verdict, attempts>>

Retry(t) ==
  /\ verdict = "accepted"
  /\ status[t] = "running"
  /\ attempts[t] + 1 < MaxAttempts
  /\ attempts' = [attempts EXCEPT ![t] = @ + 1]
  /\ status' = [status EXCEPT ![t] = "pending"]
  /\ UNCHANGED <<dependsOn, verdict>>

Fail(t) ==
  /\ verdict = "accepted"
  /\ status[t] = "running"
  /\ attempts[t] + 1 = MaxAttempts
  /\ attempts' = [attempts EXCEPT ![t] = @ + 1]
  /\ status' = [u \in Tasks |-> IF u = t THEN "failed"
                                ELSE IF u \in Downstream(dependsOn, t) THEN "blocked"
                                ELSE status[u]]
  /\ UNCHANGED <<dependsOn, verdict>>

FlowNext == Judge \/ \E t \in Tasks : Start(t) \/ Finish(t) \/ Retry(t) \/ Fail(t)

FlowSafety == FlowInit /\ [][FlowNext]_flowVars

\* Nothing is left undone: as long as some step is possible, one is taken.
FlowSpec == FlowSafety /\ WF_flowVars(FlowNext)
===============================================================================
