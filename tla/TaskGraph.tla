------------------------------ MODULE TaskGraph ------------------------------
(***************************************************************************)
(* The task DAG of ai_company/task_graph.py: what a graph is, when it is   *)
(* acceptable, which tasks may start, and how a permanent failure spreads. *)
(*                                                                         *)
(* A graph is a function `deps' from task ids to the set of ids a task     *)
(* depends on; `status' is a function from task ids to statuses.  Ids that *)
(* no task carries are the members of Names \ Tasks.                       *)
(*                                                                         *)
(* No operator here is recursive: acyclicity is well-foundedness and the   *)
(* failure cascade is a least closed set, so both TLC and the provers can  *)
(* work with them.  CycleCheck and FailureCascade relate them to the loops *)
(* of the source.                                                          *)
(***************************************************************************)
CONSTANTS Tasks,    \* the ids of the tasks in the graph (keys of TaskGraph.tasks)
          Names     \* every id a depends_on list may mention

ASSUME NamesAssumption == Tasks \subseteq Names

\* TaskStatus.  READY is declared by the enum and never assigned.
Statuses == {"pending", "ready", "running", "done", "failed", "blocked"}

Graph == [Tasks -> SUBSET Names]

\* validate(), first loop: every dependency is the id of a task.
KnownDeps(deps) == \A t \in Tasks : deps[t] \subseteq Tasks

\* What _check_for_cycles decides: every non-empty set of tasks has a member
\* that depends on no member of the set.
Acyclic(deps) ==
  \A S \in SUBSET Tasks : S # {} => \E t \in S : deps[t] \cap S = {}

ValidGraph(deps) == KnownDeps(deps) /\ Acyclic(deps)

------------------------------------------------------------------------------
\* Bug: one finished dependency is enough.
DepsDoneAny(deps, status, t) ==
  deps[t] = {} \/ \E d \in deps[t] : status[d] = "done"

DepsDone(deps, status, t) == \A d \in deps[t] : status[d] = "done"

\* ready_tasks(), as a set.
Ready(deps, status) ==
  {t \in Tasks : status[t] = "pending" /\ DepsDone(deps, status, t)}

\* _is_doomed(t) is asked of pending tasks only.
Doomed(deps, status, t) ==
  \E d \in deps[t] : status[d] \in {"failed", "blocked"}

\* is_finished().
IsFinished(deps, status) ==
  \A t \in Tasks :
    status[t] \in {"pending", "ready", "running"} =>
      status[t] = "pending" /\ Doomed(deps, status, t)

Pending(status) == {t \in Tasks : status[t] = "pending"}

\* Bug: one sweep over the direct dependents, no fixpoint.
CascadeOnce(deps, status, C) ==
  \A t \in Pending(status) : Doomed(deps, status, t) => t \in C

\* C is closed when it holds every pending task that is doomed or that
\* depends on a member of C.
CascadeClosed(deps, status, C) ==
  \A t \in Pending(status) :
    Doomed(deps, status, t) \/ deps[t] \cap C # {} => t \in C

\* The tasks the fixpoint loop of mark_failed turns BLOCKED: the least closed set.
Cascade(deps, status) ==
  {t \in Pending(status) :
     \A C \in SUBSET Pending(status) : CascadeClosed(deps, status, C) => t \in C}

\* What mark_failed(t) blocks, once t is FAILED.
Fallout(deps, status, t) == Cascade(deps, [status EXCEPT ![t] = "failed"])

\* Bug: nothing else is told of the failure.
MarkOnly(deps, status, t) == [status EXCEPT ![t] = "failed"]

\* mark_failed(t): FAILED for t, then BLOCKED for everything it dooms.
MarkFailed(deps, status, t) ==
  [u \in Tasks |-> IF u = t THEN "failed"
                   ELSE IF u \in Fallout(deps, status, t) THEN "blocked"
                   ELSE status[u]]

\* The reference notion of "everything downstream of t": the least set that
\* holds the dependents of t and the dependents of its own members.
Downstream(deps, t) ==
  {u \in Tasks :
     \A S \in SUBSET Tasks :
       (\A v \in Tasks : t \in deps[v] \/ deps[v] \cap S # {} => v \in S) => u \in S}

Settled(status, t) == status[t] \in {"done", "failed", "blocked"}

\* The statuses a run can build up between two calls: whatever has started
\* stands on finished dependencies, and the cascades of all failures so far
\* are complete.
Consistent(deps, status) ==
  /\ \A t \in Tasks : status[t] # "ready"
  /\ \A t \in Tasks :
       status[t] \in {"running", "done", "failed"} => DepsDone(deps, status, t)
  /\ \A t \in Tasks :
       status[t] \in {"pending", "blocked"} =>
         (status[t] = "blocked" <=> Doomed(deps, status, t))
==============================================================================
