---------------------------- MODULE FailureCascade ----------------------------
(***************************************************************************)
(* A task graph from validate() (CycleCheck) to mark_failed, the latter    *)
(* iteration by iteration: FAILED for one task, then sweeps over all       *)
(* tasks, turning doomed pending ones BLOCKED in place, until a sweep      *)
(* changes nothing.  It is called on the scheduler's main thread, the only *)
(* one that serialises the statuses, so nobody sees the states in between: *)
(* what matters is where the sweeps end, and that they end.                *)
(*                                                                         *)
(* Abstracted: the order of the tasks dict (every order is explored), and  *)
(* the scheduler, which brings the graph into any consistent state.        *)
(***************************************************************************)
EXTENDS CycleCheck

VARIABLES status, cascade, changed, sweep,
          before,      \* status when mark_failed was called (not in the code)
          failing      \* its argument, once it was called

cascadeVars == <<status, cascade, changed, sweep, before, failing>>
allVars == <<vars, cascadeVars>>

CascadeTypeOK ==
  /\ status \in [Tasks -> Statuses]
  /\ cascade \in {"uncalled", "mark", "sweep", "returned"}
  /\ changed \in BOOLEAN
  /\ sweep \in SUBSET Tasks
  /\ before \in [Tasks -> Statuses]
  /\ failing \in SUBSET Tasks

CascadeInit ==
  /\ Init
  /\ status = [t \in Tasks |-> "pending"]
  /\ cascade = "uncalled"
  /\ changed = TRUE
  /\ sweep = {}
  /\ before = status
  /\ failing = {}

\* The scheduler has run an accepted graph up to here and gives up on task t.
Call(t) ==
  /\ phase = "ok"
  /\ cascade = "uncalled"
  /\ status' \in [Tasks -> Statuses]
  /\ Consistent(dependsOn, status')
  /\ status'[t] = "running"
  /\ before' = status'
  /\ failing' = {t}
  /\ cascade' = "mark"
  /\ UNCHANGED <<changed, sweep>>

Mark ==
  /\ cascade = "mark"
  /\ status' = [t \in Tasks |-> IF t \in failing THEN "failed" ELSE status[t]]
  /\ cascade' = "sweep"
  /\ UNCHANGED <<changed, sweep, before, failing>>

\* The head of the while loop.
BeginSweep ==
  /\ cascade = "sweep"
  /\ sweep = {}
  /\ changed
  /\ changed' = FALSE
  /\ sweep' = Tasks
  /\ UNCHANGED <<status, cascade, before, failing>>

\* Bug: only a FAILED dependency dooms, a BLOCKED one does not.
VisitFailedOnly(t) ==
  /\ cascade = "sweep"
  /\ t \in sweep
  /\ sweep' = sweep \ {t}
  /\ IF status[t] = "pending" /\ \E d \in dependsOn[t] : status[d] = "failed"
     THEN status' = [status EXCEPT ![t] = "blocked"] /\ changed' = TRUE
     ELSE UNCHANGED <<status, changed>>
  /\ UNCHANGED <<cascade, before, failing>>

\* Bug: a task that is blocked already counts as a change.
VisitAgain(t) ==
  /\ cascade = "sweep"
  /\ t \in sweep
  /\ sweep' = sweep \ {t}
  /\ IF status[t] \in {"pending", "blocked"} /\ Doomed(dependsOn, status, t)
     THEN status' = [status EXCEPT ![t] = "blocked"] /\ changed' = TRUE
     ELSE UNCHANGED <<status, changed>>
  /\ UNCHANGED <<cascade, before, failing>>

\* The body of the for loop, for one task.
Visit(t) ==
  /\ cascade = "sweep"
  /\ t \in sweep
  /\ sweep' = sweep \ {t}
  /\ IF status[t] = "pending" /\ Doomed(dependsOn, status, t)
     THEN status' = [status EXCEPT ![t] = "blocked"] /\ changed' = TRUE
     ELSE UNCHANGED <<status, changed>>
  /\ UNCHANGED <<cascade, before, failing>>

Return ==
  /\ cascade = "sweep"
  /\ sweep = {}
  /\ ~ changed
  /\ cascade' = "returned"
  /\ UNCHANGED <<status, changed, sweep, before, failing>>

CascadeStep == Mark \/ BeginSweep \/ Return \/ \E t \in Tasks : Visit(t)

CascadeTerminating ==
  /\ phase \in {"unknown", "cycle"} \/ (phase = "ok" /\ cascade \in {"uncalled", "returned"})
  /\ UNCHANGED allVars

CascadeNext ==
  \/ Step /\ UNCHANGED cascadeVars
  \/ (CascadeStep \/ \E t \in Tasks : Call(t)) /\ UNCHANGED vars
  \/ CascadeTerminating

\* One thread runs either loop; whether a task fails is up to the agents.
CascadeSpec ==
  /\ CascadeInit
  /\ [][CascadeNext]_allVars
  /\ WF_allVars(Step /\ UNCHANGED cascadeVars)
  /\ WF_allVars(CascadeStep /\ UNCHANGED vars)

------------------------------------------------------------------------------
(* Properties. *)

\* The loop computes the least fixpoint the scheduler's model uses, and that
\* is exactly "everything downstream": nothing else was pending below a task
\* that is only now failing.
CascadeCorrect ==
  cascade = "returned" =>
    \A f \in failing :
      /\ status = MarkFailed(dependsOn, before, f)
      /\ \A t \in Tasks :
           status[t] = "blocked" <=>
             before[t] = "blocked" \/ t \in Downstream(dependsOn, f)

\* Neither loop hangs, on cyclic graphs and long chains of dependents too: the
\* search decides, and the sweeps come to one that changes nothing.
GraphWorkEnds == Termination /\ (cascade = "mark" ~> cascade = "returned")
===============================================================================
