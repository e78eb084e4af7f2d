---------------------------- MODULE RepoRunProofs -----------------------------
(***************************************************************************)
(* The scheduler and the repo run on top of it, for every finite set of    *)
(* tasks, every set of graphs, files, plans, workers, attempts and rounds. *)
(*                                                                         *)
(* SchedulerInv is proved inductive one part at a time; each part has a    *)
(* lemma that takes the whole invariant in the state before and yields the *)
(* part after.                                                             *)
(*                                                                         *)
(* Each round of a repo run starts a scheduler from its initial state and  *)
(* the run takes no step of it besides the scheduler's own, so the         *)
(* scheduler's invariant holds in all rounds; with it, tests run when no   *)
(* thread is left, and what they ran on is what is delivered.              *)
(***************************************************************************)
EXTENDS RepoRun, TaskGraphProofs, FiniteSetTheorems

------------------------------------------------------------------------------
(* The scheduler. *)

\* The consequences of the graph part that every step uses.
LEMMA GraphFacts ==
  ASSUME SchedulerInv, Validated
  PROVE  /\ dependsOn \in [Tasks -> SUBSET Tasks]
         /\ Acyclic(dependsOn)
         /\ Consistent(dependsOn, status)
  BY DEF SchedulerInv, TypeOK, GraphInv, ValidGraph, KnownDeps, Graph

\* The task being settled.
LEMMA SettleFacts ==
  ASSUME SchedulerInv, NEW t \in Tasks, Settle(t)
  PROVE  /\ Validated /\ Validated'
         /\ popped = {t} /\ t \notin inFlight
         /\ status[t] = "running"
         /\ attempts[t] \in 0..(MaxAttempts - 1)
<1>1. popped = {t}
  BY DEF SchedulerInv, ThreadInv, Settle
<1>2. t \notin inFlight /\ status[t] = "running"
  BY <1>1 DEF SchedulerInv, ThreadInv
<1>3. attempts[t] < MaxAttempts /\ attempts[t] \in 0..MaxAttempts
  BY <1>2 DEF SchedulerInv, AttemptInv, TypeOK
<1> QED
  BY <1>1, <1>2, <1>3, SchedulerAssumption DEF Settle, Validated

\* A permanent failure changes the failing task and pending tasks only.
LEMMA FailFacts ==
  ASSUME SchedulerInv, NEW t \in Tasks, FailTask(t)
  PROVE  /\ status' \in [Tasks -> Statuses]
         /\ status[t] = "running" /\ status'[t] = "failed"
         /\ \A u \in Tasks : u # t =>
              status'[u] = status[u] \/ (status[u] = "pending" /\ status'[u] = "blocked")
<1>1. status \in [Tasks -> Statuses] /\ status[t] = "running"
  BY SettleFacts DEF SchedulerInv, TypeOK, FailTask
<1>2. status' = MarkFailed(dependsOn, status, t)
  BY DEF FailTask
<1> DEFINE C == Fallout(dependsOn, status, t)
           n == MarkFailed(dependsOn, status, t)
<1>3. /\ n \in [Tasks -> Statuses]
      /\ n[t] = "failed"
      /\ \A u \in C : u \in Tasks /\ status[u] = "pending" /\ n[u] = "blocked"
      /\ \A u \in Tasks : u \notin C /\ u # t => n[u] = status[u]
  BY <1>1, MarkFailedAt
<1> HIDE DEF C, n
<1>4. status' = n
  BY <1>2 DEF n
<1> QED
  BY <1>1, <1>3, <1>4

------------------------------------------------------------------------------
LEMMA NoResultsType == NoResults \in [Tasks -> Results]
  BY SchedulerAssumption DEF NoResults, Results

LEMMA InitTypeOK == Init => TypeOK
  BY SchedulerAssumption, NoResultsType
     DEF Init, TypeOK, MainStates, Statuses, WorkerStates

LEMMA TypeOKStep == SchedulerInv /\ [Next]_vars => TypeOK'
<1> SUFFICES ASSUME SchedulerInv, [Next]_vars PROVE TypeOK'
  OBVIOUS
<1> USE SchedulerAssumption, NoResultsType
<1>0. TypeOK
  BY DEF SchedulerInv
<1>1. CASE Validate
  BY <1>0, <1>1 DEF TypeOK, Validate, MainStates
<1>2. ASSUME NEW t \in Tasks, Launch(t) PROVE TypeOK'
  BY <1>0, <1>2 DEF TypeOK, Launch, Statuses, WorkerStates
<1>3. CASE LaunchDone
  BY <1>0, <1>3 DEF TypeOK, LaunchDone, MainStates
<1>4. CASE Check
  BY <1>0, <1>4 DEF TypeOK, Check, MainStates
<1>5. ASSUME NEW t \in Tasks, Pop(t) PROVE TypeOK'
  BY <1>0, <1>5 DEF TypeOK, Pop, MainStates
<1>6. ASSUME NEW t \in Tasks, Complete(t) PROVE TypeOK'
  <2>1. attempts[t] + 1 \in Results
    BY <1>6, SettleFacts DEF Complete, Results
  <2>2. Append(decisions, t) \in Seq(Tasks)
    BY <1>0 DEF TypeOK
  <2> QED
    BY <1>0, <1>6, <2>1, <2>2
       DEF TypeOK, Complete, Settle, Statuses, WorkerStates, MainStates
<1>7. ASSUME NEW t \in Tasks, RetryTask(t) PROVE TypeOK'
  <2>1. attempts[t] + 1 \in 0..MaxAttempts
    BY <1>7, SettleFacts DEF RetryTask
  <2> QED
    BY <1>0, <1>7, <2>1
       DEF TypeOK, RetryTask, Settle, Statuses, WorkerStates, MainStates
<1>8. ASSUME NEW t \in Tasks, FailTask(t) PROVE TypeOK'
  <2>1. attempts[t] + 1 \in 0..MaxAttempts
    BY <1>8, SettleFacts DEF FailTask
  <2>2. status' \in [Tasks -> Statuses]
    BY <1>8, FailFacts
  <2> QED
    BY <1>0, <1>8, <2>1, <2>2
       DEF TypeOK, FailTask, Settle, WorkerStates, MainStates
<1>9. ASSUME NEW t \in Tasks, WorkerStep(t) PROVE TypeOK'
  <2>1. worker' \in [Tasks -> WorkerStates]
    BY <1>0, <1>9 DEF TypeOK, WorkerStep, NoAgent, ReadDeps, EndWork, WorkerStates
  <2>2. seen' \in [Tasks -> [Tasks -> Results]]
    <3> DEFINE copy == [d \in Tasks |-> IF d \in dependsOn[t] THEN result[d] ELSE 0]
    <3>1. copy \in [Tasks -> Results]
      BY <1>0 DEF TypeOK, Results
    <3>2. UNCHANGED seen \/ seen' = [seen EXCEPT ![t] = copy]
      BY <1>9 DEF WorkerStep, NoAgent, ReadDeps, EndWork
    <3> HIDE DEF copy
    <3> QED
      BY <1>0, <3>1, <3>2 DEF TypeOK
  <2> QED
    BY <1>0, <1>9, <2>1, <2>2 DEF TypeOK, WorkerStep, NoAgent, ReadDeps, EndWork
<1>10. CASE UNCHANGED vars
  BY <1>0, <1>10 DEF TypeOK, vars
<1> QED
  BY <1>1, <1>2, <1>3, <1>4, <1>5, <1>6, <1>7, <1>8, <1>9, <1>10
     DEF Next, MainStep, Terminating

------------------------------------------------------------------------------
LEMMA GraphInvStep == SchedulerInv /\ [Next]_vars => GraphInv'
<1> SUFFICES ASSUME SchedulerInv, [Next]_vars PROVE GraphInv'
  OBVIOUS
<1>0. GraphInv /\ TypeOK /\ ThreadInv
  BY DEF SchedulerInv
<1>1. CASE Validate
  <2>1. \A t \in Tasks : status[t] = "pending"
    BY <1>0, <1>1 DEF GraphInv, Validate, Validated
  <2>2. ASSUME ValidGraph(dependsOn) PROVE Consistent(dependsOn, status)
    BY <2>1, <2>2 DEF Consistent, Doomed, ValidGraph, KnownDeps
  <2> QED
    BY <1>0, <1>1, <2>2 DEF GraphInv, Validate, Validated
<1>2. ASSUME NEW t \in Tasks, Launch(t) PROVE GraphInv'
  <2>1. Validated /\ Validated'
    BY <1>2 DEF Launch, Validated
  <2>2. status[t] = "pending" /\ DepsDone(dependsOn, status, t)
    BY <1>2 DEF Launch, Launchable, Ready
  <2>3. Consistent(dependsOn, [status EXCEPT ![t] = "running"])
    BY <2>1, <2>2, <1>0, GraphFacts, StartKeepsConsistent DEF TypeOK
  <2> QED
    BY <1>0, <1>2, <2>1, <2>3 DEF GraphInv, Launch
<1>3. CASE LaunchDone
  BY <1>0, <1>3 DEF GraphInv, LaunchDone, Validated
<1>4. CASE Check
  BY <1>0, <1>4 DEF GraphInv, Check, Validated
<1>5. ASSUME NEW t \in Tasks, Pop(t) PROVE GraphInv'
  BY <1>0, <1>5 DEF GraphInv, Pop, Validated
<1>6. ASSUME NEW t \in Tasks, Complete(t) PROVE GraphInv'
  <2>1. /\ Validated /\ Validated' /\ status[t] = "running"
    BY <1>6, SettleFacts DEF Complete
  <2>2. Consistent(dependsOn, [status EXCEPT ![t] = "done"])
    BY <2>1, <1>0, GraphFacts, SettleKeepsConsistent DEF TypeOK
  <2> QED
    BY <1>0, <1>6, <2>1, <2>2 DEF GraphInv, Complete
<1>7. ASSUME NEW t \in Tasks, RetryTask(t) PROVE GraphInv'
  <2>1. /\ Validated /\ Validated' /\ status[t] = "running"
    BY <1>7, SettleFacts DEF RetryTask
  <2>2. Consistent(dependsOn, [status EXCEPT ![t] = "pending"])
    BY <2>1, <1>0, GraphFacts, SettleKeepsConsistent DEF TypeOK
  <2> QED
    BY <1>0, <1>7, <2>1, <2>2 DEF GraphInv, RetryTask
<1>8. ASSUME NEW t \in Tasks, FailTask(t) PROVE GraphInv'
  <2>1. /\ Validated /\ Validated' /\ status[t] = "running"
    BY <1>8, SettleFacts DEF FailTask
  <2>2. Consistent(dependsOn, MarkFailed(dependsOn, status, t))
    BY <2>1, <1>0, GraphFacts, MarkFailedKeepsConsistent DEF TypeOK
  <2> QED
    BY <1>0, <1>8, <2>1, <2>2 DEF GraphInv, FailTask
<1>9. ASSUME NEW t \in Tasks, WorkerStep(t) PROVE GraphInv'
  BY <1>0, <1>9 DEF GraphInv, WorkerStep, NoAgent, ReadDeps, EndWork, Validated
<1>10. CASE UNCHANGED vars
  BY <1>0, <1>10 DEF GraphInv, vars, Validated
<1> QED
  BY <1>1, <1>2, <1>3, <1>4, <1>5, <1>6, <1>7, <1>8, <1>9, <1>10
     DEF Next, MainStep, Terminating
------------------------------------------------------------------------------
LEMMA ThreadInvStep == SchedulerInv /\ [Next]_vars => ThreadInv'
<1> SUFFICES ASSUME SchedulerInv, [Next]_vars PROVE ThreadInv'
  OBVIOUS
<1>0. ThreadInv /\ TypeOK /\ GraphInv
  BY DEF SchedulerInv
<1>1. CASE Validate
  BY <1>0, <1>1 DEF ThreadInv, Validate
<1>2. ASSUME NEW t \in Tasks, Launch(t) PROVE ThreadInv'
  <2>1. status[t] = "pending"
    BY <1>2 DEF Launch, Launchable, Ready
  <2> QED
    BY <1>0, <1>2, <2>1 DEF ThreadInv, TypeOK, Launch
<1>3. CASE LaunchDone
  BY <1>0, <1>3 DEF ThreadInv, LaunchDone
<1>4. CASE Check
  BY <1>0, <1>4 DEF ThreadInv, Check
<1>5. ASSUME NEW t \in Tasks, Pop(t) PROVE ThreadInv'
  BY <1>0, <1>5 DEF ThreadInv, Pop
<1>6. ASSUME NEW t \in Tasks, Complete(t) PROVE ThreadInv'
  <2>1. popped = {t} /\ t \notin inFlight
    BY <1>6, SettleFacts DEF Complete
  <2> QED
    BY <1>0, <1>6, <2>1 DEF ThreadInv, TypeOK, Complete, Settle
<1>7. ASSUME NEW t \in Tasks, RetryTask(t) PROVE ThreadInv'
  <2>1. popped = {t} /\ t \notin inFlight
    BY <1>7, SettleFacts DEF RetryTask
  <2> QED
    BY <1>0, <1>7, <2>1 DEF ThreadInv, TypeOK, RetryTask, Settle
<1>8. ASSUME NEW t \in Tasks, FailTask(t) PROVE ThreadInv'
  <2>1. popped = {t} /\ t \notin inFlight /\ status[t] = "running"
    BY <1>8, SettleFacts DEF FailTask
  <2>2. \A u \in Tasks : status'[u] = "running" <=> status[u] = "running" /\ u # t
    BY <1>8, FailFacts
  <2> QED
    BY <1>0, <1>8, <2>1, <2>2 DEF ThreadInv, TypeOK, FailTask, Settle
<1>9. ASSUME NEW t \in Tasks, WorkerStep(t) PROVE ThreadInv'
  <2>1. \A u \in Tasks : worker'[u] = "idle" <=> worker[u] = "idle"
    BY <1>0, <1>9 DEF TypeOK, WorkerStep, NoAgent, ReadDeps, EndWork
  <2> QED
    BY <1>0, <1>9, <2>1 DEF ThreadInv, WorkerStep, NoAgent, ReadDeps, EndWork
<1>10. CASE UNCHANGED vars
  BY <1>0, <1>10 DEF ThreadInv, vars
<1> QED
  BY <1>1, <1>2, <1>3, <1>4, <1>5, <1>6, <1>7, <1>8, <1>9, <1>10
     DEF Next, MainStep, Terminating

------------------------------------------------------------------------------
LEMMA SlotInvStep == SchedulerInv /\ [Next]_vars => SlotInv'
<1> SUFFICES ASSUME SchedulerInv, [Next]_vars PROVE SlotInv'
  OBVIOUS
<1>0. SlotInv /\ TypeOK /\ ThreadInv
  BY DEF SchedulerInv
<1>1. CASE UNCHANGED <<inFlight, popped>>
  BY <1>0, <1>1 DEF SlotInv
<1>2. ASSUME NEW t \in Tasks, Launch(t) PROVE SlotInv'
  <2>1. popped = {} /\ popped' = {} /\ inFlight' = inFlight \union {t}
    BY <1>0, <1>2 DEF ThreadInv, Launch
  <2>2. IsFiniteSet(inFlight) /\ Cardinality(inFlight) < MaxWorkers
    BY <1>0, <1>2, <2>1 DEF SlotInv, Launch, Launchable
  <2>3. t \notin inFlight
    BY <1>0, <1>2 DEF ThreadInv, Launch, Launchable, Ready
  <2> DEFINE after == inFlight' \union popped'
  <2>4. after = inFlight \union {t}
    BY <2>1
  <2> HIDE DEF after
  <2>5. IsFiniteSet(after) /\ Cardinality(after) = Cardinality(inFlight) + 1
    BY <2>2, <2>3, <2>4, FS_AddElement
  <2>6. Cardinality(inFlight) \in Nat
    BY <2>2, FS_CardinalityType
  <2>7. Cardinality(after) <= MaxWorkers
    BY <2>2, <2>5, <2>6, SchedulerAssumption
  <2> QED
    BY <2>5, <2>7 DEF SlotInv, after
<1>3. ASSUME NEW t \in Tasks, Pop(t) PROVE SlotInv'
  <2>1. inFlight' \union popped' = inFlight \union popped
    BY <1>0, <1>3 DEF ThreadInv, Pop
  <2> QED
    BY <1>0, <2>1 DEF SlotInv
<1>4. ASSUME NEW t \in Tasks, Settle(t), UNCHANGED inFlight PROVE SlotInv'
  <2> DEFINE before == inFlight \union popped
             after == inFlight' \union popped'
  <2>1. after \subseteq before
    BY <1>4, SettleFacts DEF Settle
  <2>2. IsFiniteSet(before) /\ Cardinality(before) <= MaxWorkers
    BY <1>0 DEF SlotInv
  <2> HIDE DEF before, after
  <2>3. IsFiniteSet(after) /\ Cardinality(after) <= Cardinality(before)
    BY <2>1, <2>2, FS_Subset
  <2>4. Cardinality(after) \in Nat /\ Cardinality(before) \in Nat
    BY <2>2, <2>3, FS_CardinalityType
  <2>5. Cardinality(after) <= MaxWorkers
    BY <2>2, <2>3, <2>4, SchedulerAssumption
  <2> QED
    BY <2>3, <2>5 DEF SlotInv, after
<1> QED
  BY <1>1, <1>2, <1>3, <1>4
     DEF Next, MainStep, WorkerStep, Terminating, Validate, LaunchDone, Check, Complete,
         RetryTask, FailTask, NoAgent, ReadDeps, EndWork, vars

------------------------------------------------------------------------------
LEMMA AttemptInvStep == SchedulerInv /\ [Next]_vars => AttemptInv'
<1> SUFFICES ASSUME SchedulerInv, [Next]_vars PROVE AttemptInv'
  OBVIOUS
<1>0. AttemptInv /\ TypeOK
  BY DEF SchedulerInv
<1>1. CASE UNCHANGED <<status, attempts>>
  BY <1>0, <1>1 DEF AttemptInv
<1>2. ASSUME NEW t \in Tasks, Launch(t) \/ Complete(t) PROVE AttemptInv'
  <2>1. status[t] # "failed"
    BY <1>2, SettleFacts DEF Launch, Launchable, Ready, Complete
  <2> QED
    BY <1>0, <1>2, <2>1 DEF AttemptInv, TypeOK, Launch, Complete
<1>3. ASSUME NEW t \in Tasks, RetryTask(t) PROVE AttemptInv'
  BY <1>0, <1>3 DEF AttemptInv, TypeOK, RetryTask
<1>4. ASSUME NEW t \in Tasks, FailTask(t) PROVE AttemptInv'
  <2>1. \A u \in Tasks : u # t => attempts'[u] = attempts[u]
    BY <1>0, <1>4 DEF FailTask, TypeOK
  <2>2. status'[t] = "failed" /\ \A u \in Tasks : status'[u] # "failed" => status[u] # "failed"
    BY <1>4, FailFacts
  <2> QED
    BY <1>0, <2>1, <2>2 DEF AttemptInv
<1> QED
  BY <1>1, <1>2, <1>3, <1>4
     DEF Next, MainStep, WorkerStep, Terminating, Validate, LaunchDone, Check, Pop,
         NoAgent, ReadDeps, EndWork, vars
------------------------------------------------------------------------------
LEMMA IdleInvStep == SchedulerInv /\ [Next]_vars => IdleInv'
<1> SUFFICES ASSUME SchedulerInv, [Next]_vars PROVE IdleInv'
  OBVIOUS
<1>0. IdleInv /\ TypeOK
  BY DEF SchedulerInv
<1>1. CASE LaunchDone
  <2>1. inFlight = {} => Cardinality(inFlight) = 0
    BY FS_EmptySet
  <2>2. inFlight = {} => Ready(dependsOn, status) = {}
    BY <1>1, <2>1, SchedulerAssumption DEF LaunchDone, Launchable
  <2> QED
    BY <1>1, <2>2 DEF IdleInv, LaunchDone, Launchable
<1>2. CASE Check
  BY <1>0, <1>2 DEF IdleInv, Check
<1>3. CASE UNCHANGED <<dependsOn, pc, status, inFlight>>
  BY <1>0, <1>3 DEF IdleInv, Launchable
<1>4. CASE pc' \in {"launch", "settle", "raised"}
  BY <1>4 DEF IdleInv
<1> QED
  BY <1>1, <1>2, <1>3, <1>4
     DEF Next, MainStep, WorkerStep, Terminating, Validate, Launch, Pop, Complete,
         RetryTask, FailTask, Settle, NoAgent, ReadDeps, EndWork, vars

------------------------------------------------------------------------------
LEMMA ResultInvStep == SchedulerInv /\ [Next]_vars => ResultInv'
<1> SUFFICES ASSUME SchedulerInv, [Next]_vars PROVE ResultInv'
  OBVIOUS
<1>0. ResultInv /\ TypeOK /\ ThreadInv /\ GraphInv
  BY DEF SchedulerInv
<1>1. CASE UNCHANGED <<dependsOn, status, result, worker, seen>>
  BY <1>0, <1>1 DEF ResultInv
<1>2. ASSUME NEW t \in Tasks, Launch(t) PROVE ResultInv'
  BY <1>0, <1>2 DEF ResultInv, TypeOK, Launch
<1>3. ASSUME NEW t \in Tasks, Complete(t) PROVE ResultInv'
  <2>1. Validated /\ status[t] = "running" /\ attempts[t] \in 0..(MaxAttempts - 1)
    BY <1>3, SettleFacts DEF Complete
  <2>2. result'[t] # 0 /\ \A u \in Tasks : u # t => result'[u] = result[u]
    BY <1>0, <1>3, <2>1, SchedulerAssumption DEF Complete, TypeOK
  <2>3. \A u \in Tasks : status'[u] = "done" => u = t \/ status[u] = "done"
    BY <1>0, <1>3 DEF Complete, TypeOK
  <2>4. ASSUME NEW u \in Tasks, worker'[u] \in {"working", "returned"}, NEW d \in dependsOn[u]
        PROVE  seen'[u][d] = result'[d]
    <3>1. u # t /\ worker[u] = worker'[u] /\ seen'[u] = seen[u]
      BY <1>0, <1>3, <2>4 DEF Complete, Settle, TypeOK
    <3>2. status[u] = "running"
      BY <1>0, <2>4, <3>1 DEF ThreadInv
    <3>3. d \in Tasks /\ status[d] = "done"
      BY <2>1, <2>4, <3>2, GraphFacts DEF Consistent, DepsDone
    <3>4. d # t
      BY <2>1, <3>3
    <3> QED
      BY <1>0, <2>2, <2>4, <3>1, <3>3, <3>4 DEF ResultInv
  <2> QED
    BY <1>0, <1>3, <2>2, <2>3, <2>4 DEF ResultInv, Complete
<1>4. ASSUME NEW t \in Tasks, RetryTask(t) PROVE ResultInv'
  BY <1>0, <1>4 DEF ResultInv, TypeOK, RetryTask, Settle
<1>5. ASSUME NEW t \in Tasks, FailTask(t) PROVE ResultInv'
  <2>1. \A u \in Tasks : status'[u] = "done" => status[u] = "done"
    BY <1>5, FailFacts
  <2> QED
    BY <1>0, <1>5, <2>1 DEF ResultInv, TypeOK, FailTask, Settle
<1>6. ASSUME NEW t \in Tasks, NoAgent(t) PROVE ResultInv'
  BY <1>0, <1>6 DEF ResultInv, TypeOK, NoAgent
<1>7. ASSUME NEW t \in Tasks, ReadDeps(t) PROVE ResultInv'
  <2>1. status[t] = "running" /\ Validated
    BY <1>0, <1>7 DEF ThreadInv, GraphInv, ReadDeps, TypeOK
  <2>2. dependsOn[t] \subseteq Tasks
    BY <2>1, GraphFacts
  <2>3. \A d \in dependsOn[t] : seen'[t][d] = result[d]
    BY <1>0, <1>7, <2>2 DEF ReadDeps, TypeOK
  <2>4. \A u \in Tasks : u # t => worker'[u] = worker[u] /\ seen'[u] = seen[u]
    BY <1>0, <1>7 DEF ReadDeps, TypeOK
  <2> QED
    BY <1>0, <1>7, <2>3, <2>4 DEF ResultInv, ReadDeps
<1>8. ASSUME NEW t \in Tasks, EndWork(t) PROVE ResultInv'
  <2>1. \A u \in Tasks : worker'[u] \in {"working", "returned"} =>
                         worker[u] \in {"working", "returned"}
    BY <1>0, <1>8 DEF EndWork, TypeOK
  <2> QED
    BY <1>0, <1>8, <2>1 DEF ResultInv, EndWork
<1> QED
  BY <1>1, <1>2, <1>3, <1>4, <1>5, <1>6, <1>7, <1>8
     DEF Next, MainStep, WorkerStep, Terminating, Validate, LaunchDone, Check, Pop, vars

------------------------------------------------------------------------------
LEMMA BlackboardStep == SchedulerInv /\ [Next]_vars => BlackboardInOrder'
<1> SUFFICES ASSUME SchedulerInv, [Next]_vars PROVE BlackboardInOrder'
  OBVIOUS
<1>0. BlackboardInOrder /\ TypeOK
  BY DEF SchedulerInv
<1>1. ASSUME UNCHANGED <<dependsOn, decisions>>,
             \A u \in Tasks : status'[u] = "done" <=> status[u] = "done"
      PROVE  BlackboardInOrder'
  BY <1>0, <1>1 DEF BlackboardInOrder
<1>2. ASSUME NEW t \in Tasks, Complete(t) PROVE BlackboardInOrder'
  <2> DEFINE n == Len(decisions)
  <2>1. Validated /\ status[t] = "running"
    BY <1>2, SettleFacts DEF Complete
  <2>2. /\ n \in Nat /\ Len(decisions') = n + 1
        /\ decisions'[n + 1] = t
        /\ \A i \in 1..n : decisions'[i] = decisions[i] /\ decisions[i] \in Tasks
    BY <1>0, <1>2 DEF TypeOK, Complete
  <2>3. status'[t] = "done" /\ \A u \in Tasks : u # t => status'[u] = status[u]
    BY <1>0, <1>2 DEF TypeOK, Complete
  <2>4. \A i \in 1..n : decisions[i] # t /\ status[decisions[i]] = "done"
    BY <1>0, <2>1, <2>2 DEF BlackboardInOrder
  <2>5. \A i \in 1..n : t \notin dependsOn[decisions[i]]
    <3> SUFFICES ASSUME NEW i \in 1..n, t \in dependsOn[decisions[i]] PROVE FALSE
      OBVIOUS
    <3>1. DepsDone(dependsOn, status, decisions[i])
      BY <2>1, <2>2, <2>4, GraphFacts DEF Consistent
    <3> QED
      BY <2>1, <3>1 DEF DepsDone
  <2>6. t \notin dependsOn[t]
    BY <2>1, GraphFacts DEF Consistent, DepsDone
  <2>7. ASSUME NEW u \in Tasks
        PROVE  status'[u] = "done" <=> \E i \in 1..(n + 1) : decisions'[i] = u
    BY <1>0, <2>2, <2>3, <2>4 DEF BlackboardInOrder
  <2>8. ASSUME NEW i \in 1..(n + 1), NEW j \in 1..(n + 1)
        PROVE  /\ i # j => decisions'[i] # decisions'[j]
               /\ decisions'[i] \in dependsOn[decisions'[j]] => i < j
    <3>1. CASE i \in 1..n /\ j \in 1..n
      BY <1>0, <2>2, <3>1 DEF BlackboardInOrder
    <3>2. CASE i = n + 1
      BY <2>2, <2>4, <2>5, <2>6, <3>2
    <3>3. CASE i \in 1..n /\ j = n + 1
      BY <2>2, <2>4, <3>3
    <3> QED
      BY <2>2, <3>1, <3>2, <3>3
  <2>9. dependsOn' = dependsOn /\ 1..Len(decisions') = 1..(n + 1)
    BY <1>2, <2>2 DEF Complete
  <2> QED
    BY <2>7, <2>8, <2>9 DEF BlackboardInOrder
<1>3. ASSUME NEW t \in Tasks, FailTask(t) PROVE BlackboardInOrder'
  <2>1. \A u \in Tasks : status'[u] = "done" <=> status[u] = "done"
    BY <1>3, FailFacts
  <2> QED
    BY <1>1, <1>3, <2>1 DEF FailTask
<1>4. ASSUME NEW t \in Tasks, RetryTask(t) PROVE BlackboardInOrder'
  <2>1. status[t] = "running"
    BY <1>4, SettleFacts DEF RetryTask
  <2>2. \A u \in Tasks : status'[u] = "done" <=> status[u] = "done"
    BY <1>0, <1>4, <2>1 DEF RetryTask, TypeOK
  <2> QED
    BY <1>1, <1>4, <2>2 DEF RetryTask
<1>5. ASSUME NEW t \in Tasks, Launch(t) PROVE BlackboardInOrder'
  <2>1. \A u \in Tasks : status'[u] = "done" <=> status[u] = "done"
    BY <1>0, <1>5 DEF Launch, Launchable, Ready, TypeOK
  <2> QED
    BY <1>1, <1>5, <2>1 DEF Launch
<1>6. CASE UNCHANGED <<dependsOn, decisions, status>>
  BY <1>1, <1>6
<1> QED
  BY <1>2, <1>3, <1>4, <1>5, <1>6
     DEF Next, MainStep, WorkerStep, Terminating, Validate, LaunchDone, Check, Pop,
         NoAgent, ReadDeps, EndWork, vars

------------------------------------------------------------------------------
LEMMA InitInv == Init => SchedulerInv
<1> SUFFICES ASSUME Init PROVE SchedulerInv
  OBVIOUS
<1>1. TypeOK
  BY InitTypeOK
<1>2. GraphInv /\ ThreadInv /\ IdleInv
  BY DEF Init, GraphInv, ThreadInv, IdleInv, Validated
<1>3. SlotInv
  BY FS_EmptySet, SchedulerAssumption DEF Init, SlotInv
<1>4. AttemptInv /\ ResultInv
  BY SchedulerAssumption DEF Init, AttemptInv, ResultInv
<1>5. BlackboardInOrder
  BY DEF Init, BlackboardInOrder
<1> QED
  BY <1>1, <1>2, <1>3, <1>4, <1>5 DEF SchedulerInv

LEMMA InvStep == SchedulerInv /\ [Next]_vars => SchedulerInv'
  BY TypeOKStep, GraphInvStep, ThreadInvStep, SlotInvStep, AttemptInvStep,
     IdleInvStep, ResultInvStep, BlackboardStep DEF SchedulerInv

\* The strengthened invariant holds of every behaviour of the scheduler.
THEOREM Invariance == Spec => []SchedulerInv
  BY InitInv, InvStep, PTL DEF Spec

\* Every variable keeps its type; in particular no task is ever charged more
\* than MAX_ATTEMPTS attempts.
THEOREM TypeCorrect == Spec => []TypeOK
  BY Invariance, PTL DEF SchedulerInv
------------------------------------------------------------------------------
(* The safety properties. *)

\* No agent ever works with a missing or an outdated dependency result.
THEOREM FreshContexts == Spec => []ContextFresh
<1>1. SchedulerInv => ContextFresh
  <2> SUFFICES ASSUME SchedulerInv, NEW t \in Tasks,
                      worker[t] \in {"working", "returned"}, NEW d \in dependsOn[t]
               PROVE  status[d] = "done" /\ result[d] # 0 /\ seen[t][d] = result[d]
    BY DEF ContextFresh
  <2>1. status[t] = "running"
    BY DEF SchedulerInv, ThreadInv
  <2>2. Validated
    BY <2>1 DEF SchedulerInv, GraphInv
  <2>3. d \in Tasks /\ status[d] = "done"
    BY <2>1, <2>2, GraphFacts DEF Consistent, DepsDone
  <2> QED
    BY <2>3 DEF SchedulerInv, ResultInv
<1> QED
  BY Invariance, <1>1, PTL

\* Running tasks, futures and threads always agree, and never exceed the pool.
THEOREM ThreadsAccounted == Spec => []RunningAccounted
<1>1. SchedulerInv => RunningAccounted
  BY DEF SchedulerInv, TypeOK, ThreadInv, SlotInv, RunningAccounted
<1> QED
  BY Invariance, <1>1, PTL

\* Completions are announced once each, dependencies first.
THEOREM BlackboardOrdered == Spec => []BlackboardInOrder
  BY Invariance, PTL DEF SchedulerInv

\* At every moment the blocked tasks are those downstream of a failed one.
THEOREM BlockedIsDownstreamOfFailed == Spec => []BlockedExactly
<1>1. SchedulerInv => BlockedExactly
  <2> SUFFICES ASSUME SchedulerInv, Validated, NEW t \in Tasks
               PROVE  status[t] = "blocked" <=>
                        \E f \in Tasks : status[f] = "failed" /\ t \in Downstream(dependsOn, f)
    BY DEF BlockedExactly, Validated
  <2>1. status \in [Tasks -> Statuses]
    BY DEF SchedulerInv, TypeOK
  <2> QED
    BY <2>1, GraphFacts, BlockedIsDownstream
<1> QED
  BY Invariance, <1>1, PTL

LEMMA FinishedIsSettled == SchedulerInv => FinishedSettled
<1> SUFFICES ASSUME SchedulerInv, pc = "finished"
             PROVE  /\ \A t \in Tasks : Settled(status, t)
                    /\ \A t \in Tasks : worker[t] = "idle"
  BY DEF FinishedSettled
<1>1. /\ inFlight = {} /\ popped = {} /\ Ready(dependsOn, status) = {}
      /\ Validated /\ status \in [Tasks -> Statuses]
  BY DEF SchedulerInv, IdleInv, ThreadInv, Validated, TypeOK
<1>2. \A t \in Tasks : status[t] # "running" /\ worker[t] = "idle"
  BY <1>1 DEF SchedulerInv, ThreadInv
<1> QED
  BY <1>1, <1>2, GraphFacts, IdleIsSettled

\* When run() returns, every task has an outcome and no thread is left.
THEOREM ReturnsSettled == Spec => []FinishedSettled
  BY Invariance, FinishedIsSettled, PTL

\* The status and the result of a settled task never change again.
THEOREM OutcomesAreFinal == Spec => OutcomesFinal
<1>1. ASSUME SchedulerInv, [Next]_vars, NEW u \in Tasks, Settled(status, u)
      PROVE  status'[u] = status[u] /\ result'[u] = result[u]
  <2>0. TypeOK
    BY <1>1 DEF SchedulerInv
  <2>1. CASE UNCHANGED <<status, result>>
    BY <2>1
  <2>2. ASSUME NEW t \in Tasks, Launch(t) PROVE status'[u] = status[u] /\ result'[u] = result[u]
    BY <1>1, <2>0, <2>2 DEF Launch, Launchable, Ready, TypeOK, Settled
  <2>3. ASSUME NEW t \in Tasks, Complete(t) \/ RetryTask(t)
        PROVE  status'[u] = status[u] /\ result'[u] = result[u]
    <3>1. status[t] = "running"
      BY <1>1, <2>3, SettleFacts DEF Complete, RetryTask
    <3> QED
      BY <1>1, <2>0, <2>3, <3>1 DEF Complete, RetryTask, TypeOK, Settled
  <2>4. ASSUME NEW t \in Tasks, FailTask(t) PROVE status'[u] = status[u] /\ result'[u] = result[u]
    <3>1. /\ status[t] = "running"
          /\ u # t => status'[u] = status[u] \/ status[u] = "pending"
      BY <1>1, <2>4, FailFacts
    <3> QED
      BY <1>1, <2>4, <3>1 DEF FailTask, Settled
  <2> QED
    BY <1>1, <2>1, <2>2, <2>3, <2>4
       DEF Next, MainStep, WorkerStep, Terminating, Validate, LaunchDone, Check, Pop,
           NoAgent, ReadDeps, EndWork, vars
<1>2. SchedulerInv /\ [Next]_vars =>
        [\A t \in Tasks :
           Settled(status, t) => status'[t] = status[t] /\ result'[t] = result[t]]_vars
  BY <1>1
<1> QED
  BY Invariance, <1>2, PTL DEF Spec, OutcomesFinal

------------------------------------------------------------------------------
(* Scheduler implements TaskFlow. *)

Verdict == CASE pc = "validate" -> "new"
             [] pc = "raised"   -> "rejected"
             [] OTHER           -> "accepted"

LEMMA VerdictFacts ==
  /\ pc = "validate" <=> Verdict = "new"
  /\ Validated <=> Verdict = "accepted"
  /\ pc = "raised" <=> Verdict = "rejected"
  BY DEF Verdict, Validated

\* The instance has copies of the operators of TaskGraph.
LEMMA FlowGraph ==
  /\ \A g : Flow!ValidGraph(g) <=> ValidGraph(g)
  /\ \A g, s, t : Flow!DepsDone(g, s, t) <=> DepsDone(g, s, t)
  /\ \A g, t : Flow!Downstream(g, t) = Downstream(g, t)
<1>1. \A g : Flow!ValidGraph(g) <=> ValidGraph(g)
  BY DEF Flow!ValidGraph, Flow!KnownDeps, Flow!Acyclic, ValidGraph, KnownDeps, Acyclic
<1>2. \A g, s, t : Flow!DepsDone(g, s, t) <=> DepsDone(g, s, t)
  BY DEF Flow!DepsDone, DepsDone
<1>3. \A g, t : Flow!Downstream(g, t) = Downstream(g, t)
  BY DEF Flow!Downstream, Downstream
<1> QED
  BY <1>1, <1>2, <1>3

\* Each step of the main thread or of a worker is one step of the abstract
\* workflow, or changes nothing it shows.
THEOREM StepSimulation == SchedulerInv /\ [Next]_vars => [Flow!FlowNext]_(Flow!flowVars)
<1> SUFFICES ASSUME SchedulerInv, [Next]_vars
             PROVE  Flow!FlowNext \/ UNCHANGED <<dependsOn, Verdict, status, attempts>>
  BY DEF Flow!flowVars, Verdict
<1>0. TypeOK
  BY DEF SchedulerInv
<1>1. CASE Validate
  <2>1. Flow!Judge
    BY <1>1, FlowGraph DEF Validate, Flow!Judge
  <2> QED
    BY <2>1 DEF Flow!FlowNext
<1>2. ASSUME NEW t \in Tasks, Launch(t) PROVE Flow!FlowNext
  <2>1. Flow!Start(t)
    BY <1>2, FlowGraph DEF Launch, Launchable, Ready, Flow!Start
  <2> QED
    BY <2>1 DEF Flow!FlowNext
<1>3. ASSUME NEW t \in Tasks, Complete(t) PROVE Flow!FlowNext
  <2>1. Flow!Finish(t)
    BY <1>3, SettleFacts DEF Complete, Settle, Flow!Finish
  <2> QED
    BY <2>1 DEF Flow!FlowNext
<1>4. ASSUME NEW t \in Tasks, RetryTask(t) PROVE Flow!FlowNext
  <2>1. Flow!Retry(t)
    BY <1>4, SettleFacts DEF RetryTask, Settle, Flow!Retry
  <2> QED
    BY <2>1 DEF Flow!FlowNext
<1>5. ASSUME NEW t \in Tasks, FailTask(t) PROVE Flow!FlowNext
  <2>1. Validated /\ status[t] = "running" /\ attempts[t] \in 0..(MaxAttempts - 1)
    BY <1>5, SettleFacts DEF FailTask
  <2>2. status' = [u \in Tasks |-> IF u = t THEN "failed"
                                   ELSE IF u \in Downstream(dependsOn, t) THEN "blocked"
                                   ELSE status[u]]
    <3>1. MarkFailed(dependsOn, status, t) =
            [u \in Tasks |-> IF u = t THEN "failed"
                             ELSE IF u \in Downstream(dependsOn, t) THEN "blocked"
                             ELSE status[u]]
      <4>1. status \in [Tasks -> Statuses]
        BY <1>0 DEF TypeOK
      <4> QED
        BY <2>1, <4>1, GraphFacts, MarkFailedIsDownstream
    <3> QED
      BY <1>5, <3>1 DEF FailTask
  <2>3. attempts[t] + 1 = MaxAttempts
    BY <1>5, <2>1, SchedulerAssumption DEF FailTask
  <2>4. Flow!Fail(t)
    BY <1>5, <2>1, <2>2, <2>3, FlowGraph DEF FailTask, Settle, Flow!Fail
  <2> QED
    BY <2>4 DEF Flow!FlowNext
<1>6. CASE LaunchDone \/ Check
  BY <1>6 DEF LaunchDone, Check, Verdict
<1>7. ASSUME NEW t \in Tasks, Pop(t)
      PROVE  UNCHANGED <<dependsOn, Verdict, status, attempts>>
  BY <1>7 DEF Pop, Verdict
<1>8. CASE UNCHANGED <<dependsOn, pc, status, attempts>>
  BY <1>8 DEF Verdict
<1> QED
  BY <1>1, <1>2, <1>3, <1>4, <1>5, <1>6, <1>7, <1>8
     DEF Next, MainStep, WorkerStep, Terminating, NoAgent, ReadDeps, EndWork, vars

\* The scheduler, threads, locks and futures included, does nothing the
\* abstract workflow does not allow.
THEOREM Refinement == Spec => Flow!FlowSafety
<1>1. Init => Flow!FlowInit
  BY DEF Init, Flow!FlowInit
<1> QED
  BY Invariance, <1>1, StepSimulation, PTL DEF Spec, Flow!FlowSafety

------------------------------------------------------------------------------
(* The repo run. *)

BusyPhases == {"plan", "schedule", "test"}
EndPhases == {"resolved", "unresolved", "raised"}

\* What solve_repo_issue knows of its rounds.
RoundInv ==
  /\ phase \in BusyPhases \union EndPhases
  /\ limit \in Nat
  /\ round \in Nat
  /\ exits \in Seq(BOOLEAN)
  /\ phase \in {"schedule", "test"} => round <= limit
  /\ phase = "plan" => round <= limit \/ exits = <<>>
  /\ phase \in BusyPhases =>
       Len(exits) + 1 = round /\ (exits # <<>> => exits[Len(exits)] = FALSE)
  /\ phase = "resolved" => Len(exits) = round /\ exits[Len(exits)] = TRUE
  /\ phase = "unresolved" =>
       Len(exits) = round /\ round = limit /\ exits[Len(exits)] = FALSE

\* What is tested is what the store holds.
FileInv == phase \in {"test", "resolved", "unresolved"} => disk = version

RepoInv == SchedulerInv /\ RoundInv /\ FileInv /\ RoundsDoNotOverlap

\* The steps of a round that belong to its scheduler.
WithinRound ==
  \/ ScheduleStep
  \/ \E t \in Tasks : CompleteWithEdits(t) \/ RetryWithEdits(t) \/ RepoWorkerStep(t)

\* An exception leaves solve_repo_issue.
RunRaises == NoRounds \/ PlanFails \/ MaterializeFails \/ TestRaises

LEMMA RepoSteps ==
  RepoNext => \/ PlanRound \/ WithinRound \/ Materialize \/ RunRaises
              \/ \E passed \in BOOLEAN : TestRound(passed)
              \/ UNCHANGED allVars
  BY DEF RepoNext, MainThread, RepoTerminating, WithinRound, RunRaises

\* An exception comes while the tests are undecided, and the threads stay as they
\* are.
LEMMA RaiseFacts ==
  ASSUME RunRaises
  PROVE  /\ phase \in BusyPhases /\ phase' = "raised"
         /\ phase = "schedule" => pc = "finished"
         /\ UNCHANGED <<vars, limit, round, exits>>
  BY DEF RunRaises, NoRounds, PlanFails, MaterializeFails, TestRaises, BusyPhases

LEMMA WithinRoundFacts ==
  ASSUME WithinRound
  PROVE  /\ [Next]_vars
         /\ phase = "schedule"
         /\ UNCHANGED <<limit, phase, round, disk, exits>>
<1>1. CASE ScheduleStep
  BY <1>1 DEF ScheduleStep, Next, MainStep, runVars
<1>2. CASE \E t \in Tasks : CompleteWithEdits(t)
  BY <1>2 DEF CompleteWithEdits, Write, Next, MainStep
<1>3. CASE \E t \in Tasks : RetryWithEdits(t)
  BY <1>3 DEF RetryWithEdits, Write, Next, MainStep
<1>4. CASE \E t \in Tasks : RepoWorkerStep(t)
  BY <1>4 DEF RepoWorkerStep, Next
<1> QED
  BY <1>1, <1>2, <1>3, <1>4 DEF WithinRound

\* A new round is a scheduler in its initial state.
LEMMA PlanRoundFacts ==
  ASSUME PlanRound
  PROVE  /\ Init'
         /\ phase = "plan" /\ phase' = "schedule" /\ round <= limit
         /\ UNCHANGED <<limit, round, version, disk, exits>>
  BY DEF PlanRound, Init

------------------------------------------------------------------------------
(* The invariant. *)

LEMMA RepoInvInit == RepoInit => RepoInv
<1> SUFFICES ASSUME RepoInit PROVE RepoInv
  OBVIOUS
<1>1. SchedulerInv
  BY InitInv DEF RepoInit
<1>2. RoundInv
  BY RepoAssumption DEF RepoInit, RoundInv, BusyPhases
<1>3. FileInv
  BY DEF RepoInit, FileInv
<1>4. RoundsDoNotOverlap
  BY DEF RepoInit, Init, RoundsDoNotOverlap
<1> QED
  BY <1>1, <1>2, <1>3, <1>4 DEF RepoInv

\* Within rounds the scheduler's invariant is kept by its own steps, at their
\* start it is that of the initial state, and elsewhere nothing of it moves.
LEMMA SchedulerInvKept == RepoInv /\ [RepoNext]_allVars => SchedulerInv'
<1> SUFFICES ASSUME RepoInv, [RepoNext]_allVars PROVE SchedulerInv'
  OBVIOUS
<1>1. CASE PlanRound
  <2>1. Init' => SchedulerInv'
    BY InitInv, PTL
  <2> QED
    BY <1>1, <2>1, PlanRoundFacts
<1>2. CASE [Next]_vars
  BY <1>2, InvStep DEF RepoInv
<1> QED
  BY <1>1, <1>2, RepoSteps, WithinRoundFacts, RaiseFacts
     DEF Materialize, TestRound, allVars

\* When the sandbox is written the scheduler has returned.
LEMMA AfterRoundFacts ==
  ASSUME RepoInv, phase = "schedule", pc = "finished"
  PROVE  \A t \in Tasks : Settled(status, t) /\ worker[t] = "idle"
  BY FinishedIsSettled DEF RepoInv, FinishedSettled

LEMMA OverlapStep == RepoInv /\ [RepoNext]_allVars => RoundsDoNotOverlap'
<1> SUFFICES ASSUME RepoInv, [RepoNext]_allVars PROVE RoundsDoNotOverlap'
  OBVIOUS
<1>1. CASE PlanRound \/ WithinRound
  BY <1>1, PlanRoundFacts, WithinRoundFacts DEF RoundsDoNotOverlap
<1>2. CASE Materialize \/ RunRaises
  <2>1. /\ phase = "schedule" => pc = "finished"
        /\ phase' \notin {"plan", "schedule"}
        /\ UNCHANGED <<status, worker>>
    BY <1>2, RaiseFacts DEF Materialize, vars
  <2>2. \A t \in Tasks : worker[t] = "idle"
    BY <2>1, AfterRoundFacts DEF RepoInv, RoundsDoNotOverlap
  <2>3. phase' = "test" => \A t \in Tasks : Settled(status, t)
    BY <1>2, <2>1, RaiseFacts, AfterRoundFacts DEF Materialize
  <2> QED
    BY <2>1, <2>2, <2>3 DEF RoundsDoNotOverlap, Settled
<1>3. CASE \E passed \in BOOLEAN : TestRound(passed)
  <2>1. phase = "test" /\ UNCHANGED <<status, worker>>
    BY <1>3 DEF TestRound, vars
  <2> QED
    BY <2>1 DEF RepoInv, RoundsDoNotOverlap, Settled
<1>4. CASE UNCHANGED allVars
  BY <1>4 DEF allVars, vars, runVars, RepoInv, RoundsDoNotOverlap, Settled
<1> QED
  BY <1>1, <1>2, <1>3, <1>4, RepoSteps

LEMMA FileStep == RepoInv /\ [RepoNext]_allVars => FileInv'
<1> SUFFICES ASSUME RepoInv, [RepoNext]_allVars PROVE FileInv'
  OBVIOUS
<1> USE DEF RepoInv, FileInv
<1>1. CASE PlanRound \/ WithinRound
  BY <1>1, PlanRoundFacts, WithinRoundFacts
<1>2. CASE Materialize \/ RunRaises
  BY <1>2, RaiseFacts DEF Materialize
<1>3. ASSUME NEW passed \in BOOLEAN, TestRound(passed) PROVE FileInv'
  BY <1>3 DEF TestRound
<1>4. CASE UNCHANGED allVars
  BY <1>4 DEF allVars, runVars
<1> QED
  BY <1>1, <1>2, <1>3, <1>4, RepoSteps

\* What a test run does to the log and to the phase.
LEMMA TestFacts ==
  ASSUME RoundInv, NEW passed \in BOOLEAN, TestRound(passed)
  PROVE  /\ phase = "test" /\ limit' = limit
         /\ exits' \in Seq(BOOLEAN)
         /\ Len(exits') = round
         /\ exits'[Len(exits')] = passed
         /\ exits' # <<>>
         /\ \/ passed = TRUE /\ phase' = "resolved" /\ round' = round
            \/ passed = FALSE /\ round < limit /\ phase' = "plan" /\ round' = round + 1
            \/ passed = FALSE /\ round = limit /\ phase' = "unresolved" /\ round' = round
<1>1. /\ phase = "test" /\ limit' = limit /\ exits \in Seq(BOOLEAN)
      /\ Len(exits) + 1 = round /\ round \in Nat /\ limit \in Nat /\ round <= limit
      /\ exits' = Append(exits, passed)
  BY DEF TestRound, RoundInv, BusyPhases
<1>2. exits' \in Seq(BOOLEAN) /\ Len(exits') = round /\ exits'[Len(exits')] = passed
  BY <1>1
<1>3. exits' # <<>>
  BY <1>1
<1>4. CASE passed = TRUE
  BY <1>1, <1>2, <1>3, <1>4 DEF TestRound
<1>5. CASE passed = FALSE /\ round < limit
  <2>1. phase' = "plan" /\ round' = round + 1
    BY <1>5 DEF TestRound
  <2> QED
    BY <1>1, <1>2, <1>3, <1>5, <2>1
<1>6. CASE passed = FALSE /\ round = limit
  <2>1. ~ (round < limit)
    BY <1>1, <1>6
  <2>2. phase' = "unresolved" /\ round' = round
    BY <1>6, <2>1 DEF TestRound
  <2> QED
    BY <1>1, <1>2, <1>3, <1>6, <2>2
<1>7. round < limit \/ round = limit
  BY <1>1
<1> QED
  BY <1>4, <1>5, <1>6, <1>7

LEMMA RoundStep == RepoInv /\ [RepoNext]_allVars => RoundInv'
<1> SUFFICES ASSUME RepoInv, [RepoNext]_allVars PROVE RoundInv'
  OBVIOUS
<1>0. RoundInv
  BY DEF RepoInv
<1>1. CASE PlanRound \/ WithinRound
  BY <1>0, <1>1, PlanRoundFacts, WithinRoundFacts DEF RoundInv, BusyPhases
<1>2. CASE Materialize
  BY <1>0, <1>2 DEF Materialize, RoundInv, BusyPhases
<1>3. CASE RunRaises
  BY <1>0, <1>3, RaiseFacts DEF RoundInv, BusyPhases, EndPhases
<1>4. ASSUME NEW passed \in BOOLEAN, TestRound(passed) PROVE RoundInv'
  <2>1. round \in Nat /\ limit \in Nat
    BY <1>0 DEF RoundInv
  <2>2. /\ exits' \in Seq(BOOLEAN) /\ Len(exits') = round /\ exits'[Len(exits')] = passed
        /\ limit' = limit
    BY <1>0, <1>4, TestFacts
  <2>3. \/ passed = TRUE /\ phase' = "resolved" /\ round' = round
        \/ passed = FALSE /\ round < limit /\ phase' = "plan" /\ round' = round + 1
        \/ passed = FALSE /\ round = limit /\ phase' = "unresolved" /\ round' = round
    BY <1>0, <1>4, TestFacts
  <2>4. CASE passed = TRUE
    BY <2>1, <2>2, <2>3, <2>4 DEF RoundInv, BusyPhases, EndPhases
  <2>5. CASE passed = FALSE
    BY <2>1, <2>2, <2>3, <2>5 DEF RoundInv, BusyPhases, EndPhases
  <2> QED
    BY <2>4, <2>5
<1>5. CASE UNCHANGED allVars
  BY <1>0, <1>5 DEF allVars, runVars, RoundInv
<1> QED
  BY <1>1, <1>2, <1>3, <1>4, <1>5, RepoSteps

LEMMA RepoInvariance == RepoSpec => []RepoInv
<1>1. RepoInv /\ [RepoNext]_allVars => RepoInv'
  BY SchedulerInvKept, RoundStep, FileStep, OverlapStep DEF RepoInv
<1> QED
  BY RepoInvInit, <1>1, PTL DEF RepoSpec

------------------------------------------------------------------------------
(* The theorems. *)

\* Every round's scheduler keeps the invariant it has on its own, although its
\* tasks now write files and the same state serves one round after the other.
THEOREM RoundsKeepScheduler == RepoSpec => []SchedulerInv
  BY RepoInvariance, PTL DEF RepoInv

\* The code that is delivered is the code the last tests saw.
THEOREM DeliveredIsTested == RepoSpec => []TestedIsDelivered
<1>1. RepoInv => TestedIsDelivered
  BY DEF RepoInv, FileInv, TestedIsDelivered
<1> QED
  BY RepoInvariance, <1>1, PTL

\* No thread of a round is left when its tests run or the next one is planned.
THEOREM NoOverlap == RepoSpec => []RoundsDoNotOverlap
  BY RepoInvariance, PTL DEF RepoInv

------------------------------------------------------------------------------
(* The run implements FixRounds. *)

\* While a run is busy its tests have decided nothing.
LEMMA BusyIsUndecided ==
  ASSUME RoundInv, phase \in BusyPhases
  PROVE  Outcome = "running" /\ ~ Tested!Decided(exits)
<1>1. Outcome = "running"
  BY DEF Outcome, BusyPhases
<1>2. ASSUME exits # <<>>
      PROVE  ~ exits[Len(exits)] /\ Len(exits) # limit
  <2>1. exits[Len(exits)] = FALSE /\ Len(exits) + 1 = round /\ Len(exits) \in Nat
    BY <1>2 DEF RoundInv
  <2>2. round <= limit /\ limit \in Nat
    BY <1>2 DEF RoundInv, BusyPhases
  <2>3. Len(exits) # limit
    BY <2>1, <2>2
  <2> QED
    BY <2>1, <2>3
<1>3. ~ Tested!Decided(exits)
  BY <1>2 DEF Tested!Decided
<1> QED
  BY <1>1, <1>3

LEMMA RunSimulation ==
  RepoInv /\ [RepoNext]_allVars => [Tested!RoundsNext]_(Tested!roundVars)
<1> SUFFICES ASSUME RepoInv, [RepoNext]_allVars
             PROVE  Tested!RoundsNext \/ UNCHANGED Tested!roundVars
  OBVIOUS
<1>0. RoundInv
  BY DEF RepoInv
<1>1. CASE PlanRound \/ WithinRound \/ Materialize
  <2>1. UNCHANGED <<limit, exits, round>> /\ phase \in BusyPhases /\ phase' \in BusyPhases
    BY <1>1, PlanRoundFacts, WithinRoundFacts DEF Materialize, BusyPhases
  <2>2. Outcome' = Outcome /\ Reported' = Reported
    BY <2>1 DEF Outcome, Reported, BusyPhases
  <2> QED
    BY <2>1, <2>2 DEF Tested!roundVars
<1>2. CASE RunRaises
  <2>1. phase \in BusyPhases /\ phase' = "raised" /\ UNCHANGED <<limit, exits>>
    BY <1>2, RaiseFacts
  <2>2. Outcome' = "error" /\ Reported' = Reported
    BY <2>1 DEF Outcome, Reported, BusyPhases
  <2>3. Outcome = "running" /\ ~ Tested!Decided(exits)
    BY <1>0, <2>1, BusyIsUndecided
  <2>4. Tested!GiveUp
    BY <2>1, <2>2, <2>3 DEF Tested!GiveUp
  <2> QED
    BY <2>4 DEF Tested!RoundsNext
<1>3. ASSUME NEW passed \in BOOLEAN, TestRound(passed)
      PROVE  Tested!TestOnce(passed)
  <2>1. /\ phase = "test" /\ exits' = Append(exits, passed) /\ limit' = limit
        /\ Len(exits) + 1 = round /\ round \in Nat /\ limit \in Nat /\ round <= limit
        /\ Len(exits) \in Nat
    BY <1>0, <1>3 DEF TestRound, RoundInv, BusyPhases
  <2>2. Outcome = "running" /\ ~ Tested!Decided(exits) /\ Len(exits) < limit
    <3>1. phase \in BusyPhases
      BY <2>1 DEF BusyPhases
    <3>2. Len(exits) < limit
      BY <2>1
    <3> QED
      BY <1>0, <3>1, <3>2, BusyIsUndecided
  <2>3. Tested!Report(exits') \/ UNCHANGED <<Outcome, Reported>>
    <3>1. CASE phase' = "plan"
      <4>1. Outcome' = Outcome /\ Reported' = Reported
        BY <2>1, <3>1 DEF Outcome, Reported
      <4> QED
        BY <4>1
    <3>2. CASE phase' \in {"resolved", "unresolved"}
      <4>1. /\ exits' # <<>> /\ Len(exits') = round /\ round' = round
            /\ exits'[Len(exits')] = passed
            /\ phase' = "resolved" <=> passed = TRUE
            /\ passed = TRUE \/ round = limit
        BY <1>0, <1>3, <3>2, TestFacts
      <4>2. Tested!Decided(exits')
        BY <4>1 DEF Tested!Decided
      <4>3. Outcome' = "finished"
        BY <3>2 DEF Outcome
      <4>4. (phase' = "resolved") = passed
        BY <4>1
      <4>5. Reported' = [resolved |-> exits'[Len(exits')], rounds |-> Len(exits')]
        BY <3>2, <4>1, <4>4 DEF Reported
      <4> QED
        BY <4>2, <4>3, <4>5 DEF Tested!Report
    <3> QED
      BY <1>0, <1>3, <3>1, <3>2, TestFacts
  <2> QED
    BY <2>1, <2>2, <2>3 DEF Tested!TestOnce
<1>4. CASE UNCHANGED allVars
  <2>1. UNCHANGED <<limit, exits, round, phase>>
    BY <1>4 DEF allVars, runVars
  <2> QED
    BY <2>1 DEF Tested!roundVars, Outcome, Reported
<1> QED
  BY <1>1, <1>2, <1>3, <1>4, RepoSteps DEF Tested!RoundsNext

\* The local run, with its scheduler, threads and files, does nothing that
\* FixRounds does not allow.
THEOREM RepoRefinement == RepoSpec => Tested!RoundsSafety
<1>1. RepoInit => Tested!RoundsInit
  <2> SUFFICES ASSUME RepoInit PROVE Tested!RoundsInit
    OBVIOUS
  <2>1. Outcome = "running" /\ Reported = [resolved |-> FALSE, rounds |-> 0]
    BY DEF RepoInit, Outcome, Reported
  <2> QED
    BY <2>1, RepoAssumption DEF RepoInit, Tested!RoundsInit, Tested!NoVerdict
<1> QED
  BY <1>1, RepoInvariance, RunSimulation, PTL DEF RepoSpec, Tested!RoundsSafety
===============================================================================
