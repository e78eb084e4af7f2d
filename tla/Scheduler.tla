------------------------------ MODULE Scheduler ------------------------------
(***************************************************************************)
(* ai_company/scheduler.py.  The main thread runs Scheduler.run(): it      *)
(* validates the graph and then loops, launching ready tasks under the     *)
(* lock, waiting for any future, popping it and handling its completion.   *)
(* Each launched task is executed by a thread of the pool, interleaved     *)
(* with the main thread and with the other workers except where both take  *)
(* self._lock (pc = "launch" is the main thread's critical section).       *)
(*                                                                         *)
(* Abstracted: the text of results (a result is the number of the attempt  *)
(* that produced it, 0 is None), the order of the tasks dict (any ready    *)
(* task may be the next one submitted), the timeline and its wording.      *)
(***************************************************************************)
EXTENDS TaskGraph, Integers, Sequences, FiniteSets

CONSTANTS Graphs,       \* the graphs run() may be given
          Staffed,      \* tasks whose role has an agent in self.agents
          MaxWorkers,   \* Scheduler.max_workers
          MaxAttempts   \* Scheduler.MAX_ATTEMPTS

ASSUME SchedulerAssumption == /\ IsFiniteSet(Tasks)
                              /\ Graphs \subseteq Graph
                              /\ Staffed \subseteq Tasks
                              /\ MaxWorkers \in Nat \ {0}
                              /\ MaxAttempts \in Nat \ {0}

VARIABLES dependsOn,   \* Task.depends_on of every task
          pc,          \* where the main thread is
          status,      \* Task.status
          attempts,    \* Task.attempts
          result,      \* Task.result
          inFlight,    \* the values of run()'s in_flight dict
          popped,      \* the task whose completion is being handled, if any
          worker,      \* what the thread executing a task is doing
          seen,        \* dep_results of the running _execute, 0 elsewhere
          decisions    \* SharedMemory's "decision" entries, oldest first

vars == <<dependsOn, pc, status, attempts, result, inFlight, popped, worker,
          seen, decisions>>

Results == 0..MaxAttempts
NoResults == [d \in Tasks |-> 0]
WorkerStates == {"idle", "queued", "working", "returned", "raised"}
MainStates == {"validate", "launch", "check", "wait", "settle", "finished", "raised"}

TypeOK ==
  /\ dependsOn \in Graph
  /\ pc \in MainStates
  /\ status \in [Tasks -> Statuses]
  /\ attempts \in [Tasks -> 0..MaxAttempts]
  /\ result \in [Tasks -> Results]
  /\ inFlight \in SUBSET Tasks
  /\ popped \in SUBSET Tasks
  /\ worker \in [Tasks -> WorkerStates]
  /\ seen \in [Tasks -> [Tasks -> Results]]
  /\ decisions \in Seq(Tasks)

Init ==
  /\ dependsOn \in Graphs
  /\ pc = "validate"
  /\ status = [t \in Tasks |-> "pending"]
  /\ attempts = [t \in Tasks |-> 0]
  /\ result = NoResults
  /\ inFlight = {}
  /\ popped = {}
  /\ worker = [t \in Tasks |-> "idle"]
  /\ seen = [t \in Tasks |-> NoResults]
  /\ decisions = <<>>

------------------------------------------------------------------------------
(* The main thread. *)

\* Bug: only cycles are looked for.
ValidateCycles ==
  /\ pc = "validate"
  /\ pc' = IF Acyclic(dependsOn) THEN "launch" ELSE "raised"
  /\ UNCHANGED <<dependsOn, status, attempts, result, inFlight, popped, worker,
                 seen, decisions>>

\* graph.validate(): an unknown dependency or a cycle escapes run().
Validate ==
  /\ pc = "validate"
  /\ pc' = IF ValidGraph(dependsOn) THEN "launch" ELSE "raised"
  /\ UNCHANGED <<dependsOn, status, attempts, result, inFlight, popped, worker,
                 seen, decisions>>

Launchable ==
  IF Cardinality(inFlight) < MaxWorkers THEN Ready(dependsOn, status) ELSE {}

\* One iteration of the launch loop.  The lock is held from the first
\* iteration to LaunchDone.
Launch(t) ==
  /\ pc = "launch"
  /\ t \in Launchable
  /\ status' = [status EXCEPT ![t] = "running"]
  /\ inFlight' = inFlight \union {t}
  /\ worker' = [worker EXCEPT ![t] = "queued"]
  /\ UNCHANGED <<dependsOn, pc, attempts, result, popped, seen, decisions>>

LaunchDone ==
  /\ pc = "launch"
  /\ Launchable = {}
  /\ pc' = IF inFlight = {} THEN "check" ELSE "wait"
  /\ UNCHANGED <<dependsOn, status, attempts, result, inFlight, popped, worker,
                 seen, decisions>>

\* Nothing in flight: leave the loop, or go round again.
Check ==
  /\ pc = "check"
  /\ pc' = IF IsFinished(dependsOn, status) \/ Ready(dependsOn, status) = {}
           THEN "finished" ELSE "launch"
  /\ UNCHANGED <<dependsOn, status, attempts, result, inFlight, popped, worker,
                 seen, decisions>>

\* Bug: the future stays in in_flight.
PopKeepsFuture(t) ==
  /\ pc = "wait"
  /\ t \in inFlight
  /\ worker[t] \in {"returned", "raised"}
  /\ popped' = {t}
  /\ pc' = "settle"
  /\ UNCHANGED <<dependsOn, status, attempts, result, inFlight, worker, seen, decisions>>

\* as_completed yields some finished future; it leaves in_flight.
Pop(t) ==
  /\ pc = "wait"
  /\ t \in inFlight
  /\ worker[t] \in {"returned", "raised"}
  /\ inFlight' = inFlight \ {t}
  /\ popped' = {t}
  /\ pc' = "settle"
  /\ UNCHANGED <<dependsOn, status, attempts, result, worker, seen, decisions>>

\* What every way of settling a popped task does to the bookkeeping.
Settle(t) ==
  /\ pc = "settle"
  /\ t \in popped
  /\ popped' = {}
  /\ worker' = [worker EXCEPT ![t] = "idle"]
  /\ seen' = [seen EXCEPT ![t] = NoResults]
  /\ pc' = "launch"

\* The future returned and on_task_done, if any, did not raise.
Complete(t) ==
  /\ Settle(t)
  /\ worker[t] = "returned"
  /\ result' = [result EXCEPT ![t] = attempts[t] + 1]
  /\ status' = [status EXCEPT ![t] = "done"]
  /\ decisions' = Append(decisions, t)
  /\ UNCHANGED <<dependsOn, attempts, inFlight>>

\* Bug: the attempt is not counted.
RetryUncounted(t) ==
  /\ Settle(t)
  /\ attempts[t] + 1 < MaxAttempts
  /\ status' = [status EXCEPT ![t] = "pending"]
  /\ UNCHANGED <<dependsOn, attempts, result, inFlight, decisions>>

\* future.result() or on_task_done raised (WriteConflict or anything else):
\* _retry_or_fail, with attempts left.
RetryTask(t) ==
  /\ Settle(t)
  /\ attempts[t] + 1 < MaxAttempts
  /\ attempts' = [attempts EXCEPT ![t] = @ + 1]
  /\ status' = [status EXCEPT ![t] = "pending"]
  /\ UNCHANGED <<dependsOn, result, inFlight, decisions>>

\* _retry_or_fail on the last attempt.
FailTask(t) ==
  /\ Settle(t)
  /\ attempts[t] + 1 >= MaxAttempts
  /\ attempts' = [attempts EXCEPT ![t] = @ + 1]
  /\ status' = MarkFailed(dependsOn, status, t)
  /\ UNCHANGED <<dependsOn, result, inFlight, decisions>>

MainStep ==
  \/ Validate
  \/ LaunchDone
  \/ Check
  \/ \E t \in Tasks :
       Launch(t) \/ Pop(t) \/ Complete(t) \/ RetryTask(t) \/ FailTask(t)

------------------------------------------------------------------------------
(* The thread of the pool that runs _execute(t). *)

LockFree == pc # "launch"

\* self.agents[task.role] finds no agent: KeyError, before the lock is taken.
NoAgent(t) ==
  /\ worker[t] = "queued"
  /\ t \notin Staffed
  /\ worker' = [worker EXCEPT ![t] = "raised"]
  /\ UNCHANGED <<dependsOn, pc, status, attempts, result, inFlight, popped,
                 seen, decisions>>

\* The results of the dependencies are copied under the lock.
ReadDeps(t) ==
  /\ worker[t] = "queued"
  /\ t \in Staffed
  /\ LockFree
  /\ seen' = [seen EXCEPT ![t] =
                [d \in Tasks |-> IF d \in dependsOn[t] THEN result[d] ELSE 0]]
  /\ worker' = [worker EXCEPT ![t] = "working"]
  /\ UNCHANGED <<dependsOn, pc, status, attempts, result, inFlight, popped, decisions>>

\* build_context and agent.work end: with an answer, or with an exception.
EndWork(t) ==
  /\ worker[t] = "working"
  /\ \E end \in {"returned", "raised"} : worker' = [worker EXCEPT ![t] = end]
  /\ UNCHANGED <<dependsOn, pc, status, attempts, result, inFlight, popped,
                 seen, decisions>>

WorkerStep(t) == NoAgent(t) \/ ReadDeps(t) \/ EndWork(t)

------------------------------------------------------------------------------
Terminated == pc \in {"finished", "raised"}

\* run() has returned or raised; nothing happens any more.
Terminating == Terminated /\ UNCHANGED vars

Next == MainStep \/ (\E t \in Tasks : WorkerStep(t)) \/ Terminating

\* The threads are scheduled fairly.  That an LLM call ends is assumed: the
\* client counts its attempts and bounds its waits (LLMClient), but the timeout
\* of a request bounds connecting and each read, not the request.
Fairness == WF_vars(MainStep) /\ \A t \in Tasks : WF_vars(WorkerStep(t))

Spec == Init /\ [][Next]_vars /\ Fairness
------------------------------------------------------------------------------
(* Properties. *)

\* Whatever a worker is working with was read from finished dependencies and
\* is still what they hold: no task is built on a missing or an outdated
\* dependency result, although the copy is used long after the lock is gone.
ContextFresh ==
  \A t \in Tasks :
    worker[t] \in {"working", "returned"} =>
      \A d \in dependsOn[t] : status[d] = "done" /\ result[d] # 0 /\ seen[t][d] = result[d]

\* A task is RUNNING exactly while run() accounts for it, in in_flight or in
\* the completion being handled; its thread exists, and there are never more
\* than max_workers of them.
RunningAccounted ==
  /\ {t \in Tasks : status[t] = "running"} = inFlight \union popped
  /\ {t \in Tasks : worker[t] # "idle"} = inFlight \union popped
  /\ Cardinality(inFlight \union popped) <= MaxWorkers

\* The shared log announces every completed task once, and never before the
\* tasks it depends on: agents read a history that could have happened.
BlackboardInOrder ==
  /\ \A t \in Tasks :
       status[t] = "done" <=> \E i \in 1..Len(decisions) : decisions[i] = t
  /\ \A i, j \in 1..Len(decisions) :
       /\ i # j => decisions[i] # decisions[j]
       /\ decisions[i] \in dependsOn[decisions[j]] => i < j

\* mark_failed blocks neither too much nor too little: at every moment the
\* BLOCKED tasks are exactly those downstream of a FAILED one.
BlockedExactly ==
  pc \notin {"validate", "raised"} =>
    \A t \in Tasks :
      status[t] = "blocked" <=>
        \E f \in Tasks : status[f] = "failed" /\ t \in Downstream(dependsOn, f)

\* When run() returns, every task has an outcome and no thread is left: the
\* break test never abandons a task that could still have run.
FinishedSettled ==
  pc = "finished" => /\ \A t \in Tasks : Settled(status, t)
                     /\ \A t \in Tasks : worker[t] = "idle"

\* An outcome is final: neither a late completion nor a cascade started by
\* another task changes the status or the result of a settled task.
OutcomesFinal ==
  [][\A t \in Tasks :
       Settled(status, t) => status'[t] = status[t] /\ result'[t] = result[t]]_vars

\* run() ends, whatever the graph and however often the agents fail.
Termination == <>Terminated

\* The scheduler implements TaskFlow: seen from the statuses alone, every step
\* of its threads is one atomic step of the abstract workflow or none.
Flow == INSTANCE TaskFlow WITH
          verdict <- CASE pc = "validate" -> "new"
                       [] pc = "raised"   -> "rejected"
                       [] OTHER           -> "accepted"

ImplementsTaskFlow == Flow!FlowSpec
------------------------------------------------------------------------------
(* The inductive invariant: what the properties above rest on. *)

Validated == pc \notin {"validate", "raised"}

\* Before validation, and after it failed, nothing has been touched; after it
\* succeeded, the graph is a DAG and the statuses are consistent with it.
GraphInv ==
  /\ ~ Validated => /\ inFlight = {}
                    /\ \A t \in Tasks : status[t] = "pending"
  /\ Validated => ValidGraph(dependsOn) /\ Consistent(dependsOn, status)

\* The set of running tasks, the futures and the threads are the same.
ThreadInv ==
  /\ \A t \in Tasks : status[t] = "running" <=> t \in inFlight \union popped
  /\ \A t \in Tasks : worker[t] # "idle" <=> t \in inFlight \union popped
  /\ inFlight \cap popped = {}
  /\ pc # "settle" => popped = {}
  /\ pc = "settle" => \E t \in Tasks : popped = {t}

SlotInv ==
  /\ IsFiniteSet(inFlight \union popped)
  /\ Cardinality(inFlight \union popped) <= MaxWorkers

\* A task that is not FAILED has an attempt left.
AttemptInv == \A t \in Tasks : status[t] # "failed" => attempts[t] < MaxAttempts

\* Where run() waits, checks or has returned, the launch loop has been exhausted.
IdleInv ==
  /\ pc = "wait" => Launchable = {}
  /\ pc \in {"check", "finished"} => inFlight = {} /\ Ready(dependsOn, status) = {}

\* Results exist from DONE on, and the copies workers hold are current.
ResultInv ==
  /\ \A t \in Tasks : status[t] = "done" => result[t] # 0
  /\ \A t \in Tasks : worker[t] \in {"working", "returned"} =>
       \A d \in dependsOn[t] : seen[t][d] = result[d]

SchedulerInv ==
  /\ TypeOK
  /\ GraphInv
  /\ ThreadInv
  /\ SlotInv
  /\ AttemptInv
  /\ IdleInv
  /\ ResultInv
  /\ BlackboardInOrder
==============================================================================
