------------------------------- MODULE RepoRun -------------------------------
(***************************************************************************)
(* Company.solve_repo_issue of ai_company/company.py with the Workspace of *)
(* ai_company/repo.py: rounds of planning, scheduling, materialising and   *)
(* testing, over one file store.  The scheduler is module Scheduler; a     *)
(* completed task's edits are applied by the main thread (on_task_done =   *)
(* apply_edits) while the other workers go on with what they were shown.   *)
(*                                                                         *)
(* Abstracted: a file is its version number (0: no such file); an agent's  *)
(* answer is the set of paths its blocks name and whether the blocks run   *)
(* into an unsafe path, after any number of them has been written.  The    *)
(* listing of the files in a prompt, which is cut after 6000 characters,   *)
(* and the test output are text.                                           *)
(***************************************************************************)
EXTENDS Scheduler

CONSTANTS Paths,
          Loaded,      \* the paths _load commits
          MaxRounds    \* the largest max_fix_rounds + 1 explored

ASSUME RepoAssumption == Loaded \subseteq Paths /\ MaxRounds \in Nat

VARIABLES limit,     \* max_fix_rounds + 1; 0 stands for a negative max_fix_rounds
          phase,     \* where solve_repo_issue is
          round,     \* round_no
          version,   \* the file store
          disk,      \* the version of each file in sandbox_dir
          exits,     \* whether the test command passed, per round (log)
          overtaken  \* not in the code: the paths committed by others since
                     \* a task's context was built

runVars == <<limit, phase, round, version, disk, exits, overtaken>>
allVars == <<vars, runVars>>

Ended == phase \in {"resolved", "unresolved", "raised"}
Live(t) == worker[t] \in {"working", "returned"}

RepoTypeOK ==
  /\ TypeOK
  /\ limit \in 0..MaxRounds
  /\ phase \in {"plan", "schedule", "test", "resolved", "unresolved", "raised"}
  /\ round \in Nat \ {0}
  /\ version \in [Paths -> Nat]
  /\ disk \in [Paths -> Nat]
  /\ exits \in Seq(BOOLEAN)
  /\ overtaken \in [Tasks -> SUBSET Paths]

\* What Workspace._load leaves behind; no scheduler exists yet.
RepoInit ==
  /\ Init
  /\ limit \in 0..MaxRounds
  /\ phase = "plan"
  /\ round = 1
  /\ version = [p \in Paths |-> IF p \in Loaded THEN 1 ELSE 0]
  /\ disk = version
  /\ exits = <<>>
  /\ overtaken = [t \in Tasks |-> {}]

------------------------------------------------------------------------------
\* A negative max_fix_rounds: the loop is skipped, and the return after it names
\* test_output, which no round has bound.
NoRounds ==
  /\ phase = "plan"
  /\ round > limit
  /\ phase' = "raised"
  /\ UNCHANGED <<vars, limit, round, version, disk, exits, overtaken>>

\* plan_dynamically: either model call raises, or the round gets a graph (see
\* Planner) and a new Scheduler.
PlanFails ==
  /\ phase = "plan"
  /\ round <= limit
  /\ phase' = "raised"
  /\ UNCHANGED <<vars, limit, round, version, disk, exits, overtaken>>

PlanRound ==
  /\ phase = "plan"
  /\ round <= limit
  /\ phase' = "schedule"
  /\ dependsOn' \in Graphs
  /\ pc' = "validate"
  /\ status' = [t \in Tasks |-> "pending"]
  /\ attempts' = [t \in Tasks |-> 0]
  /\ result' = NoResults
  /\ inFlight' = {}
  /\ popped' = {}
  /\ worker' = [t \in Tasks |-> "idle"]
  /\ seen' = [t \in Tasks |-> NoResults]
  /\ decisions' = <<>>     \* the entries of this round; the memory keeps the others
  /\ overtaken' = [t \in Tasks |-> {}]
  /\ UNCHANGED <<limit, round, version, disk, exits>>

\* The scheduler's steps that do not touch the file store.
ScheduleStep ==
  /\ phase = "schedule"
  /\ \/ Validate \/ LaunchDone \/ Check
     \/ \E t \in Tasks : Launch(t) \/ Pop(t)
  /\ UNCHANGED runVars

RepoWorkerStep(t) ==
  /\ phase = "schedule"
  /\ WorkerStep(t)
  /\ overtaken' = IF worker'[t] = "working" THEN [overtaken EXCEPT ![t] = {}] ELSE overtaken
  /\ UNCHANGED <<limit, phase, round, version, disk, exits>>

\* apply_agent_output: each block is checked out and committed at once, so the
\* base version is the current one and the commit is always clean.
Write(t, paths) ==
  /\ version' = [p \in Paths |-> IF p \in paths THEN version[p] + 1 ELSE version[p]]
  /\ overtaken' = [u \in Tasks |-> IF Live(u) /\ u # t
                                   THEN overtaken[u] \union paths ELSE overtaken[u]]
  /\ UNCHANGED <<limit, phase, round, disk, exits>>

\* apply_edits writes all blocks.
CompleteWithEdits(t) ==
  /\ phase = "schedule"
  /\ Complete(t)
  /\ \E paths \in SUBSET Paths : Write(t, paths)

\* The thread raised, or its blocks did, the first ones written already.
RetryWithEdits(t) ==
  /\ phase = "schedule"
  /\ RetryTask(t) \/ FailTask(t)
  /\ \E paths \in SUBSET Paths :
       /\ worker[t] = "raised" => paths = {}
       /\ Write(t, paths)

\* Bug: solve_repo_issue does not wait for run() to drain.
MaterializeEarly ==
  /\ phase = "schedule"
  /\ pc \in {"wait", "finished"}
  /\ disk' = version
  /\ phase' = "test"
  /\ UNCHANGED <<vars, limit, round, version, exits, overtaken>>

\* Bug: a file that is in the sandbox already is not written again.
MaterializeNew ==
  /\ phase = "schedule"
  /\ pc = "finished"
  /\ disk' = [p \in Paths |-> IF disk[p] = 0 THEN version[p] ELSE disk[p]]
  /\ phase' = "test"
  /\ UNCHANGED <<vars, limit, round, version, exits, overtaken>>

\* run() has returned; materialize() copies the whole store into the sandbox.
Materialize ==
  /\ phase = "schedule"
  /\ pc = "finished"
  /\ disk' = version
  /\ phase' = "test"
  /\ UNCHANGED <<vars, limit, round, version, exits, overtaken>>

\* materialize() raises halfway: a path that names a directory got into the store
\* (_safe_rel_path lets "." through).  Nobody in solve_repo_issue catches it.
MaterializeFails ==
  /\ phase = "schedule"
  /\ pc = "finished"
  /\ \E written \in SUBSET Paths :
       disk' = [p \in Paths |-> IF p \in written THEN version[p] ELSE disk[p]]
  /\ phase' = "raised"
  /\ UNCHANGED <<vars, limit, round, version, exits, overtaken>>

\* Bug: the last round gives up without a look at its exit code.
TestLastIgnored(passed) ==
  /\ phase = "test"
  /\ exits' = Append(exits, passed)
  /\ phase' = CASE round = limit -> "unresolved"
                [] passed -> "resolved"
                [] OTHER -> "plan"
  /\ round' = IF phase' = "plan" THEN round + 1 ELSE round
  /\ UNCHANGED <<vars, limit, version, disk, overtaken>>

\* The test command ends; a timeout is exit code 124, a failure.
TestRound(passed) ==
  /\ phase = "test"
  /\ exits' = Append(exits, passed)
  /\ phase' = CASE passed -> "resolved"
                [] ~ passed /\ round < limit -> "plan"
                [] OTHER -> "unresolved"
  /\ round' = IF phase' = "plan" THEN round + 1 ELSE round
  /\ UNCHANGED <<vars, limit, version, disk, overtaken>>

\* subprocess.run raises something else, as for output that is not text.
TestRaises ==
  /\ phase = "test"
  /\ phase' = "raised"
  /\ UNCHANGED <<vars, limit, round, version, disk, exits, overtaken>>

MainThread ==
  \/ NoRounds
  \/ PlanFails
  \/ PlanRound
  \/ ScheduleStep
  \/ \E t \in Tasks : CompleteWithEdits(t) \/ RetryWithEdits(t)
  \/ Materialize
  \/ MaterializeFails
  \/ \E passed \in BOOLEAN : TestRound(passed)
  \/ TestRaises

RepoTerminating == Ended /\ UNCHANGED allVars

RepoNext == MainThread \/ (\E t \in Tasks : RepoWorkerStep(t)) \/ RepoTerminating

\* As in Scheduler, calls assumed to end; the test command has a timeout.
RepoFairness ==
  WF_allVars(MainThread) /\ \A t \in Tasks : WF_allVars(RepoWorkerStep(t))

RepoSpec == RepoInit /\ [][RepoNext]_allVars /\ RepoFairness

------------------------------------------------------------------------------
(* Properties. *)

\* The code that is shown (the store) and offered for download (the sandbox) is
\* the code the last test run saw: every round brings the sandbox up to date
\* before its tests, and nothing is committed after them.
TestedIsDelivered ==
  phase \in {"resolved", "unresolved"} => disk = version

\* The tests never run, and no round is planned, while a thread of the round
\* before is alive or one of its tasks is undecided.
RoundsDoNotOverlap ==
  /\ phase # "schedule" => \A t \in Tasks : worker[t] = "idle"
  /\ phase = "test" \/ (phase = "plan" /\ round > 1) =>
       \A t \in Tasks : Settled(status, t)

\* How far the run has come, and what it returns once it has ended.
Outcome ==
  CASE phase \in {"resolved", "unresolved"} -> "finished"
    [] phase = "raised"                     -> "error"
    [] OTHER                                -> "running"

Reported ==
  [resolved |-> phase = "resolved",
   rounds   |-> IF phase \in {"resolved", "unresolved"} THEN round ELSE 0]

Tested == INSTANCE FixRounds WITH
  outcome <- Outcome, verdict <- Reported

\* The run is an implementation of FixRounds: it ends, whatever the agents and
\* the tests do, "resolved" only by the tests of its last round, "unresolved"
\* only when every round was used and failed, and with the count of its rounds.
ImplementsFixRounds == Tested!RoundsSpec

\* "an agent checks out a file's version, and its write only succeeds if nobody
\* else has committed since" (PROJECT_SUMMARY.md): no commit of a task lands on
\* a path that another task committed after this one's context was built.
WritesAreChecked ==
  [][\A t \in Tasks : \A p \in Paths :
       t \in popped /\ version'[p] # version[p] => p \notin overtaken[t]]_allVars
==============================================================================
